---------------------------- MODULE Accounts_proofs ----------------------------
(***************************************************************************)
(* Proofs about Accounts, for every set of names, browsers and passkeys,   *)
(* every number of requests at a time, and every staff with an owner.      *)
(***************************************************************************)
EXTENDS Accounts, SequenceTheorems, FunctionTheorems, FiniteSetTheorems,
        WellFoundedInduction, TLAPS

-----------------------------------------------------------------------------
(* The invariant *)

Known(id) == \E n \in Names : users[n].id = id

(* Rows: ids are their own, and a kick is never newer than the row says. *)
RowAt(n) ==
    Exists(n) => /\ users[n].id <= ids /\ users[n].pw # 0
                 /\ ended[users[n].id] <= users[n].cut
OwnIds == \A m, n \in Names : Exists(m) /\ users[m].id = users[n].id => m = n
Rows ==
    /\ \A n \in Names : RowAt(n)
    /\ OwnIds
    /\ \A i \in 1 .. MaxIds : i > ids => ended[i] = 0
    /\ \A k \in Passkeys : passkeys[k].id # 0 => Known(passkeys[k].id)

(* A cookie that names a user says when he logged in. *)
Live(c) == c.id # 0 => c.login > 0
Cookies == \A b \in Browsers : Live(jar[b])

(* What a request is about to write and to send. *)
SavesRole(q) ==
    q.op = "profile" /\ q.st = "write" =>
        /\ q.by.role \in Roles
        /\ q.by.name = Root => q.by.role = "owner"
        /\ q.by.name \notin blurred => q.by.role = granted[q.by.name]
RequestAt(q) ==
    /\ q.op \in {"role", "delete"} /\ q.st = "write" => q.name # Root
    /\ SavesRole(q)
    /\ q.ok
    /\ Live(q.mem) /\ (q.out # <<>> => Live(q.out[1]))
    /\ q.tell # 0 => q.st \in {"answer", "session"}
RequestsInv == \A r \in Slots : RequestAt(req[r])

Inv == /\ AccountsTypeOK /\ Rows /\ Cookies /\ RequestsInv
       /\ OwnerRemains /\ RolesAsGranted /\ PasswordsReachable

-----------------------------------------------------------------------------
(* Types *)

LEMMA Bounds ==
    /\ MaxIds \in Nat /\ MaxPasswords \in Nat /\ MaxRequests \in Nat /\ MaxTime \in Nat \ {0}
    /\ 0 \in Ids /\ 0 \in 0 .. MaxPasswords /\ Ids = 0 .. MaxIds /\ Root \in Names
BY AccountsAssumption, LimiterAssumption DEF Ids

LEMMA Constants ==
    /\ NoUser \in Row /\ NoUser.id = 0
    /\ NoCookie \in Cookie /\ Live(NoCookie)
    /\ Nobody \in Caller /\ Nobody.role \notin Roles
    /\ NoPasskey \in [id : Ids, count : Nat] /\ NoPasskey.id = 0
    /\ NoKey \in [id : Ids, until : Nat] /\ NoKey.id = 0
BY Bounds DEF NoUser, Row, Roles, NoCookie, Cookie, SessionKeys, Live, Nobody, Caller, NoPasskey, NoKey

LEMMA FreeType ==
    /\ Free \in Request /\ Free.st = "free" /\ Free.op = "" /\ Free.tell = 0 /\ Free.ok = TRUE
    /\ Free.mem = NoCookie /\ Free.out = <<>> /\ Free.name = Root
<1>1. AnyBrowser \in Browsers /\ AnyPasskey \in Passkeys
  BY AccountsAssumption DEF AnyBrowser, AnyPasskey
<1>2. "user" \in Roles /\ "free" \in Stages
  BY DEF Roles, Stages
<1>3. <<>> \in Seq(Cookie)
  BY EmptySeq
<1>4. Free \in Request
  BY <1>1, <1>2, <1>3, Bounds, Constants DEF Free, Request
<1> QED
  BY <1>4 DEF Free

LEMMA FreeOK == RequestAt(Free)
BY FreeType, Constants DEF RequestAt, SavesRole

LEMMA OneCookie ==
    ASSUME NEW c \in Cookie
    PROVE  <<c>> \in Seq(Cookie) /\ <<c>>[1] = c /\ <<c>> # <<>>
OBVIOUS

LEMMA NewSessionType ==
    ASSUME AccountsTypeOK, NEW id \in Ids
    PROVE  NewSession(id) \in Cookie /\ Live(NewSession(id))
BY Bounds DEF NewSession, Cookie, SessionKeys, Live, AccountsTypeOK, Seconds

LEMMA WithCaptchaType ==
    ASSUME NEW c \in Cookie, Live(c)
    PROVE  WithCaptcha(c) \in Cookie /\ Live(WithCaptcha(c))
BY DEF WithCaptcha, Cookie, SessionKeys, Live

LEMMA LessKeys ==
    ASSUME NEW c \in Cookie, Live(c), NEW K \in SUBSET SessionKeys
    PROVE  [c EXCEPT !.keys = K] \in Cookie /\ Live([c EXCEPT !.keys = K])
BY DEF Cookie, Live

(* A refusal, of a request that has nothing to show. *)
LEMMA Refused ==
    ASSUME NEW q \in Request, Live(q.mem), q.ok
    PROVE  Refuse(q) \in Request /\ RequestAt(Refuse(q)) /\ Refuse(q).st = "answer" /\ Refuse(q).tell = 0
<1>1. q.mem \in Cookie
  BY DEF Request
<1>2. WithCaptcha(q.mem) \in Cookie /\ Live(WithCaptcha(q.mem))
  BY <1>1, WithCaptchaType
<1> DEFINE out == <<WithCaptcha(q.mem)>>
<1>3. out \in Seq(Cookie) /\ out[1] = WithCaptcha(q.mem)
  BY <1>2, OneCookie
<1>4. Refuse(q) = [q EXCEPT !.st = "answer", !.out = out, !.tell = 0]
  BY DEF Refuse
<1> HIDE DEF out
<1>5. "answer" \in Stages
  BY DEF Stages
<1>6. /\ Refuse(q) \in Request /\ Refuse(q).st = "answer" /\ Refuse(q).tell = 0
      /\ Refuse(q).out = out /\ Refuse(q).mem = q.mem /\ Refuse(q).ok = q.ok
  BY <1>3, <1>4, <1>5, Bounds DEF Request
<1> QED
  BY <1>2, <1>3, <1>6 DEF RequestAt, SavesRole

-----------------------------------------------------------------------------
(* Who a request is from *)

LEMMA CallerType ==
    ASSUME AccountsTypeOK, NEW n \in Names
    PROVE  AsCaller(n) \in Caller
BY Bounds DEF AsCaller, Caller, AccountsTypeOK, Row

(* A session that is honoured is of a row that is there, whose kicks it has outlived. *)
LEMMA SessionUsers ==
    ASSUME Inv, NEW c \in Cookie, Live(c), SessionUser(c) # Nobody
    PROVE  \E n \in Names : /\ Exists(n) /\ SessionUser(c) = AsCaller(n) /\ users[n].id = c.id
                            /\ c.login >= ended[c.id]
<1> DEFINE ns == {n \in Names : users[n].id = c.id}
           n == CHOOSE n \in ns : TRUE
<1>1. c.id # 0 /\ ns # {} /\ ~(users[n].cut > 0 /\ c.login > 0 /\ users[n].cut > c.login) /\ SessionUser(c) = AsCaller(n)
  BY DEF SessionUser
<1>2. n \in Names /\ users[n].id = c.id
  BY <1>1
<1> HIDE DEF n, ns
<1>3. c.login > 0 /\ c.login \in Nat /\ users[n].cut \in Nat /\ users[n].id \in 1 .. MaxIds
  BY <1>1, <1>2, Bounds DEF Live, Cookie, Inv, AccountsTypeOK, Row
<1>4. ended[c.id] \in Nat /\ ended[c.id] <= users[n].cut
  BY <1>1, <1>2, <1>3 DEF Inv, Rows, RowAt, Exists, AccountsTypeOK
<1>5. c.login >= ended[c.id]
  BY <1>1, <1>3, <1>4
<1> QED
  BY <1>1, <1>2, <1>5 DEF Exists

LEMMA KeyUsers ==
    ASSUME Inv, NEW k \in Nat, KeyUser(k) # Nobody
    PROVE  k \in DOMAIN keys /\ \E n \in Names : Exists(n) /\ KeyUser(k) = AsCaller(n)
<1> DEFINE rows == {i \in DOMAIN keys : /\ keys[i].id # 0 /\ KeyPrefix[i] = KeyPrefix[k]
                                        /\ keys[i].until = 0 \/ keys[i].until > now}
           ns == {n \in Names : users[n].id = keys[k].id}
           n == CHOOSE n \in ns : TRUE
<1>1. k \in rows /\ ns # {} /\ KeyUser(k) = AsCaller(n)
  BY DEF KeyUser
<1>2. n \in Names /\ users[n].id = keys[k].id /\ keys[k].id # 0 /\ k \in DOMAIN keys
  BY <1>1
<1> QED
  BY <1>1, <1>2 DEF Exists

LEMMA Callers ==
    ASSUME Inv, NEW b \in Browsers, NEW k \in Nat
    PROVE  /\ CallerOf(b, k) \in Caller
           /\ CallerOf(b, k) = Nobody \/ \E n \in Names : Exists(n) /\ CallerOf(b, k) = AsCaller(n)
<1>1. jar[b] \in Cookie /\ Live(jar[b])
  BY DEF Inv, AccountsTypeOK, Cookies
<1>2. CallerOf(b, k) = Nobody \/ \E n \in Names : Exists(n) /\ CallerOf(b, k) = AsCaller(n)
  BY <1>1, SessionUsers, KeyUsers DEF CallerOf, ViaKey
<1> QED
  BY <1>2, CallerType, Constants DEF Inv

LEMMA Values ==
    ASSUME Inv, NEW b \in Browsers, NEW k \in Nat
    PROVE  ValuesOf(b, k) \in Cookie /\ Live(ValuesOf(b, k))
<1>1. jar[b] \in Cookie /\ Live(jar[b]) /\ now \in Nat
  BY Bounds DEF Inv, AccountsTypeOK, Cookies, Seconds
<1>2. [jar[b] EXCEPT !.last = now] \in Cookie /\ Live([jar[b] EXCEPT !.last = now])
  BY <1>1 DEF Cookie, Live
<1> QED
  BY <1>1, <1>2, Constants DEF ValuesOf

ArrivedAs(q, op, u) ==
    /\ q \in Request /\ RequestAt(q) /\ q.st = "answer" /\ q.op = op /\ q.tell = 0 /\ q.ok = TRUE
    /\ q.by = u /\ q.mem \in Cookie /\ Live(q.mem)
    /\ q.out \in Seq(Cookie) /\ (q.out # <<>> => Live(q.out[1]))

LEMMA Arrives ==
    ASSUME Inv, NEW b \in Browsers, NEW k \in Nat, NEW op \in Operations
    PROVE  ArrivedAs(Arrived(op, b, k), op, CallerOf(b, k))
<1> DEFINE q == Arrived(op, b, k)
           u == CallerOf(b, k)
           m == ValuesOf(b, k)
           out == IF Cleared(b, k) THEN <<NoCookie>> ELSE <<>>
           ok == ViaKey(k) \/ u = Nobody \/ jar[b].login >= ended[u.id]
<1>1. u \in Caller /\ m \in Cookie /\ Live(m)
  BY Callers, Values
<1>2. out \in Seq(Cookie) /\ (out # <<>> => Live(out[1]))
  BY Constants, OneCookie, EmptySeq
<1>3. ok = TRUE
  <2>1. CASE ViaKey(k) \/ u = Nobody
    BY <2>1
  <2>2. CASE ~ViaKey(k) /\ u # Nobody
    <3>1. u = SessionUser(jar[b]) /\ jar[b] \in Cookie /\ Live(jar[b])
      BY <2>2 DEF CallerOf, Inv, AccountsTypeOK, Cookies
    <3>2. PICK n \in Names : u = AsCaller(n) /\ users[n].id = jar[b].id /\ jar[b].login >= ended[jar[b].id]
      BY <2>2, <3>1, SessionUsers
    <3>3. u.id = jar[b].id
      BY <3>2 DEF AsCaller
    <3> QED
      BY <3>2, <3>3
  <2> QED
    BY <2>1, <2>2
<1>4. q = [Free EXCEPT !.op = op, !.b = b, !.by = u, !.mem = m, !.st = "answer", !.out = out, !.ok = TRUE]
  BY <1>3 DEF Arrived
<1> HIDE DEF q, u, m, out, ok
<1>5. /\ q \in Request /\ q.st = "answer" /\ q.op = op /\ q.tell = 0 /\ q.ok = TRUE
      /\ q.by = u /\ q.mem = m /\ q.out = out
  <2>1. op \in Operations \cup {""} /\ "answer" \in Stages /\ TRUE \in BOOLEAN
    BY DEF Stages
  <2> QED
    BY <1>1, <1>2, <1>4, <2>1, FreeType DEF Request
<1>6. RequestAt(q)
  BY <1>1, <1>2, <1>5 DEF RequestAt, SavesRole
<1> QED
  BY <1>1, <1>2, <1>5, <1>6 DEF q, u, ArrivedAs

-----------------------------------------------------------------------------
(* Steps that leave the rows of users alone *)

Moves(r, q) == req' = [req EXCEPT ![r] = q]

PasskeyRows == [Passkeys -> [id : Ids, count : Nat]]
KeyRows == Seq([id : Ids, until : Nat])

(* Nothing somebody was to be shown is forgotten. *)
LEMMA StillReachable ==
    ASSUME Inv, NEW r \in Slots, NEW q \in Request, Moves(r, q), UNCHANGED users,
           told \subseteq told', lost \subseteq lost',
           req[r].tell = 0 \/ req[r].tell = q.tell \/ req[r].tell \in told' \cup lost'
    PROVE  PasswordsReachable'
<1> SUFFICES ASSUME NEW n \in Names, Exists(n)'
             PROVE  users'[n].pw \in told' \cup lost' \cup {req'[s].tell : s \in Slots}
  BY DEF PasswordsReachable
<1>1. users'[n].pw \in told \cup lost \cup {req[s].tell : s \in Slots} /\ users'[n].pw # 0
  BY DEF Inv, PasswordsReachable, Exists, Rows, RowAt
<1>2. req'[r] = q /\ \A s \in Slots \ {r} : req'[s] = req[s]
  BY DEF Moves, Inv, AccountsTypeOK
<1>3. ASSUME NEW s \in Slots, users'[n].pw = req[s].tell
      PROVE  users'[n].pw \in told' \cup lost' \cup {req'[x].tell : x \in Slots}
  <2>1. CASE s = r
    BY <1>1, <1>2, <1>3, <2>1
  <2>2. CASE s # r
    BY <1>2, <1>3, <2>2
  <2> QED
    BY <2>1, <2>2
<1> QED
  BY <1>1, <1>3

LEMMA OnlyRequests ==
    ASSUME Inv, NEW r \in Slots, NEW q \in Request, Moves(r, q), RequestAt(q),
           UNCHANGED <<now, users, ids, granted, blurred, ended>>, passwords' \in 0 .. MaxPasswords,
           requests' \in 0 .. MaxRequests, jar' \in [Browsers -> Cookie], Cookies',
           passkeys' \in PasskeyRows, counters' \in [Passkeys -> Nat], keys' \in KeyRows,
           \A k \in Passkeys : passkeys'[k].id \notin {0, passkeys[k].id} => Known(passkeys'[k].id),
           told \subseteq told', lost \subseteq lost',
           told' \subseteq 1 .. MaxPasswords, lost' \subseteq 1 .. MaxPasswords,
           req[r].tell = 0 \/ req[r].tell = q.tell \/ req[r].tell \in told' \cup lost'
    PROVE  Inv'
<1>1. AccountsTypeOK'
  BY DEF Inv, AccountsTypeOK, Moves, PasskeyRows, KeyRows
<1>2. Rows'
  <2>1. ASSUME NEW k \in Passkeys, passkeys'[k].id # 0 PROVE Known(passkeys'[k].id)
    BY <2>1 DEF Inv, Rows
  <2>2. (\A n \in Names : RowAt(n)') /\ OwnIds'
    BY DEF Inv, Rows, RowAt, Exists, OwnIds
  <2> QED
    BY <2>1, <2>2 DEF Inv, Rows, Known
<1>3. RequestsInv'
  <2>1. ASSUME NEW s \in Slots PROVE RequestAt(req'[s])
    BY DEF Inv, AccountsTypeOK, Moves, RequestsInv
  <2> QED
    BY <2>1 DEF RequestsInv, RequestAt, SavesRole
<1>4. OwnerRemains' /\ RolesAsGranted'
  BY DEF Inv, OwnerRemains, RolesAsGranted, Exists
<1>5. PasswordsReachable'
  BY StillReachable
<1> QED
  BY <1>1, <1>2, <1>3, <1>4, <1>5 DEF Inv

(* A handler goes on: only its request and what the limiter has change. *)
LEMMA Goes ==
    ASSUME Inv, NEW r \in Slots, NEW q \in Request, Step(r, q), RequestAt(q),
           UNCHANGED <<store, history>>, req[r].tell = 0 \/ req[r].tell = q.tell
    PROVE  Inv'
BY OnlyRequests DEF Step, Moves, store, history, Inv, AccountsTypeOK, Cookies, PasskeyRows, KeyRows

(* A request arrives, and may change the tables of passkeys and keys at once. *)
LEMMA TakesIn ==
    ASSUME Inv, NEW r \in Slots, NEW q \in Request, Take(r, q), RequestAt(q),
           req[r].st = "free", requests < MaxRequests,
           UNCHANGED <<users, ids, passwords, history>>,
           passkeys' \in PasskeyRows, counters' \in [Passkeys -> Nat], keys' \in KeyRows,
           \A k \in Passkeys : passkeys'[k].id \in {0, passkeys[k].id}
    PROVE  Inv'
<1>1. req[r].tell = 0
  BY DEF Inv, RequestsInv, RequestAt
<1>2. requests' \in 0 .. MaxRequests
  BY Bounds DEF Inv, AccountsTypeOK, Take
<1> QED
  BY <1>1, <1>2, OnlyRequests DEF Take, Moves, history, Inv, AccountsTypeOK, Cookies

LEMMA TakesOnly ==
    ASSUME Inv, NEW r \in Slots, NEW q \in Request, Take(r, q), RequestAt(q),
           req[r].st = "free", requests < MaxRequests, UNCHANGED <<store, history>>
    PROVE  Inv'
BY TakesIn DEF store, Inv, AccountsTypeOK, PasskeyRows, KeyRows

LEMMA AnswerInv ==
    ASSUME Inv, NEW r \in Slots, Answer(r)
    PROVE  Inv'
<1>1. req[r] \in Request /\ RequestAt(req[r]) /\ req[r].b \in Browsers /\ req[r].out \in Seq(Cookie)
  BY DEF Inv, AccountsTypeOK, RequestsInv, Request
<1>2. jar' \in [Browsers -> Cookie] /\ Cookies'
  <2>1. CASE req[r].out = <<>>
    BY <2>1 DEF Answer, Inv, AccountsTypeOK, Cookies
  <2>2. CASE req[r].out # <<>>
    <3>1. req[r].out[1] \in Cookie /\ Live(req[r].out[1])
      <4>1. Len(req[r].out) \in Nat \ {0}
        BY <1>1, <2>2, EmptySeq
      <4> QED
        BY <1>1, <2>2, <4>1, ElementOfSeq DEF RequestAt
    <3> QED
      BY <1>1, <2>2, <3>1 DEF Answer, Inv, AccountsTypeOK, Cookies
  <2> QED
    BY <2>1, <2>2
<1>3. /\ told' = told \cup ({req[r].tell} \ {0}) /\ Moves(r, Free)
      /\ UNCHANGED <<now, store, requests, lost, granted, blurred, ended>>
  BY DEF Answer, Moves
<1>4. told' \subseteq 1 .. MaxPasswords /\ told \subseteq told' /\ (req[r].tell = 0 \/ req[r].tell \in told')
  <2>1. told \subseteq 1 .. MaxPasswords /\ req[r].tell \in 0 .. MaxPasswords
    BY <1>1 DEF Inv, AccountsTypeOK, Request
  <2>2. req[r].tell # 0 => req[r].tell \in 1 .. MaxPasswords
    BY <2>1, Bounds
  <2> QED
    BY <1>3, <2>1, <2>2
<1> QED
  BY <1>2, <1>3, <1>4, FreeType, FreeOK, OnlyRequests
     DEF store, Inv, AccountsTypeOK, PasskeyRows, KeyRows

-----------------------------------------------------------------------------
(* Requests that arrive *)

LEMMA Posts ==
    ASSUME Inv, NEW b \in Browsers, NEW k \in Nat, NEW R \in SUBSET (Roles \cup {"nobody"}), MayPost(b, k, R)
    PROVE  CallerOf(b, k).role \in R
BY DEF MayPost

(* A caller with a role is a user that is there. *)
LEMMA LoggedIn ==
    ASSUME Inv, NEW b \in Browsers, NEW k \in Nat, CallerOf(b, k).role \in Roles
    PROVE  \E n \in Names : Exists(n) /\ CallerOf(b, k) = AsCaller(n)
BY Callers, Constants

(* The answer of a request, with what it sends and goes on with. *)
LEMMA Dressed ==
    ASSUME NEW q \in Request, RequestAt(q), q.tell = 0, NEW m \in Cookie, Live(m),
           NEW out \in Seq(Cookie), out # <<>> => Live(out[1]), NEW st \in Stages, st # "write",
           NEW y, y = [q EXCEPT !.mem = m, !.out = out, !.st = st]
    PROVE  y \in Request /\ RequestAt(y) /\ y.tell = 0 /\ y.mem = m /\ y.st = st
<1>1. /\ y \in Request /\ y.tell = 0 /\ y.mem = m /\ y.st = st /\ y.out = out /\ y.ok = q.ok
  BY DEF Request
<1> QED
  BY <1>1 DEF RequestAt, SavesRole

LEMMA GetCSRFInv ==
    ASSUME Inv, NEW r \in Slots, NEW b \in Browsers, req[r].st = "free", requests < MaxRequests, GetCSRF(r, b)
    PROVE  Inv'
<1>0. "csrf" \in Operations /\ 0 \in Nat
  BY DEF Operations
<1> DEFINE q == Arrived("csrf", b, 0)
           out == IF Cleared(b, 0) THEN q.out ELSE <<WithCaptcha(q.mem)>>
           y == [q EXCEPT !.out = out]
<1>1. /\ q \in Request /\ RequestAt(q) /\ q.st = "answer" /\ q.tell = 0
      /\ q.mem \in Cookie /\ Live(q.mem)
      /\ q.out \in Seq(Cookie) /\ (q.out # <<>> => Live(q.out[1]))
  <2>1. ArrivedAs(q, "csrf", CallerOf(b, 0))
    BY <1>0, Arrives
  <2> QED
    BY <2>1 DEF ArrivedAs
<1> HIDE DEF q
<1>2. out \in Seq(Cookie) /\ (out # <<>> => Live(out[1]))
  BY <1>1, WithCaptchaType, OneCookie
<1> HIDE DEF out
<1>3. y \in Request /\ y.tell = 0 /\ y.mem = q.mem /\ y.st = q.st /\ y.out = out /\ y.ok = q.ok
  BY <1>1, <1>2 DEF Request
<1>4. RequestAt(y)
  BY <1>1, <1>2, <1>3 DEF RequestAt, SavesRole
<1>5. Take(r, y) /\ UNCHANGED <<store, history>>
  BY DEF GetCSRF, q, out
<1> QED
  BY <1>3, <1>4, <1>5, TakesOnly

LEMMA ReadInv ==
    ASSUME Inv, NEW r \in Slots, NEW b \in Browsers, req[r].st = "free", requests < MaxRequests,
           NEW k \in Nat, NEW bodiless \in BOOLEAN, Read(r, b, k, bodiless)
    PROVE  Inv'
<1>0. "read" \in Operations /\ 0 \in Nat
  BY DEF Operations
<1> DEFINE q == Arrived("read", b, k)
           out == IF bodiless /\ jar[b] # NoCookie /\ ~Cleared(b, k) THEN <<q.mem>> ELSE q.out
           y == [q EXCEPT !.out = out]
<1>1. /\ q \in Request /\ RequestAt(q) /\ q.st = "answer" /\ q.tell = 0
      /\ q.mem \in Cookie /\ Live(q.mem)
      /\ q.out \in Seq(Cookie) /\ (q.out # <<>> => Live(q.out[1]))
  <2>1. ArrivedAs(q, "read", CallerOf(b, k))
    BY <1>0, Arrives
  <2> QED
    BY <2>1 DEF ArrivedAs
<1> HIDE DEF q
<1>2. out \in Seq(Cookie) /\ (out # <<>> => Live(out[1]))
  BY <1>1, OneCookie
<1> HIDE DEF out
<1>3. y \in Request /\ y.tell = 0 /\ y.mem = q.mem /\ y.st = q.st /\ y.out = out /\ y.ok = q.ok
  BY <1>1, <1>2 DEF Request
<1>4. RequestAt(y)
  BY <1>1, <1>2, <1>3 DEF RequestAt, SavesRole
<1>5. Take(r, y) /\ UNCHANGED <<store, history>>
  BY DEF Read, q, out
<1> QED
  BY <1>3, <1>4, <1>5, TakesOnly

LEMMA LogoutInv ==
    ASSUME Inv, NEW r \in Slots, NEW b \in Browsers, req[r].st = "free", requests < MaxRequests, Logout(r, b)
    PROVE  Inv'
<1>0. "logout" \in Operations /\ 0 \in Nat
  BY DEF Operations
<1> DEFINE q == Arrived("logout", b, 0)
<1>1. ArrivedAs(q, "logout", CallerOf(b, 0))
  BY <1>0, Arrives
<1> DEFINE out == <<NoCookie>>
           y == [q EXCEPT !.out = out]
<1>2. Take(r, y) /\ UNCHANGED <<store, history>>
  BY DEF Logout
<1> HIDE DEF q
<1>3. out \in Seq(Cookie) /\ out # <<>> /\ Live(out[1])
  BY OneCookie, Constants
<1> HIDE DEF out
<1>4. y \in Request /\ y.tell = 0 /\ y.mem = q.mem /\ y.st = q.st /\ y.out = out /\ y.ok = q.ok
  BY <1>1, <1>3 DEF ArrivedAs, Request
<1>5. RequestAt(y)
  BY <1>1, <1>3, <1>4 DEF ArrivedAs, RequestAt, SavesRole
<1> QED
  BY <1>2, <1>4, <1>5, TakesOnly

LEMMA BeginPasskeyInv ==
    ASSUME Inv, NEW r \in Slots, NEW b \in Browsers, req[r].st = "free", requests < MaxRequests,
           NEW key \in SessionKeys, BeginPasskey(r, b, key)
    PROVE  Inv'
<1>0. "begin" \in Operations /\ 0 \in Nat
  BY DEF Operations
<1> DEFINE q == Arrived("begin", b, 0)
<1>1. ArrivedAs(q, "begin", CallerOf(b, 0))
  BY <1>0, Arrives
<1> DEFINE K == q.mem.keys \cup {key}
           c == [q.mem EXCEPT !.keys = K]
           out == <<c>>
           y == [q EXCEPT !.out = out]
<1>2. Take(r, y) /\ UNCHANGED <<store, history>>
  BY DEF BeginPasskey
<1> HIDE DEF q
<1>3. c \in Cookie /\ Live(c)
  <2>1. K \in SUBSET SessionKeys
    BY <1>1 DEF ArrivedAs, Cookie
  <2> QED
    BY <1>1, <2>1, LessKeys DEF ArrivedAs
<1> HIDE DEF c
<1>4. out \in Seq(Cookie) /\ out # <<>> /\ Live(out[1])
  BY <1>3, OneCookie
<1> HIDE DEF out
<1>5. y \in Request /\ y.tell = 0 /\ y.mem = q.mem /\ y.st = q.st /\ y.out = out /\ y.ok = q.ok
  BY <1>1, <1>4 DEF ArrivedAs, Request
<1>6. RequestAt(y)
  BY <1>1, <1>4, <1>5 DEF ArrivedAs, RequestAt, SavesRole
<1> QED
  BY <1>2, <1>5, <1>6, TakesOnly

LEMMA LoginInv ==
    ASSUME Inv, NEW r \in Slots, NEW b \in Browsers, req[r].st = "free", requests < MaxRequests,
           NEW n \in Names, NEW p \in told, NEW right \in BOOLEAN, Login(r, b, n, p, right)
    PROVE  Inv'
<1>0. "login" \in Operations /\ 0 \in Nat
  BY DEF Operations
<1> DEFINE q == Arrived("login", b, 0)
<1>1. ArrivedAs(q, "login", CallerOf(b, 0))
  BY <1>0, Arrives
<1> DEFINE c == [q.mem EXCEPT !.keys = @ \ {"captcha"}]
           next == [q EXCEPT !.name = n, !.pw = p, !.mem = c]
           y == [next EXCEPT !.st = "verify"]
<1>2. (Take(r, y) \/ Take(r, Refuse(next))) /\ UNCHANGED <<store, history>>
  BY DEF Login
<1> HIDE DEF q
<1>3. c \in Cookie /\ Live(c)
  <2>1. q.mem.keys \ {"captcha"} \in SUBSET SessionKeys
    BY <1>1 DEF ArrivedAs, Cookie
  <2> QED
    BY <1>1, <2>1, LessKeys DEF ArrivedAs
<1>4. p \in 0 .. MaxPasswords /\ "verify" \in Stages
  BY Bounds DEF Inv, AccountsTypeOK, Stages
<1> HIDE DEF c
<1>5. /\ next \in Request /\ next.mem = c /\ next.ok = TRUE /\ next.tell = 0
      /\ next.out = q.out /\ next.st = "answer"
  BY <1>1, <1>3, <1>4 DEF ArrivedAs, Request
<1> HIDE DEF next
<1>6. y \in Request /\ y.mem = c /\ y.ok = TRUE /\ y.tell = 0 /\ y.out = q.out /\ y.st = "verify"
  BY <1>4, <1>5 DEF Request
<1>7. RequestAt(y)
  BY <1>1, <1>3, <1>6 DEF ArrivedAs, RequestAt, SavesRole
<1>8. Refuse(next) \in Request /\ RequestAt(Refuse(next))
  BY <1>3, <1>5, Refused
<1> QED
  BY <1>2, <1>6, <1>7, <1>8, TakesOnly

(* The challenge is popped; the request goes on with the passkey. *)
LEMMA Popped ==
    ASSUME Inv, NEW q, NEW op, NEW u, ArrivedAs(q, op, u), NEW key, NEW k \in Passkeys,
           NEW n \in Nat, NEW st \in {"save", "assert"}
    PROVE  LET m == [q.mem EXCEPT !.keys = @ \ {key}]
               y == [q EXCEPT !.mem = m, !.out = <<m>>, !.pk = k, !.n = n, !.st = st]
           IN y \in Request /\ RequestAt(y)
<1> DEFINE m == [q.mem EXCEPT !.keys = @ \ {key}]
           out == <<m>>
           y == [q EXCEPT !.mem = m, !.out = out, !.pk = k, !.n = n, !.st = st]
<1>1. m \in Cookie /\ Live(m)
  <2>1. q.mem.keys \ {key} \in SUBSET SessionKeys
    BY DEF ArrivedAs, Cookie
  <2> QED
    BY <2>1, LessKeys DEF ArrivedAs
<1> HIDE DEF m
<1>2. out \in Seq(Cookie) /\ out # <<>> /\ Live(out[1])
  BY <1>1, OneCookie
<1> HIDE DEF out
<1>3. st \in Stages /\ st # "write"
  BY DEF Stages
<1>4. y \in Request /\ y.mem = m /\ y.out = out /\ y.st = st /\ y.ok = TRUE /\ y.tell = 0
  BY <1>1, <1>2, <1>3 DEF ArrivedAs, Request
<1>5. RequestAt(y)
  BY <1>1, <1>2, <1>3, <1>4 DEF RequestAt, SavesRole
<1> QED
  BY <1>4, <1>5 DEF m, out

LEMMA FinishRegistrationInv ==
    ASSUME Inv, NEW r \in Slots, NEW b \in Browsers, req[r].st = "free", requests < MaxRequests,
           NEW k \in Passkeys, FinishRegistration(r, b, k)
    PROVE  Inv'
<1>0. "register" \in Operations /\ 0 \in Nat
  BY DEF Operations
<1> DEFINE q == Arrived("register", b, 0)
<1>1. ArrivedAs(q, "register", CallerOf(b, 0))
  BY <1>0, Arrives
<1> DEFINE m == [q.mem EXCEPT !.keys = @ \ {"webauthn_reg"}]
           y == [q EXCEPT !.mem = m, !.out = <<m>>, !.pk = k, !.n = q.n, !.st = "save"]
           z == [q EXCEPT !.mem = m, !.out = <<m>>, !.pk = k, !.st = "save"]
<1>2. Take(r, z) /\ UNCHANGED <<store, history>>
  BY DEF FinishRegistration
<1> HIDE DEF q
<1>3. q.n \in Nat /\ q \in Request
  BY <1>1 DEF ArrivedAs, Request
<1>4. y \in Request /\ RequestAt(y)
  BY <1>1, <1>3, Popped
<1>5. z = y
  BY <1>3 DEF Request
<1> QED
  BY <1>2, <1>4, <1>5, TakesOnly

LEMMA FinishPasskeyLoginInv ==
    ASSUME Inv, NEW r \in Slots, NEW b \in Browsers, req[r].st = "free", requests < MaxRequests,
           NEW k \in Passkeys, FinishPasskeyLogin(r, b, k)
    PROVE  Inv'
<1>0. "passkey" \in Operations /\ 0 \in Nat
  BY DEF Operations
<1> DEFINE q == Arrived("passkey", b, 0)
<1>1. ArrivedAs(q, "passkey", CallerOf(b, 0))
  BY <1>0, Arrives
<1> DEFINE m == [q.mem EXCEPT !.keys = @ \ {"webauthn_login"}]
           i == counters[k] + 1
           y == [q EXCEPT !.mem = m, !.out = <<m>>, !.pk = k, !.n = i, !.st = "assert"]
<1>2. counters \in [Passkeys -> Nat] /\ i \in Nat
  BY DEF Inv, AccountsTypeOK
<1>3. /\ counters' = [counters EXCEPT ![k] = i] /\ counters'[k] = i
      /\ Take(r, y) /\ UNCHANGED <<limiter, users, ids, passwords, passkeys, keys, history>>
  BY <1>2 DEF FinishPasskeyLogin
<1> HIDE DEF q, i
<1>4. y \in Request /\ RequestAt(y)
  BY <1>1, <1>2, Popped
<1>5. counters' \in [Passkeys -> Nat]
  BY <1>2, <1>3
<1> QED
  BY <1>3, <1>4, <1>5, TakesIn DEF Inv, AccountsTypeOK, PasskeyRows, KeyRows

LEMMA DeletePasskeyInv ==
    ASSUME Inv, NEW r \in Slots, NEW b \in Browsers, req[r].st = "free", requests < MaxRequests,
           NEW k \in Passkeys, DeletePasskey(r, b, k)
    PROVE  Inv'
<1>0. "unregister" \in Operations /\ 0 \in Nat
  BY DEF Operations
<1> DEFINE q == Arrived("unregister", b, 0)
<1>1. ArrivedAs(q, "unregister", CallerOf(b, 0))
  BY <1>0, Arrives
<1>2. /\ passkeys' \in {passkeys, [passkeys EXCEPT ![k] = NoPasskey]}
      /\ Take(r, q) /\ UNCHANGED <<users, ids, passwords, counters, keys, history>>
  BY DEF DeletePasskey
<1> HIDE DEF q
<1>3. passkeys' \in PasskeyRows /\ \A i \in Passkeys : passkeys'[i].id \in {0, passkeys[i].id}
  BY <1>2, Constants DEF Inv, AccountsTypeOK, PasskeyRows
<1> QED
  BY <1>1, <1>2, <1>3, TakesIn DEF ArrivedAs, Inv, AccountsTypeOK, KeyRows

LEMMA CreateAPIKeyInv ==
    ASSUME Inv, NEW r \in Slots, NEW b \in Browsers, req[r].st = "free", requests < MaxRequests,
           NEW k \in Nat, NEW until \in Nat, CreateAPIKey(r, b, k, until)
    PROVE  Inv'
<1>0. "newkey" \in Operations /\ 0 \in Nat
  BY DEF Operations
<1> DEFINE q == Arrived("newkey", b, k)
<1>1. ArrivedAs(q, "newkey", CallerOf(b, k))
  BY <1>0, Arrives
<1> DEFINE row == [id |-> q.by.id, until |-> until]
<1>2. /\ keys' = Append(keys, row)
      /\ Take(r, q) /\ UNCHANGED <<users, ids, passwords, passkeys, counters, history>>
  BY DEF CreateAPIKey
<1> HIDE DEF q
<1>3. row \in [id : Ids, until : Nat]
  BY <1>1 DEF ArrivedAs, Request, Caller
<1> HIDE DEF row
<1>4. keys' \in KeyRows
  BY <1>2, <1>3 DEF Inv, AccountsTypeOK, KeyRows
<1> QED
  BY <1>1, <1>2, <1>4, TakesIn DEF ArrivedAs, Inv, AccountsTypeOK, PasskeyRows

LEMMA DeleteAPIKeyInv ==
    ASSUME Inv, NEW r \in Slots, NEW b \in Browsers, req[r].st = "free", requests < MaxRequests,
           NEW k \in Nat, NEW i \in 1 .. Len(keys), DeleteAPIKey(r, b, k, i)
    PROVE  Inv'
<1>0. "delkey" \in Operations /\ 0 \in Nat
  BY DEF Operations
<1> DEFINE q == Arrived("delkey", b, k)
<1>1. ArrivedAs(q, "delkey", CallerOf(b, k))
  BY <1>0, Arrives
<1>2. /\ keys' = [keys EXCEPT ![i] = NoKey]
      /\ Take(r, q) /\ UNCHANGED <<users, ids, passwords, passkeys, counters, history>>
  BY DEF DeleteAPIKey
<1> HIDE DEF q
<1>3. keys' \in KeyRows
  BY <1>2, Constants, ExceptSeq DEF Inv, AccountsTypeOK, KeyRows
<1> QED
  BY <1>1, <1>2, <1>3, TakesIn DEF ArrivedAs, Inv, AccountsTypeOK, PasskeyRows

LEMMA TargetInv ==
    ASSUME Inv, NEW r \in Slots, NEW b \in Browsers, req[r].st = "free", requests < MaxRequests,
           NEW k \in Nat, NEW op \in {"role", "delete", "force", "immediate", "kick"},
           NEW n \in Names, NEW role \in Roles, Target(r, b, k, op, n, role)
    PROVE  Inv'
<1>0. op \in Operations
  BY DEF Operations
<1> DEFINE q == Arrived(op, b, k)
           st == IF op = "force" THEN "flag" ELSE "write"
           y == [q EXCEPT !.name = n, !.role = role, !.seen = users[n], !.st = st]
<1>1. ArrivedAs(q, op, CallerOf(b, k))
  BY <1>0, Arrives
<1>2. Take(r, y) /\ UNCHANGED <<store, history>> /\ (op # "kick" => ~IsOwner(users[n].role))
  BY DEF Target
<1> HIDE DEF q
<1>3. users[n] \in Row /\ st \in Stages
  BY DEF Inv, AccountsTypeOK, Stages
<1> HIDE DEF st
<1>4. /\ y \in Request /\ y.tell = 0 /\ y.mem = q.mem /\ y.name = n /\ y.op = op /\ y.out = q.out
      /\ y.ok = TRUE
  BY <1>1, <1>3 DEF ArrivedAs, Request
<1>5. op \in {"role", "delete"} => n # Root
  BY <1>2 DEF Inv, OwnerRemains, IsOwner
<1>6. RequestAt(y)
  BY <1>1, <1>4, <1>5 DEF ArrivedAs, RequestAt, SavesRole
<1> QED
  BY <1>2, <1>4, <1>6, TakesOnly

LEMMA ChangePasswordInv ==
    ASSUME Inv, NEW r \in Slots, NEW b \in Browsers, req[r].st = "free", requests < MaxRequests,
           NEW k \in Nat, NEW p \in told, ChangePassword(r, b, k, p)
    PROVE  Inv'
<1>0. "password" \in Operations /\ 0 \in Nat
  BY DEF Operations
<1> DEFINE q == Arrived("password", b, k)
<1>1. ArrivedAs(q, "password", CallerOf(b, k))
  BY <1>0, Arrives
<1> DEFINE y == [q EXCEPT !.name = q.by.name, !.pw = p, !.st = "verify"]
<1>2. Take(r, y) /\ UNCHANGED <<store, history>>
  BY DEF ChangePassword
<1> HIDE DEF q
<1>3. p \in 0 .. MaxPasswords /\ "verify" \in Stages /\ q.by.name \in Names
  <2>1. told \subseteq 1 .. MaxPasswords
    BY DEF Inv, AccountsTypeOK
  <2>2. "verify" \in Stages
    BY DEF Stages
  <2>3. q.by \in Caller
    BY <1>1 DEF ArrivedAs, Request
  <2>4. q.by.name \in Names
    BY <2>3 DEF Caller
  <2> QED
    BY <2>1, <2>2, <2>4, Bounds
<1>4. /\ y \in Request /\ y.tell = 0 /\ y.mem = q.mem /\ y.st = "verify" /\ y.out = q.out /\ y.ok = TRUE
  BY <1>1, <1>3 DEF ArrivedAs, Request
<1>5. RequestAt(y)
  BY <1>1, <1>4 DEF ArrivedAs, RequestAt, SavesRole
<1> QED
  BY <1>2, <1>4, <1>5, TakesOnly

LEMMA UpdateProfileInv ==
    ASSUME Inv, NEW r \in Slots, NEW b \in Browsers, req[r].st = "free", requests < MaxRequests,
           NEW k \in Nat, UpdateProfile(r, b, k)
    PROVE  Inv'
<1>0. "profile" \in Operations /\ 0 \in Nat
  BY DEF Operations
<1> DEFINE q == Arrived("profile", b, k)
<1>1. ArrivedAs(q, "profile", CallerOf(b, k))
  BY <1>0, Arrives
<1> DEFINE y == [q EXCEPT !.st = "write"]
<1>2. Take(r, y) /\ UNCHANGED <<store, history>> /\ CallerOf(b, k).role \in Roles
  BY DEF UpdateProfile, MayPost
<1> HIDE DEF q
<1>3. /\ y \in Request /\ y.tell = 0 /\ y.mem = q.mem /\ y.out = q.out /\ y.ok = TRUE
      /\ y.op = "profile" /\ y.by = CallerOf(b, k)
  BY <1>1 DEF ArrivedAs, Request, Stages
<1>4. PICK n \in Names : Exists(n) /\ CallerOf(b, k) = AsCaller(n)
  BY <1>2, LoggedIn
<1>5. y.by.name = n /\ y.by.role = users[n].role
  BY <1>3, <1>4 DEF AsCaller
<1>6. SavesRole(y)
  BY <1>2, <1>3, <1>4, <1>5 DEF SavesRole, Inv, OwnerRemains, RolesAsGranted
<1>7. RequestAt(y)
  BY <1>1, <1>3, <1>6 DEF ArrivedAs, RequestAt
<1> QED
  BY <1>2, <1>3, <1>7, TakesOnly

(* The requests that are under way when one arrives stay as they are. *)
LEMMA CreateUserInv ==
    ASSUME Inv, NEW r \in Slots, NEW b \in Browsers, req[r].st = "free", requests < MaxRequests,
           NEW k \in Nat, NEW n \in Names, NEW role \in Roles, CreateUser(r, b, k, n, role)
    PROVE  Inv'
<1>0. "create" \in Operations
  BY DEF Operations
<1> DEFINE q == Arrived("create", b, k)
           id == ids + 1
           pw == passwords + 1
           row == [id |-> id, role |-> role, pw |-> pw, reset |-> FALSE, cut |-> 0]
           y == [q EXCEPT !.tell = pw]
<1>1. ArrivedAs(q, "create", CallerOf(b, k))
  BY <1>0, Arrives
<1>2. /\ ~Exists(n) /\ ids < MaxIds /\ passwords < MaxPasswords
      /\ ids' = id /\ passwords' = pw
      /\ users' = [users EXCEPT ![n] = row]
      /\ Grant(n, role) /\ Take(r, y)
      /\ UNCHANGED <<passkeys, counters, keys, told, lost, ended>>
  BY DEF CreateUser
<1> HIDE DEF q
<1>3. id \in 1 .. MaxIds /\ pw \in 1 .. MaxPasswords /\ ids \in Ids /\ passwords \in 0 .. MaxPasswords
  BY <1>2, Bounds DEF Inv, AccountsTypeOK
<1>4. id \in Ids /\ pw \in 0 .. MaxPasswords /\ id > ids /\ id # 0 /\ pw # 0
  BY <1>3, Bounds
<1> HIDE DEF id, pw
<1>5. row \in Row /\ row.id = id /\ row.pw = pw /\ row.cut = 0 /\ row.role = role
  BY <1>4 DEF Row
<1> HIDE DEF row
<1>6. y \in Request /\ y.tell = pw /\ y.st = "answer" /\ y.mem = q.mem /\ y.out = q.out /\ y.ok = TRUE
  BY <1>1, <1>4 DEF ArrivedAs, Request
<1>7. RequestAt(y)
  BY <1>1, <1>6 DEF ArrivedAs, RequestAt, SavesRole
<1> HIDE DEF y
<1>8. req' = [req EXCEPT ![r] = y] /\ requests' = requests + 1 /\ UNCHANGED <<now, jar>>
  BY <1>2 DEF Take
<1>9. AccountsTypeOK'
  <2>1. requests' \in 0 .. MaxRequests
    BY <1>8, Bounds DEF Inv, AccountsTypeOK
  <2>2. granted' \in [Names -> Roles] /\ blurred' \subseteq Names
    BY <1>2 DEF Grant, Inv, AccountsTypeOK
  <2>3. users' \in [Names -> Row] /\ ids' \in Ids /\ passwords' \in 0 .. MaxPasswords
    BY <1>2, <1>4, <1>5 DEF Inv, AccountsTypeOK
  <2> QED
    BY <1>2, <1>6, <1>8, <2>1, <2>2, <2>3 DEF Inv, AccountsTypeOK
<1>10. users'[n] = row /\ \A m \in Names \ {n} : users'[m] = users[m]
  BY <1>2 DEF Inv, AccountsTypeOK
<1>11. \A m \in Names : users[m].id \in Nat /\ users[m].id <= ids /\ ids \in Nat
  <2> SUFFICES ASSUME NEW m \in Names PROVE users[m].id \in Nat /\ users[m].id <= ids /\ ids \in Nat
    OBVIOUS
  <2>1. users[m].id \in Nat /\ ids \in Nat
    BY <1>3, Bounds DEF Inv, AccountsTypeOK, Row
  <2>2. users[m].id # 0 => users[m].id <= ids
    BY DEF Inv, Rows, RowAt, Exists
  <2> QED
    BY <2>1, <2>2
<1>12. \A m \in Names : users[m].id # id
  <2>1. id \in Nat /\ id > ids
    BY <1>3, <1>4, Bounds
  <2>2. ASSUME NEW m \in Names PROVE users[m].id # id
    <3>1. users[m].id \in Nat /\ users[m].id <= ids /\ ids \in Nat
      BY <1>11
    <3> QED
      BY <2>1, <3>1
  <2> QED
    BY <2>2
<1>13. Rows'
  <2>1. ASSUME NEW m \in Names PROVE RowAt(m)'
    <3>1. CASE m = n
      <4>1. ended[id] = 0
        BY <1>3, <1>4 DEF Inv, Rows
      <4> QED
        BY <1>2, <1>5, <1>10, <1>3, <1>4, <3>1, <4>1 DEF RowAt, Exists
    <3>2. CASE m # n
      <4>1. RowAt(m)
        BY DEF Inv, Rows
      <4>2. users[m].id <= ids + 1
        BY <1>11
      <4> QED
        BY <1>2, <1>10, <3>2, <4>1, <4>2 DEF RowAt, Exists, id
    <3> QED
      BY <3>1, <3>2
  <2>2. OwnIds'
    <3> SUFFICES ASSUME NEW m \in Names, NEW l \in Names, users'[m].id # 0, users'[l].id = users'[m].id
                 PROVE  l = m
      BY DEF OwnIds, Exists
    <3> QED
      BY <1>5, <1>10, <1>12 DEF Inv, Rows, OwnIds, Exists
  <2>3. \A i \in 1 .. MaxIds : i > ids' => ended'[i] = 0
    BY <1>2, <1>11 DEF Inv, Rows, id
  <2>4. ASSUME NEW p \in Passkeys, passkeys'[p].id # 0 
        PROVE  \E m \in Names : users'[m].id = passkeys'[p].id
    <3>1. PICK m \in Names : users[m].id = passkeys[p].id
      BY <1>2, <2>4 DEF Inv, Rows, Known
    <3>2. m # n
      BY <1>2, <2>4, <3>1 DEF Exists
    <3> QED
      BY <1>2, <1>10, <3>1, <3>2
  <2> QED
    BY <2>1, <2>2, <2>3, <2>4 DEF Rows, Known
<1>14. Cookies'
  BY <1>8 DEF Inv, Cookies
<1>15. granted'[n] = role /\ \A m \in Names \ {n} : granted'[m] = granted[m] /\ (m \in blurred <=> m \in blurred')
  BY <1>2 DEF Grant, Inv, AccountsTypeOK
<1>16. n \notin blurred' => \A s \in Slots : ~(req[s].op = "profile" /\ req[s].st = "write" /\ req[s].by.name = n)
  BY <1>2 DEF Grant, SavingProfile
<1>17. n # Root
  BY <1>2 DEF Inv, OwnerRemains
<1>18. RequestsInv'
  <2>1. ASSUME NEW s \in Slots, s # r PROVE RequestAt(req[s])'
    <3>1. RequestAt(req[s]) /\ req'[s] = req[s] /\ req[s].by \in Caller
      BY <1>8, <2>1 DEF Inv, RequestsInv, AccountsTypeOK, Request
    <3>2. req[s].by.name \in Names
      BY <3>1 DEF Caller
    <3>3. SavesRole(req[s])'
      BY <1>15, <1>16, <3>1, <3>2 DEF RequestAt, SavesRole
    <3> QED
      BY <3>1, <3>3 DEF RequestAt
  <2>2. RequestAt(req[r])'
    <3>1. req'[r] = y
      BY <1>8 DEF Inv, AccountsTypeOK
    <3> QED
      BY <1>7, <3>1, <1>6 DEF RequestAt, SavesRole
  <2> QED
    BY <2>1, <2>2 DEF RequestsInv
<1>19. OwnerRemains'
  BY <1>10, <1>17, Bounds DEF Inv, OwnerRemains, Exists
<1>20. RolesAsGranted'
  BY <1>5, <1>10, <1>15 DEF Inv, RolesAsGranted, Exists
<1>21. PasswordsReachable'
  <2> SUFFICES ASSUME NEW m \in Names, Exists(m)'
               PROVE  users'[m].pw \in told' \cup lost' \cup {req'[s].tell : s \in Slots}
    BY DEF PasswordsReachable
  <2>1. req'[r] = y /\ \A s \in Slots \ {r} : req'[s] = req[s]
    BY <1>8 DEF Inv, AccountsTypeOK
  <2>2. CASE m = n
    BY <1>5, <1>6, <1>10, <2>1, <2>2
  <2>3. CASE m # n
    <3>1. users[m].pw # 0 /\ users[m].pw \in told \cup lost \cup {req[s].tell : s \in Slots}
      BY <1>10, <2>3 DEF Inv, Rows, RowAt, Exists, PasswordsReachable
    <3>2. req[r].tell = 0
      BY DEF Inv, RequestsInv, RequestAt
    <3>3. users[m].pw \in told' \cup lost' \cup {req'[s].tell : s \in Slots}
      BY <1>2, <2>1, <3>1, <3>2
    <3> QED
      BY <1>10, <2>3, <3>3
  <2> QED
    BY <2>2, <2>3
<1> QED
  BY <1>9, <1>13, <1>14, <1>18, <1>19, <1>20, <1>21 DEF Inv

-----------------------------------------------------------------------------
(* Handlers that leave the rows of users alone *)

LEMMA Handled ==
    ASSUME Inv, NEW r \in Slots
    PROVE  /\ req[r] \in Request /\ RequestAt(req[r]) /\ req[r].ok = TRUE
           /\ req[r].mem \in Cookie /\ Live(req[r].mem)
           /\ req[r].name \in Names /\ req[r].by \in Caller /\ req[r].tell \in 0 .. MaxPasswords
           /\ users \in [Names -> Row]
BY DEF Inv, AccountsTypeOK, RequestsInv, RequestAt, Request

LEMMA Onward ==
    ASSUME NEW q \in Request, RequestAt(q), NEW st \in Stages, st = "write" => q.op = "password",
           q.tell = 0 \/ st \in {"answer", "session"}
    PROVE  LET y == [q EXCEPT !.st = st]
           IN y \in Request /\ RequestAt(y) /\ y.tell = q.tell /\ y.st = st
<1> DEFINE y == [q EXCEPT !.st = st]
<1>1. /\ y \in Request /\ y.tell = q.tell /\ y.st = st /\ y.op = q.op /\ y.mem = q.mem
      /\ y.out = q.out /\ y.ok = q.ok
  BY DEF Request
<1>2. RequestAt(y)
  BY <1>1 DEF RequestAt, SavesRole
<1> QED
  BY <1>1, <1>2

LEMMA VerifyPasswordInv ==
    ASSUME Inv, NEW r \in Slots, VerifyPassword(r)
    PROVE  Inv'
<1> DEFINE q == req[r]
           row == users[q.name]
           y == [q EXCEPT !.seen = row, !.st = "gate"]
<1>1. /\ Step(r, y) \/ Step(r, Refuse(q))
      /\ UNCHANGED <<store, history>> /\ q.st = "verify"
  BY DEF VerifyPassword
<1>2. q.tell = 0 /\ q \in Request /\ RequestAt(q) /\ q.ok = TRUE /\ Live(q.mem) /\ row \in Row
  BY <1>1, Handled DEF RequestAt
<1> HIDE DEF row
<1>3. "gate" \in Stages
  BY DEF Stages
<1>4. /\ y \in Request /\ y.tell = 0 /\ y.st = "gate" /\ y.mem = q.mem
      /\ y.out = q.out /\ y.ok = q.ok
  BY <1>2, <1>3 DEF Request
<1>5. RequestAt(y)
  BY <1>2, <1>4 DEF RequestAt, SavesRole
<1>6. Refuse(q) \in Request /\ RequestAt(Refuse(q))
  BY <1>2, Refused
<1> QED
  BY <1>1, <1>2, <1>4, <1>5, <1>6, Goes

LEMMA PasskeyGateInv ==
    ASSUME Inv, NEW r \in Slots, PasskeyGate(r)
    PROVE  Inv'
<1> DEFINE q == req[r]
           on == IF q.seen.reset /\ ~IsOwner(q.seen.role) THEN "rotate" ELSE "session"
           y == [q EXCEPT !.st = on]
<1>1. /\ Step(r, y) \/ Step(r, Refuse(q))
      /\ UNCHANGED <<store, history>> /\ q.st = "gate"
  BY DEF PasskeyGate
<1>2. q.tell = 0 /\ q \in Request /\ RequestAt(q) /\ q.ok = TRUE /\ Live(q.mem)
  BY <1>1, Handled DEF RequestAt
<1>3. on \in Stages /\ on # "write"
  BY DEF Stages
<1>4. y \in Request /\ RequestAt(y)
  BY <1>2, <1>3, Onward
<1>5. Refuse(q) \in Request /\ RequestAt(Refuse(q))
  BY <1>2, Refused
<1> QED
  BY <1>1, <1>2, <1>4, <1>5, Goes

LEMMA OpenSessionInv ==
    ASSUME Inv, NEW r \in Slots, OpenSession(r)
    PROVE  Inv'
<1> DEFINE q == req[r]
           c == NewSession(q.seen.id)
           y == [q EXCEPT !.st = "answer", !.out = <<c>>]
           z == [q EXCEPT !.st = "answer"]
<1>1. q \in Request /\ RequestAt(q) /\ q.ok = TRUE /\ Live(q.mem) /\ q.tell \in 0 .. MaxPasswords
  BY Handled
<1>2. c \in Cookie /\ Live(c)
  BY <1>1, NewSessionType DEF Inv, Request, Row
<1>3. "answer" \in Stages
  BY DEF Stages
<1>4. y \in Request /\ RequestAt(y) /\ y.tell = q.tell
  <2> DEFINE out == <<c>>
             w == [q EXCEPT !.st = "answer", !.out = out]
  <2>1. out \in Seq(Cookie) /\ out[1] = c
    BY <1>2, OneCookie
  <2> HIDE DEF out, c
  <2>2. /\ w \in Request /\ w.tell = q.tell /\ w.st = "answer" /\ w.mem = q.mem
        /\ w.out = out /\ w.ok = q.ok
    BY <1>1, <1>3, <2>1 DEF Request
  <2>3. RequestAt(w)
    BY <1>1, <1>2, <2>1, <2>2 DEF RequestAt, SavesRole
  <2> QED
    BY <2>2, <2>3 DEF out
<1>5. z \in Request /\ RequestAt(z) /\ z.tell = q.tell
  BY <1>1, <1>3, Onward
<1>6. Refuse(q) \in Request /\ RequestAt(Refuse(q))
  BY <1>1, Refused
<1>7. UNCHANGED <<store, told, granted, blurred, ended>>
  BY DEF OpenSession
<1>8. CASE Step(r, y) /\ UNCHANGED lost
  BY <1>4, <1>7, <1>8, Goes DEF history
<1>9. CASE (Step(r, z) \/ Step(r, Refuse(q))) /\ lost' = lost \cup ({q.tell} \ {0})
  <2>1. lost' \subseteq 1 .. MaxPasswords /\ lost \subseteq lost' /\ (q.tell = 0 \/ q.tell \in lost')
    <3>1. q.tell # 0 => q.tell \in 1 .. MaxPasswords
      BY <1>1, Bounds
    <3> QED
      BY <1>9, <3>1 DEF Inv, AccountsTypeOK
  <2>2. PICK w \in {z, Refuse(q)} : Step(r, w)
    BY <1>9
  <2>3. w \in Request /\ RequestAt(w)
    BY <1>5, <1>6, <2>2
  <2> QED
    BY <1>7, <2>1, <2>2, <2>3, OnlyRequests
       DEF Step, Moves, store, Inv, AccountsTypeOK, Cookies, PasskeyRows, KeyRows
<1> QED
  BY <1>8, <1>9 DEF OpenSession

LEMMA SaveCredentialInv ==
    ASSUME Inv, NEW r \in Slots, SaveCredential(r)
    PROVE  Inv'
<1> DEFINE q == req[r]
           row == [id |-> q.by.id, count |-> counters[q.pk]]
           y == [q EXCEPT !.st = "answer"]
<1>1. /\ Step(r, y) /\ q.st = "save"
      /\ UNCHANGED <<users, ids, passwords, counters, keys, history>>
      /\ \/ passkeys' = passkeys
         \/ Known(q.by.id) /\ passkeys' = [passkeys EXCEPT ![q.pk] = row]
  BY DEF SaveCredential, Known
<1>2. q \in Request /\ RequestAt(q) /\ q.tell = 0 /\ q.by \in Caller /\ q.pk \in Passkeys
  BY <1>1, Handled DEF RequestAt, Request
<1>3. "answer" \in Stages
  BY DEF Stages
<1>4. y \in Request /\ RequestAt(y)
  BY <1>2, <1>3, Onward
<1>5. /\ passkeys' \in PasskeyRows
      /\ \A k \in Passkeys : passkeys'[k].id \notin {0, passkeys[k].id} => Known(passkeys'[k].id)
  <2>1. row \in [id : Ids, count : Nat] /\ row.id = q.by.id
    BY <1>2 DEF Inv, AccountsTypeOK, Caller
  <2> HIDE DEF row, q
  <2> QED
    BY <1>1, <1>2, <2>1 DEF Inv, AccountsTypeOK, PasskeyRows
<1> QED
  BY <1>1, <1>2, <1>4, <1>5, OnlyRequests
     DEF Step, Moves, history, Inv, AccountsTypeOK, Cookies, KeyRows

LEMMA ValidateAssertionInv ==
    ASSUME Inv, NEW r \in Slots, ValidateAssertion(r)
    PROVE  Inv'
<1> DEFINE q == req[r]
           cred == passkeys[q.pk]
           i == IF cred.count < q.n THEN q.n ELSE cred.count
           y == [q EXCEPT !.st = "answer"]
           z == [q EXCEPT !.st = "count", !.n = i]
<1>1. /\ q.st = "assert" /\ UNCHANGED <<store, history>>
      /\ Step(r, y) \/ Step(r, z)
  BY DEF ValidateAssertion, PasskeyOf
<1>2. q \in Request /\ RequestAt(q) /\ q.tell = 0 /\ q.pk \in Passkeys /\ q.n \in Nat
  BY <1>1, Handled DEF RequestAt, Request
<1>3. i \in Nat /\ "answer" \in Stages /\ "count" \in Stages
  BY <1>2 DEF Inv, AccountsTypeOK, Stages
<1>4. y \in Request /\ RequestAt(y)
  BY <1>2, <1>3, Onward
<1> HIDE DEF i
<1>5. /\ z \in Request /\ z.tell = 0 /\ z.st = "count" /\ z.mem = q.mem
      /\ z.out = q.out /\ z.ok = q.ok
  BY <1>2, <1>3 DEF Request
<1>6. RequestAt(z)
  BY <1>2, <1>5 DEF RequestAt, SavesRole
<1> QED
  BY <1>1, <1>2, <1>4, <1>5, <1>6, Goes

LEMMA PersistSignCountInv ==
    ASSUME Inv, NEW r \in Slots, PersistSignCount(r)
    PROVE  Inv'
<1> DEFINE q == req[r]
           cred == passkeys[q.pk]
           n == CHOOSE n \in Names : users[n].id = cred.id
           y == [q EXCEPT !.st = "answer"]
           z == [q EXCEPT !.st = "session", !.name = n, !.seen = users[n]]
           more == [passkeys EXCEPT ![q.pk].count = q.n]
<1>1. /\ q.st = "count" /\ UNCHANGED <<users, ids, passwords, counters, keys, history>>
      /\ \/ Step(r, y) /\ passkeys' = passkeys
         \/ cred.id # 0 /\ passkeys' = more /\ Step(r, z)
  BY DEF PersistSignCount, PasskeyOf
<1>2. q \in Request /\ RequestAt(q) /\ q.tell = 0 /\ q.pk \in Passkeys /\ q.n \in Nat
  BY <1>1, Handled DEF RequestAt, Request
<1>3. "answer" \in Stages /\ "session" \in Stages
  BY DEF Stages
<1>4. y \in Request /\ RequestAt(y)
  BY <1>2, <1>3, Onward
<1>5. more \in PasskeyRows /\ \A k \in Passkeys : more[k].id = passkeys[k].id
  BY <1>2 DEF Inv, AccountsTypeOK, PasskeyRows
<1> HIDE DEF more
<1>6. CASE Step(r, y) /\ passkeys' = passkeys
  BY <1>1, <1>2, <1>4, <1>6, OnlyRequests
     DEF Step, Moves, history, Inv, AccountsTypeOK, Cookies, PasskeyRows, KeyRows
<1>7. CASE cred.id # 0 /\ passkeys' = more /\ Step(r, z)
  <2>1. \E m \in Names : users[m].id = cred.id
    BY <1>2, <1>7 DEF Inv, Rows, Known
  <2>2. n \in Names
    BY <2>1
  <2> HIDE DEF n
  <2>3. users[n] \in Row
    BY <2>2 DEF Inv, AccountsTypeOK
  <2>4. /\ z \in Request /\ z.tell = 0 /\ z.st = "session" /\ z.mem = q.mem
        /\ z.out = q.out /\ z.ok = q.ok
    BY <1>2, <1>3, <2>2, <2>3 DEF Request
  <2>5. RequestAt(z)
    BY <1>2, <2>4 DEF RequestAt, SavesRole
  <2> HIDE DEF z, q
  <2> QED
    BY <1>1, <1>2, <1>5, <1>7, <2>4, <2>5, OnlyRequests
       DEF Step, Moves, history, Inv, AccountsTypeOK, Cookies, KeyRows, q
<1> QED
  BY <1>1, <1>6, <1>7

LEMMA VerifyOldInv ==
    ASSUME Inv, NEW r \in Slots, VerifyOld(r)
    PROVE  Inv'
<1> DEFINE q == req[r]
           st == IF Exists(q.name) /\ users[q.name].pw = q.pw THEN "write" ELSE "answer"
           y == [q EXCEPT !.st = st]
<1>1. /\ q.op = "password" /\ q.st = "verify" /\ UNCHANGED <<store, history>>
      /\ Step(r, y)
  BY DEF VerifyOld
<1>2. q \in Request /\ RequestAt(q) /\ q.tell = 0
  BY <1>1, Handled DEF RequestAt
<1>3. st \in Stages
  BY DEF Stages
<1> HIDE DEF st
<1>4. y \in Request /\ RequestAt(y)
  BY <1>1, <1>2, <1>3, Onward
<1> QED
  BY <1>1, <1>2, <1>4, Goes

-----------------------------------------------------------------------------
(* Handlers that write the row of a user *)

(* What becomes of the grants when row n gets a role, and of the kicks when it  *)
(* becomes this one.                                                           *)
Granting(n, role) ==
    /\ granted' \in [Names -> Roles] /\ blurred' \subseteq Names
    /\ \A m \in Names \ {n} : granted'[m] = granted[m] /\ (m \in blurred <=> m \in blurred')
    /\ n \notin blurred' =>
          /\ role = granted'[n]
          /\ \A s \in Slots : req[s].op = "profile" /\ req[s].st = "write" /\ req[s].by.name = n
                               => req[s].by.role = granted'[n]
Ending(row) ==
    /\ ended' \in [1 .. MaxIds -> Nat] /\ ended'[row.id] <= row.cut
    /\ \A i \in 1 .. MaxIds : i # row.id => ended'[i] = ended[i]

(* One row changes: not its id, its password only to one that is about to be   *)
(* shown, and its role only to the one it was given.                           *)
LEMMA RowWritten ==
    ASSUME Inv, NEW r \in Slots, NEW q \in Request, Moves(r, q), RequestAt(q), q.st # "write",
           NEW n \in Names, Exists(n), NEW row \in Row, users' = [users EXCEPT ![n] = row],
           row.id = users[n].id, row.pw # 0, row.pw = users[n].pw \/ row.pw = q.tell,
           n = Root => row.role = "owner",
           Ending(row), passwords' \in 0 .. MaxPasswords,
           Granting(n, row.role),
           UNCHANGED <<now, ids, passkeys, counters, keys, jar, requests, told, lost>>,
           req[r].tell = 0 \/ req[r].tell = q.tell
    PROVE  Inv'
<1>1. req'[r] = q /\ \A s \in Slots \ {r} : req'[s] = req[s]
  BY DEF Moves, Inv, AccountsTypeOK
<1>2. users'[n] = row /\ \A m \in Names \ {n} : users'[m] = users[m]
  BY DEF Inv, AccountsTypeOK
<1>3. AccountsTypeOK'
  BY DEF Inv, AccountsTypeOK, Moves, Granting, Ending
<1>4. \A m \in Names : users'[m].id = users[m].id
  BY <1>2
<1>5. Rows'
  <2>1. ASSUME NEW m \in Names PROVE RowAt(m)'
    <3>1. CASE m = n
      BY <1>2, <3>1 DEF Inv, Rows, RowAt, Exists, Ending
    <3>2. CASE m # n
      <4>1. SUFFICES ASSUME users[m].id # 0 PROVE RowAt(m)'
        BY <1>4 DEF RowAt, Exists
      <4>2. users[m].id \in 1 .. MaxIds /\ users[m].id # row.id
        <5>1. users[m].id \in Ids
          BY DEF Inv, AccountsTypeOK, Row
        <5>2. users[m].id \in 1 .. MaxIds
          BY <4>1, <5>1, Bounds
        <5>3. users[m].id # users[n].id
          BY <3>2, <4>1 DEF Inv, Rows, OwnIds, Exists
        <5> QED
          BY <5>2, <5>3
      <4>3. RowAt(m)
        BY DEF Inv, Rows
      <4> QED
        BY <1>2, <3>2, <4>2, <4>3 DEF RowAt, Exists, Ending
    <3> QED
      BY <3>1, <3>2
  <2>2. OwnIds'
    BY <1>4 DEF Inv, Rows, OwnIds, Exists
  <2>3. \A i \in 1 .. MaxIds : i > ids' => ended'[i] = 0
    <3> SUFFICES ASSUME NEW i \in 1 .. MaxIds, i > ids PROVE ended'[i] = 0
      OBVIOUS
    <3>1. users[n].id <= ids /\ users[n].id \in Ids /\ ids \in Ids
      BY DEF Inv, Rows, RowAt, Exists, AccountsTypeOK, Row
    <3>2. i # row.id
      BY <3>1, Bounds
    <3> QED
      BY <3>2 DEF Inv, Rows, Ending
  <2>4. ASSUME NEW k \in Passkeys, passkeys'[k].id # 0
        PROVE  \E m \in Names : users'[m].id = passkeys'[k].id
    <3>1. PICK m \in Names : users[m].id = passkeys[k].id
      BY <2>4 DEF Inv, Rows, Known
    <3> QED
      BY <1>4, <3>1
  <2> QED
    BY <2>1, <2>2, <2>3, <2>4 DEF Rows, Known
<1>6. Cookies'
  BY DEF Inv, Cookies
<1>7. RequestsInv'
  <2>1. ASSUME NEW s \in Slots, s # r PROVE RequestAt(req[s])'
    <3>1. RequestAt(req[s]) /\ req'[s] = req[s] /\ req[s].by \in Caller
      BY <1>1, <2>1 DEF Inv, RequestsInv, AccountsTypeOK, Request
    <3>2. req[s].by.name \in Names
      BY <3>1 DEF Caller
    <3>3. SavesRole(req[s])'
      <4>1. CASE req[s].by.name = n
        BY <3>1, <4>1 DEF RequestAt, SavesRole, Granting
      <4>2. CASE req[s].by.name # n
        BY <3>1, <3>2, <4>2 DEF RequestAt, SavesRole, Granting
      <4> QED
        BY <4>1, <4>2
    <3> QED
      BY <3>1, <3>3 DEF RequestAt
  <2>2. RequestAt(req[r])'
    BY <1>1 DEF RequestAt, SavesRole
  <2> QED
    BY <2>1, <2>2 DEF RequestsInv
<1>8. OwnerRemains'
  BY <1>2, <1>4, Bounds DEF Inv, OwnerRemains, Exists
<1>9. RolesAsGranted'
  BY <1>2 DEF Inv, RolesAsGranted, Exists, Granting
<1>10. PasswordsReachable'
  <2> SUFFICES ASSUME NEW m \in Names, Exists(m)'
               PROVE  users'[m].pw \in told' \cup lost' \cup {req'[s].tell : s \in Slots}
    BY DEF PasswordsReachable
  <2>1. CASE users'[m].pw = q.tell
    BY <1>1, <2>1
  <2>2. CASE users'[m].pw = users[m].pw
    <3>1. users[m].pw # 0 /\ users[m].pw \in told \cup lost \cup {req[s].tell : s \in Slots}
      BY <1>4 DEF Inv, Rows, RowAt, Exists, PasswordsReachable
    <3>2. ASSUME NEW s \in Slots, users[m].pw = req[s].tell
          PROVE  users[m].pw \in {req'[x].tell : x \in Slots}
      <4>1. CASE s = r
        BY <1>1, <3>1, <3>2, <4>1
      <4>2. CASE s # r
        BY <1>1, <3>2, <4>2
      <4> QED
        BY <4>1, <4>2
    <3> QED
      BY <2>2, <3>1, <3>2
  <2> QED
    BY <1>2, <2>1, <2>2
<1> QED
  BY <1>3, <1>5, <1>6, <1>7, <1>8, <1>9, <1>10 DEF Inv

(* The role of the row that changes stays. *)
LEMMA RoleKept ==
    ASSUME Inv, NEW r \in Slots, NEW q \in Request, Moves(r, q), RequestAt(q), q.st # "write",
           NEW n \in Names, Exists(n), NEW row \in Row, users' = [users EXCEPT ![n] = row],
           row.id = users[n].id, row.role = users[n].role,
           row.pw # 0, row.pw = users[n].pw \/ row.pw = q.tell,
           Ending(row), passwords' \in 0 .. MaxPasswords,
           UNCHANGED <<now, ids, passkeys, counters, keys, jar, requests, told, lost, granted, blurred>>,
           req[r].tell = 0 \/ req[r].tell = q.tell
    PROVE  Inv'
<1>1. n = Root => row.role = "owner"
  BY DEF Inv, OwnerRemains
<1>2. Granting(n, row.role)
  BY DEF Granting, Inv, AccountsTypeOK, RolesAsGranted, RequestsInv, RequestAt, SavesRole
<1>4. UNCHANGED <<now, ids, passkeys, counters, keys, jar, requests, told, lost>>
  OBVIOUS
<1> QED
  BY <1>1, <1>2, <1>4, RowWritten

LEMMA RotateForLoginInv ==
    ASSUME Inv, NEW r \in Slots, RotateForLogin(r)
    PROVE  Inv'
<1> DEFINE q == req[r]
           n == q.name
           pw == passwords + 1
           row == [users[n] EXCEPT !.pw = pw, !.reset = FALSE]
           y == [q EXCEPT !.st = "session", !.tell = pw]
<1>1. q.st = "rotate" /\ UNCHANGED <<limiter, ids, passkeys, counters, keys, history>>
  BY DEF RotateForLogin
<1>2. /\ q \in Request /\ RequestAt(q) /\ q.ok = TRUE /\ Live(q.mem) /\ q.tell = 0 /\ n \in Names
      /\ users \in [Names -> Row]
  BY <1>1, Handled DEF RequestAt
<1>3. CASE Step(r, Refuse(q)) /\ UNCHANGED <<users, passwords>>
  <2>1. Refuse(q) \in Request /\ RequestAt(Refuse(q))
    BY <1>2, Refused
  <2> QED
    BY <1>1, <1>2, <1>3, <2>1, Goes DEF store
<1>4. ASSUME passwords < MaxPasswords, passwords' = pw, Step(r, y),
             users' = IF Exists(n) THEN [users EXCEPT ![n] = row] ELSE users
      PROVE  Inv'
  <2>1. pw \in 0 .. MaxPasswords /\ pw # 0
    BY <1>4, Bounds DEF Inv, AccountsTypeOK
  <2> HIDE DEF pw
  <2>2. "session" \in Stages
    BY DEF Stages
  <2>3. /\ y \in Request /\ y.tell = pw /\ y.st = "session" /\ y.mem = q.mem
        /\ y.out = q.out /\ y.ok = q.ok
    BY <1>2, <2>1, <2>2 DEF Request
  <2>4. RequestAt(y)
    BY <1>2, <2>3 DEF RequestAt, SavesRole
  <2>5. CASE ~Exists(n)
    BY <1>1, <1>2, <1>4, <2>1, <2>3, <2>4, <2>5, OnlyRequests
       DEF Step, Moves, history, Inv, AccountsTypeOK, Cookies, PasskeyRows, KeyRows
  <2>6. CASE Exists(n)
    <3>1. /\ row \in Row /\ row.id = users[n].id /\ row.role = users[n].role
          /\ row.cut = users[n].cut /\ row.pw = pw
      BY <1>2, <2>1 DEF Row
    <3> HIDE DEF row, y, n
    <3>2. ended' = ended /\ ended \in [1 .. MaxIds -> Nat] /\ ended[row.id] <= row.cut
      BY <1>1, <1>2, <2>6, <3>1 DEF Inv, Rows, RowAt, history, AccountsTypeOK
    <3>3. Ending(row)
      BY <3>2 DEF Ending
    <3>4. Moves(r, y) /\ UNCHANGED <<now, ids, passkeys, counters, keys, jar, requests, told, lost, granted, blurred>>
      BY <1>1, <1>4 DEF Step, Moves, history
    <3>5. users' = [users EXCEPT ![n] = row] /\ row.pw = y.tell /\ row.pw # 0
      BY <1>4, <2>1, <2>3, <2>6, <3>1
    <3>6. y.st # "write" /\ passwords' \in 0 .. MaxPasswords
      BY <1>4, <2>1, <2>3
    <3> QED
      BY <1>2, <2>3, <2>4, <2>6, <3>1, <3>3, <3>4, <3>5, <3>6, RoleKept
  <2> QED
    BY <2>5, <2>6
<1> QED
  BY <1>3, <1>4 DEF RotateForLogin

LEMMA WriteFlagInv ==
    ASSUME Inv, NEW r \in Slots, WriteFlag(r)
    PROVE  Inv'
<1> DEFINE q == req[r]
           n == q.name
           row == [users[n] EXCEPT !.reset = TRUE]
           y == [q EXCEPT !.st = "bump"]
<1>1. /\ q.st = "flag" /\ Step(r, y)
      /\ users' = IF Exists(n) THEN [users EXCEPT ![n] = row] ELSE users
      /\ UNCHANGED <<limiter, ids, passwords, passkeys, counters, keys, history>>
  BY DEF WriteFlag, Update
<1>2. /\ q \in Request /\ RequestAt(q) /\ q.tell = 0 /\ n \in Names /\ users \in [Names -> Row]
  BY <1>1, Handled DEF RequestAt
<1>3. "bump" \in Stages
  BY DEF Stages
<1>4. y \in Request /\ RequestAt(y) /\ y.tell = q.tell /\ y.st # "write"
  BY <1>2, <1>3, Onward
<1>5. CASE ~Exists(n)
  BY <1>1, <1>2, <1>4, <1>5, Goes DEF store
<1>6. CASE Exists(n)
  <2>1. /\ row \in Row /\ row.id = users[n].id /\ row.role = users[n].role
        /\ row.cut = users[n].cut /\ row.pw = users[n].pw
    BY <1>2 DEF Row
  <2> HIDE DEF row, y, n
  <2>2. row.pw # 0 /\ ended[row.id] <= row.cut
    BY <1>2, <1>6, <2>1 DEF Inv, Rows, RowAt
  <2>3. ended' = ended /\ ended \in [1 .. MaxIds -> Nat] /\ passwords' \in 0 .. MaxPasswords
    BY <1>1 DEF Inv, history, AccountsTypeOK
  <2>4. Ending(row)
    BY <2>2, <2>3 DEF Ending
  <2>5. Moves(r, y) /\ UNCHANGED <<now, ids, passkeys, counters, keys, jar, requests, told, lost, granted, blurred>>
    BY <1>1 DEF Step, Moves, history
  <2>6. users' = [users EXCEPT ![n] = row]
    BY <1>1, <1>6
  <2> QED
    BY <1>2, <1>4, <1>6, <2>1, <2>2, <2>3, <2>4, <2>5, <2>6, RoleKept
<1> QED
  BY <1>5, <1>6

(* The row is marked and the kick completed in one statement. *)
LEMMA KickedRow ==
    ASSUME Inv, NEW n \in Names, Exists(n), Kicked(n), NEW row \in Row,
           row.id = users[n].id, row.cut = now
    PROVE  Ending(row)
<1>1. ended' = [ended EXCEPT ![row.id] = now] /\ ended \in [1 .. MaxIds -> Nat] /\ now \in Nat
  BY Bounds DEF Kicked, Inv, AccountsTypeOK, Seconds
<1>2. row.id \in 1 .. MaxIds
  BY Bounds DEF Row, Exists
<1> QED
  BY <1>1, <1>2 DEF Ending

LEMMA WriteKickInv ==
    ASSUME Inv, NEW r \in Slots, WriteKick(r)
    PROVE  Inv'
<1> DEFINE q == req[r]
           n == q.name
           row == [users[n] EXCEPT !.cut = now]
           y == [q EXCEPT !.st = "answer"]
<1>1. /\ q.st \in {"bump", "write"} /\ Step(r, y)
      /\ users' = IF Exists(n) THEN [users EXCEPT ![n] = row] ELSE users
      /\ Kicked(n)
      /\ UNCHANGED <<limiter, ids, passwords, passkeys, counters, keys, told, lost, granted, blurred>>
  BY DEF WriteKick, Update, Bumped
<1>2. /\ q \in Request /\ RequestAt(q) /\ q.tell = 0 /\ n \in Names /\ users \in [Names -> Row]
  BY <1>1, Handled DEF RequestAt
<1>3. "answer" \in Stages
  BY DEF Stages
<1>4. y \in Request /\ RequestAt(y) /\ y.tell = q.tell /\ y.st # "write"
  BY <1>2, <1>3, Onward
<1>5. CASE ~Exists(n)
  BY <1>1, <1>2, <1>4, <1>5, Goes DEF store, history, Kicked
<1>6. CASE Exists(n)
  <2>1. now \in Nat
    BY Bounds DEF Inv, AccountsTypeOK, Seconds
  <2>2. /\ row \in Row /\ row.id = users[n].id /\ row.role = users[n].role
        /\ row.cut = now /\ row.pw = users[n].pw
    BY <1>2, <2>1 DEF Row
  <2> HIDE DEF row, y, n
  <2>3. row.pw # 0 /\ passwords' \in 0 .. MaxPasswords
    BY <1>1, <1>2, <1>6, <2>2 DEF Inv, Rows, RowAt, AccountsTypeOK
  <2>4. Ending(row)
    BY <1>1, <1>2, <1>6, <2>2, KickedRow DEF Ending
  <2>5. Moves(r, y) /\ UNCHANGED <<now, ids, passkeys, counters, keys, jar, requests, told, lost, granted, blurred>>
    BY <1>1 DEF Step, Moves
  <2>6. users' = [users EXCEPT ![n] = row]
    BY <1>1, <1>6
  <2> QED
    BY <1>2, <1>4, <1>6, <2>2, <2>3, <2>4, <2>5, <2>6, RoleKept
<1> QED
  BY <1>5, <1>6

LEMMA WriteRotateInv ==
    ASSUME Inv, NEW r \in Slots, WriteRotate(r)
    PROVE  Inv'
<1> DEFINE q == req[r]
           n == q.name
           pw == passwords + 1
           reset == users[n].reset /\ q.op = "password"
           row == [users[n] EXCEPT !.pw = pw, !.reset = reset, !.cut = now]
           y == [q EXCEPT !.st = "answer", !.tell = pw]
<1>1. /\ q.st = "write" /\ passwords < MaxPasswords /\ passwords' = pw /\ Step(r, y)
      /\ users' = IF Exists(n) THEN [users EXCEPT ![n] = Bumped([users[n] EXCEPT !.pw = pw, !.reset = reset])]
                               ELSE users
      /\ Kicked(n)
      /\ UNCHANGED <<limiter, ids, passkeys, counters, keys, told, lost, granted, blurred>>
  BY DEF WriteRotate, Update
<1>2. /\ q \in Request /\ RequestAt(q) /\ q.ok = TRUE /\ q.tell = 0 /\ n \in Names
      /\ users \in [Names -> Row]
  BY <1>1, Handled DEF RequestAt
<1>3. pw \in 0 .. MaxPasswords /\ pw # 0
  BY <1>1, Bounds DEF Inv, AccountsTypeOK
<1> HIDE DEF pw
<1>4. "answer" \in Stages
  BY DEF Stages
<1>5. /\ y \in Request /\ y.tell = pw /\ y.st = "answer" /\ y.mem = q.mem
      /\ y.out = q.out /\ y.ok = q.ok
  BY <1>2, <1>3, <1>4 DEF Request
<1>6. RequestAt(y)
  BY <1>2, <1>5 DEF RequestAt, SavesRole
<1>7. CASE ~Exists(n)
  <2>1. UNCHANGED <<users, history>>
    BY <1>1, <1>7 DEF history, Kicked
  <2> QED
    BY <1>1, <1>2, <1>3, <1>5, <1>6, <2>1, OnlyRequests
       DEF Step, Moves, history, Inv, AccountsTypeOK, Cookies, PasskeyRows, KeyRows
<1>8. CASE Exists(n)
  <2>1. now \in Nat /\ users[n] \in Row /\ reset \in BOOLEAN
    BY <1>2, Bounds DEF Inv, AccountsTypeOK, Seconds, Row
  <2> HIDE DEF reset
  <2>2. /\ row \in Row /\ row.id = users[n].id /\ row.role = users[n].role
        /\ row.cut = now /\ row.pw = pw
    BY <1>3, <2>1 DEF Row
  <2>3. Bumped([users[n] EXCEPT !.pw = pw, !.reset = reset]) = row
    BY <2>1 DEF Bumped, Row
  <2> HIDE DEF row, y, n
  <2>4. Ending(row)
    BY <1>1, <1>2, <1>8, <2>2, KickedRow DEF Ending
  <2>5. Moves(r, y) /\ UNCHANGED <<now, ids, passkeys, counters, keys, jar, requests, told, lost, granted, blurred>>
    BY <1>1 DEF Step, Moves
  <2>6. users' = [users EXCEPT ![n] = row]
    BY <1>1, <1>8, <2>3
  <2>7. row.pw = y.tell /\ row.pw # 0 /\ y.st # "write" /\ passwords' \in 0 .. MaxPasswords
    BY <1>1, <1>3, <1>5, <2>2
  <2> QED
    BY <1>2, <1>5, <1>6, <1>8, <2>2, <2>4, <2>5, <2>6, <2>7, RoleKept
<1> QED
  BY <1>7, <1>8

LEMMA WriteRoleInv ==
    ASSUME Inv, NEW r \in Slots, WriteRole(r)
    PROVE  Inv'
<1> DEFINE q == req[r]
           n == q.name
           row == [users[n] EXCEPT !.role = q.role]
           y == [q EXCEPT !.st = "answer"]
<1>1. /\ q.op = "role" /\ q.st = "write" /\ Step(r, y)
      /\ users' = IF Exists(n) THEN [users EXCEPT ![n] = row] ELSE users
      /\ IF Exists(n) THEN Grant(n, q.role) ELSE UNCHANGED <<granted, blurred>>
      /\ UNCHANGED <<limiter, ids, passwords, passkeys, counters, keys, told, lost, ended>>
  BY DEF WriteRole, Update
<1>2. /\ q \in Request /\ RequestAt(q) /\ q.tell = 0 /\ n \in Names /\ n # Root /\ q.role \in Roles
      /\ users \in [Names -> Row]
  BY <1>1, Handled DEF RequestAt, Request
<1>3. "answer" \in Stages
  BY DEF Stages
<1>4. y \in Request /\ RequestAt(y) /\ y.tell = q.tell /\ y.st # "write"
  BY <1>2, <1>3, Onward
<1>5. CASE ~Exists(n)
  BY <1>1, <1>2, <1>4, <1>5, Goes DEF store, history
<1>6. CASE Exists(n)
  <2>1. /\ row \in Row /\ row.id = users[n].id /\ row.role = q.role
        /\ row.cut = users[n].cut /\ row.pw = users[n].pw
    BY <1>2 DEF Row
  <2> HIDE DEF row, y, n
  <2>2. row.pw # 0 /\ ended[row.id] <= row.cut
    BY <1>2, <1>6, <2>1 DEF Inv, Rows, RowAt
  <2>3. ended' = ended /\ ended \in [1 .. MaxIds -> Nat] /\ passwords' \in 0 .. MaxPasswords
    BY <1>1 DEF Inv, AccountsTypeOK
  <2>4. Ending(row)
    BY <2>2, <2>3 DEF Ending
  <2>5. Moves(r, y) /\ UNCHANGED <<now, ids, passkeys, counters, keys, jar, requests, told, lost>>
    BY <1>1 DEF Step, Moves
  <2>6. users' = [users EXCEPT ![n] = row]
    BY <1>1, <1>6
  <2>7. /\ granted' = [granted EXCEPT ![n] = q.role]
        /\ blurred' = IF SavingProfile(n) THEN blurred \cup {n} ELSE blurred \ {n}
    BY <1>1, <1>6 DEF Grant
  <2>8. granted \in [Names -> Roles] /\ blurred \subseteq Names
    BY DEF Inv, AccountsTypeOK
  <2>9. /\ granted' \in [Names -> Roles] /\ blurred' \subseteq Names /\ granted'[n] = q.role
        /\ \A m \in Names \ {n} : granted'[m] = granted[m] /\ (m \in blurred <=> m \in blurred')
    BY <1>2, <2>7, <2>8
  <2>10. Granting(n, row.role)
    BY <2>1, <2>7, <2>9 DEF SavingProfile, Granting
  <2> QED
    BY <1>2, <1>4, <1>6, <2>1, <2>2, <2>3, <2>4, <2>5, <2>6, <2>10, RowWritten
<1> QED
  BY <1>5, <1>6

LEMMA WriteProfileInv ==
    ASSUME Inv, NEW r \in Slots, WriteProfile(r)
    PROVE  Inv'
<1> DEFINE q == req[r]
<1>0. q.by.name \in Names
  BY Handled DEF Caller
<1>8. PICK n \in Names : n = q.by.name
  BY <1>0
<1> DEFINE row == [users[n] EXCEPT !.role = q.by.role]
           y == [q EXCEPT !.st = "answer"]
<1>1. /\ q.op = "profile" /\ q.st = "write" /\ Step(r, y)
      /\ users' = IF Exists(n) THEN [users EXCEPT ![n] = row] ELSE users
      /\ UNCHANGED <<limiter, ids, passwords, passkeys, counters, keys, history>>
  BY <1>8 DEF WriteProfile, Update
<1>2. /\ q \in Request /\ RequestAt(q) /\ q.tell = 0 /\ q.by \in Caller /\ users \in [Names -> Row]
  BY <1>1, Handled DEF RequestAt
<1>3. /\ n \in Names /\ q.by.role \in Roles /\ (n = Root => q.by.role = "owner")
      /\ (n \notin blurred => q.by.role = granted[n])
  BY <1>1, <1>2, <1>8 DEF RequestAt, SavesRole, Caller
<1>4. "answer" \in Stages
  BY DEF Stages
<1>5. y \in Request /\ RequestAt(y) /\ y.tell = q.tell /\ y.st # "write"
  BY <1>2, <1>4, Onward
<1>6. CASE ~Exists(n)
  BY <1>1, <1>2, <1>5, <1>6, Goes DEF store
<1>7. CASE Exists(n)
  <2>1. /\ row \in Row /\ row.id = users[n].id /\ row.role = q.by.role
        /\ row.cut = users[n].cut /\ row.pw = users[n].pw
    BY <1>2, <1>3 DEF Row
  <2> HIDE DEF row, y
  <2>2. row.pw # 0 /\ ended[row.id] <= row.cut
    BY <1>3, <1>7, <2>1 DEF Inv, Rows, RowAt
  <2>3. ended' = ended /\ ended \in [1 .. MaxIds -> Nat] /\ passwords' \in 0 .. MaxPasswords
    BY <1>1 DEF Inv, AccountsTypeOK, history
  <2>4. Ending(row)
    BY <2>2, <2>3 DEF Ending
  <2>5. Moves(r, y) /\ UNCHANGED <<now, ids, passkeys, counters, keys, jar, requests, told, lost>>
    BY <1>1 DEF Step, Moves, history
  <2>6. users' = [users EXCEPT ![n] = row]
    BY <1>1, <1>7
  <2>7. granted' = granted /\ blurred' = blurred
    BY <1>1 DEF history
  <2>8. granted \in [Names -> Roles] /\ blurred \subseteq Names
    BY DEF Inv, AccountsTypeOK
  <2>9. /\ granted' \in [Names -> Roles] /\ blurred' \subseteq Names
        /\ \A m \in Names \ {n} : granted'[m] = granted[m] /\ (m \in blurred <=> m \in blurred')
    BY <2>7, <2>8
  <2>10. n \notin blurred =>
           \A s \in Slots : req[s].op = "profile" /\ req[s].st = "write" /\ req[s].by.name = n
                            => req[s].by.role = granted[n]
    BY DEF Inv, RequestsInv, RequestAt, SavesRole
  <2>11. Granting(n, row.role)
    BY <1>3, <2>1, <2>7, <2>9, <2>10 DEF Granting
  <2>12. n \in Names /\ (n = Root => row.role = "owner")
    BY <1>3, <2>1
  <2> QED
    BY <1>2, <1>5, <1>7, <2>1, <2>2, <2>3, <2>4, <2>5, <2>6, <2>11, <2>12, RowWritten
<1> QED
  BY <1>6, <1>7

(* The passkeys and keys of the row go with it. *)
LEMMA WriteDeleteInv ==
    ASSUME Inv, NEW r \in Slots, WriteDelete(r)
    PROVE  Inv'
<1> DEFINE q == req[r]
           n == q.name
           id == users[n].id
           y == [q EXCEPT !.st = "answer"]
<1>1. /\ q.op = "delete" /\ q.st = "write" /\ Step(r, y)
      /\ users' = [users EXCEPT ![n] = NoUser]
      /\ passkeys' = [k \in Passkeys |-> IF passkeys[k].id = id THEN NoPasskey ELSE passkeys[k]]
      /\ keys' = [i \in DOMAIN keys |-> IF keys[i].id = id THEN NoKey ELSE keys[i]]
      /\ UNCHANGED <<limiter, ids, passwords, counters, history>>
  BY DEF WriteDelete
<1>2. /\ q \in Request /\ RequestAt(q) /\ q.tell = 0 /\ n \in Names /\ n # Root
      /\ users \in [Names -> Row]
  BY <1>1, Handled DEF RequestAt
<1>3. "answer" \in Stages
  BY DEF Stages
<1>4. y \in Request /\ RequestAt(y) /\ y.tell = 0 /\ y.st # "write"
  BY <1>2, <1>3, Onward
<1> HIDE DEF y, n, q
<1>5. users'[n] = NoUser /\ \A m \in Names \ {n} : users'[m] = users[m]
  BY <1>1, <1>2
<1>6. keys' \in Seq([id : Ids, until : Nat])
  <2>1. keys \in Seq([id : Ids, until : Nat])
    BY DEF Inv, AccountsTypeOK
  <2>2. /\ Len(keys) \in Nat /\ DOMAIN keys = 1 .. Len(keys)
        /\ \A i \in 1 .. Len(keys) : keys[i] \in [id : Ids, until : Nat]
    BY <2>1, LenProperties, ElementOfSeq
  <2>3. keys' = [i \in 1 .. Len(keys) |-> IF keys[i].id = id THEN NoKey ELSE keys[i]]
    BY <1>1, <2>2
  <2> QED
    BY <2>2, <2>3, Constants, SeqDef
<1>7. AccountsTypeOK'
  <2>1. passkeys' \in [Passkeys -> [id : Ids, count : Nat]]
    BY <1>1, Constants DEF Inv, AccountsTypeOK
  <2>2. users' \in [Names -> Row]
    BY <1>1, <1>2, Constants
  <2> QED
    BY <1>1, <1>4, <1>6, <2>1, <2>2 DEF Inv, AccountsTypeOK, Step, history
<1>8. Rows'
  <2>1. \A m \in Names : RowAt(m)'
    BY <1>1, <1>5, Constants DEF Inv, Rows, RowAt, Exists, history
  <2>2. OwnIds'
    BY <1>5, Constants DEF Inv, Rows, OwnIds, Exists
  <2>3. \A i \in 1 .. MaxIds : i > ids' => ended'[i] = 0
    BY <1>1 DEF Inv, Rows, history
  <2>4. ASSUME NEW k \in Passkeys, passkeys'[k].id # 0
        PROVE  \E m \in Names : users'[m].id = passkeys'[k].id
    <3>1. passkeys[k].id # id /\ passkeys'[k] = passkeys[k]
      BY <1>1, <2>4, Constants
    <3>2. PICK m \in Names : users[m].id = passkeys[k].id
      BY <2>4, <3>1 DEF Inv, Rows, Known
    <3>3. m # n
      BY <3>1, <3>2
    <3> QED
      BY <1>5, <3>1, <3>2, <3>3
  <2> QED
    BY <2>1, <2>2, <2>3, <2>4 DEF Rows, Known
<1>9. Cookies'
  BY <1>1 DEF Inv, Cookies, Step
<1>10. req'[r] = y /\ \A s \in Slots \ {r} : req'[s] = req[s]
  BY <1>1 DEF Step, Inv, AccountsTypeOK
<1>11. RequestsInv'
  <2>1. ASSUME NEW s \in Slots PROVE RequestAt(req'[s])
    BY <1>4, <1>10 DEF Inv, RequestsInv
  <2> QED
    BY <1>1, <2>1 DEF RequestsInv, RequestAt, SavesRole, history
<1>12. OwnerRemains' /\ RolesAsGranted'
  BY <1>1, <1>2, <1>5, Constants, Bounds DEF Inv, OwnerRemains, RolesAsGranted, Exists, history
<1>13. PasswordsReachable'
  <2> SUFFICES ASSUME NEW m \in Names, Exists(m)'
               PROVE  users'[m].pw \in told' \cup lost' \cup {req'[s].tell : s \in Slots}
    BY DEF PasswordsReachable
  <2>1. users'[m] = users[m] /\ Exists(m)
    BY <1>5, Constants DEF Exists
  <2>2. users[m].pw # 0 /\ users[m].pw \in told \cup lost \cup {req[s].tell : s \in Slots}
    BY <2>1 DEF Inv, Rows, RowAt, PasswordsReachable
  <2>3. ASSUME NEW s \in Slots, users[m].pw = req[s].tell
        PROVE  users[m].pw \in {req'[x].tell : x \in Slots}
    <3>1. s # r
      BY <1>2, <2>2, <2>3 DEF q
    <3> QED
      BY <1>10, <2>3, <3>1
  <2> QED
    BY <1>1, <2>1, <2>2, <2>3 DEF history
<1> QED
  BY <1>7, <1>8, <1>9, <1>11, <1>12, <1>13 DEF Inv

-----------------------------------------------------------------------------
(* The start, and every step *)

LEMMA Numbered ==
    /\ Cardinality(Hired) \in Nat
    /\ Number \in [Hired -> 1 .. Cardinality(Hired)]
    /\ \A m, n \in Hired : m # n => Number[m] # Number[n]
<1> DEFINE N == Cardinality(Hired)
<1>1. N \in Nat /\ ExistsBijection(1 .. N, Hired)
  BY FS_CardinalityType, AccountsAssumption
<1>2. ExistsBijection(Hired, 1 .. N)
  BY <1>1, Fun_ExistsBijSymmetric
<1> HIDE DEF N
<1>3. PICK f \in Bijection(Hired, 1 .. N) : TRUE
  BY <1>2, Fun_ExistsBij
<1>4. f \in [Hired -> 1 .. N] /\ \A m, n \in Hired : m # n => f[m] # f[n]
  BY <1>3 DEF Bijection, Injection, IsInjective
<1>5. Number \in [Hired -> 1 .. N] /\ \A m, n \in Hired : m # n => Number[m] # Number[n]
  BY <1>4 DEF Number, N
<1> QED
  BY <1>1, <1>5 DEF N

LEMMA InitInv == Init => Inv
<1> SUFFICES ASSUME Init PROVE Inv
  OBVIOUS
<1> DEFINE N == Cardinality(Hired)
<1>1. /\ N \in Nat /\ N <= MaxIds /\ N <= MaxPasswords /\ Hired \subseteq Names /\ Root \in Hired
      /\ \A n \in Hired : Staff[n] \in Roles
  BY Numbered, AccountsAssumption DEF Hired, Roles
<1>2. \A n \in Hired : /\ Number[n] \in 1 .. N /\ Number[n] \in Ids /\ Number[n] # 0
                        /\ Number[n] \in 0 .. MaxPasswords /\ Number[n] \in 1 .. MaxPasswords
                        /\ Number[n] \in 1 .. MaxIds
  <2> SUFFICES ASSUME NEW n \in Hired
               PROVE  Number[n] \in 1 .. N
    BY <1>1, Bounds
  <2> QED
    BY Numbered
<1>3. /\ now = 1 /\ ids = N /\ passwords = N /\ passkeys = [k \in Passkeys |-> NoPasskey]
      /\ counters = [k \in Passkeys |-> 0] /\ keys = <<>> /\ requests = 0
      /\ req = [r \in Slots |-> Free] /\ told = 1 .. N /\ lost = {} /\ blurred = {}
      /\ granted = [n \in Names |-> IF n \in Hired THEN Staff[n] ELSE "user"]
      /\ ended = [i \in 1 .. MaxIds |-> 0]
  BY DEF Init, LimiterInit
<1>4. \A n \in Names \ Hired : users[n] = NoUser
  BY DEF Init
<1>5. \A n \in Hired : /\ users[n].id = Number[n] /\ users[n].role = Staff[n] /\ users[n].pw = Number[n]
                        /\ users[n].cut = 0 /\ users[n] \in Row
  <2> SUFFICES ASSUME NEW n \in Hired
               PROVE  /\ users[n].id = Number[n] /\ users[n].role = Staff[n] /\ users[n].pw = Number[n]
                      /\ users[n].cut = 0 /\ users[n] \in Row
    OBVIOUS
  <2>1. users[n] = [NoUser EXCEPT !.id = Number[n], !.role = Staff[n], !.pw = Number[n]]
    BY <1>1 DEF Init
  <2>2. Staff[n] \in Roles /\ Number[n] \in Ids /\ Number[n] \in 0 .. MaxPasswords
    BY <1>1, <1>2
  <2>3. users[n] \in Row
    BY <2>1, <2>2, Constants DEF Row
  <2> QED
    BY <2>1, <2>3 DEF NoUser
<1> HIDE DEF N
<1>6. users \in [Names -> Row]
  <2>1. users = [n \in Names |-> users[n]]
    BY DEF Init
  <2>2. \A n \in Names : users[n] \in Row
    BY <1>4, <1>5, Constants
  <2> QED
    BY <2>1, <2>2
<1>7. \A b \in Browsers : jar[b] \in Cookie /\ Live(jar[b])
  <2> SUFFICES ASSUME NEW b \in Browsers PROVE jar[b] \in Cookie /\ Live(jar[b])
    OBVIOUS
  <2>1. CASE SignedIn[b] = NoName
    BY <2>1, Constants DEF Init
  <2>2. CASE SignedIn[b] # NoName
    <3>1. SignedIn[b] \in Hired
      BY <2>2, AccountsAssumption
    <3>2. jar[b] = NewSession(Number[SignedIn[b]])
      BY <2>2 DEF Init
    <3> QED
      BY <1>2, <1>3, <3>1, <3>2 DEF NewSession, Cookie, SessionKeys, Live
  <2> QED
    BY <2>1, <2>2
<1>8. AccountsTypeOK
  <2>1. jar \in [Browsers -> Cookie]
    BY <1>7 DEF Init
  <2>2. granted \in [Names -> Roles] /\ ended \in [1 .. MaxIds -> Nat] /\ blurred \subseteq Names
    BY <1>1, <1>3 DEF Roles
  <2>3. keys \in Seq([id : Ids, until : Nat])
    BY <1>3, EmptySeq
  <2>4. passkeys \in [Passkeys -> [id : Ids, count : Nat]] /\ counters \in [Passkeys -> Nat]
    BY <1>3, Constants
  <2>5. ids \in Ids /\ passwords \in 0 .. MaxPasswords /\ told \subseteq 1 .. MaxPasswords /\ lost \subseteq 1 .. MaxPasswords
    BY <1>1, <1>3, Bounds
  <2>6. now \in Seconds /\ requests \in 0 .. MaxRequests
    BY <1>3, Bounds DEF Seconds
  <2>7. req \in [Slots -> Request]
    BY <1>3, FreeType
  <2> QED
    BY <1>6, <2>1, <2>2, <2>3, <2>4, <2>5, <2>6, <2>7 DEF AccountsTypeOK
<1>9. Rows
  <2>1. ASSUME NEW n \in Names PROVE RowAt(n)
    <3>1. CASE n \in Hired
      BY <1>1, <1>2, <1>3, <1>5, <3>1 DEF RowAt, Exists
    <3>2. CASE n \notin Hired
      BY <1>4, <3>2, Constants DEF RowAt, Exists
    <3> QED
      BY <3>1, <3>2
  <2>2. OwnIds
    <3> SUFFICES ASSUME NEW m \in Names, NEW n \in Names, users[m].id # 0, users[m].id = users[n].id
                 PROVE  m = n
      BY DEF OwnIds, Exists
    <3>1. m \in Hired /\ n \in Hired
      BY <1>4, Constants
    <3> QED
      BY <1>5, <3>1, Numbered
  <2> QED
    BY <1>3, <2>1, <2>2, Constants DEF Rows
<1>10. Cookies
  BY <1>7 DEF Cookies
<1>11. RequestsInv
  BY <1>3, FreeOK DEF RequestsInv
<1>12. OwnerRemains
  BY <1>1, <1>2, <1>5, AccountsAssumption DEF OwnerRemains, Exists
<1>13. RolesAsGranted
  BY <1>3, <1>4, <1>5, Constants DEF RolesAsGranted, Exists
<1>14. PasswordsReachable
  BY <1>2, <1>3, <1>4, <1>5, Constants DEF PasswordsReachable, Exists
<1> QED
  BY <1>8, <1>9, <1>10, <1>11, <1>12, <1>13, <1>14 DEF Inv

LEMMA Rests ==
    ASSUME Inv, UNCHANGED <<store, jar, req, requests, history>>, now' \in Seconds
    PROVE  Inv'
<1>1. AccountsTypeOK' /\ Cookies'
  BY DEF Inv, AccountsTypeOK, Cookies, store, history
<1>2. Rows' /\ RequestsInv'
  BY DEF Inv, Rows, RowAt, OwnIds, Exists, Known, RequestsInv, RequestAt, SavesRole, store, history
<1>3. OwnerRemains' /\ RolesAsGranted' /\ PasswordsReachable'
  BY DEF Inv, OwnerRemains, RolesAsGranted, PasswordsReachable, Exists, store, history
<1> QED
  BY <1>1, <1>2, <1>3 DEF Inv

LEMMA ArrivalInv ==
    ASSUME Inv, NEW r \in Slots, NEW b \in Browsers, Arrival(r, b)
    PROVE  Inv'
<1>0. /\ req[r].st = "free" /\ requests < MaxRequests
      /\ "user" \in Roles /\ now \in Nat /\ Len(keys) \in Nat
  BY Bounds DEF Arrival, Inv, AccountsTypeOK, Roles, Seconds
<1>1. CASE GetCSRF(r, b)
  BY <1>0, <1>1, GetCSRFInv
<1>2. ASSUME NEW k \in 0 .. Len(keys), NEW bodiless \in BOOLEAN, Read(r, b, k, bodiless)
      PROVE  Inv'
  BY <1>0, <1>2, ReadInv
<1>3. CASE Logout(r, b)
  BY <1>0, <1>3, LogoutInv
<1>4. ASSUME NEW key \in SessionKeys, BeginPasskey(r, b, key)
      PROVE  Inv'
  BY <1>0, <1>4, BeginPasskeyInv
<1>5. ASSUME NEW n \in Names, NEW p \in told, NEW right \in BOOLEAN, Login(r, b, n, p, right)
      PROVE  Inv'
  BY <1>0, <1>5, LoginInv
<1>6. ASSUME NEW k \in Passkeys,
             FinishRegistration(r, b, k) \/ FinishPasskeyLogin(r, b, k) \/ DeletePasskey(r, b, k)
      PROVE  Inv'
  BY <1>0, <1>6, FinishRegistrationInv, FinishPasskeyLoginInv, DeletePasskeyInv
<1>7. ASSUME NEW k \in 0 .. Len(keys), NEW until \in {0, now + 1}, CreateAPIKey(r, b, k, until)
      PROVE  Inv'
  <2>1. k \in Nat /\ until \in Nat
    BY <1>0, <1>7
  <2> QED
    BY <1>0, <1>7, <2>1, CreateAPIKeyInv
<1>8. ASSUME NEW k \in 0 .. Len(keys), NEW i \in 1 .. Len(keys), DeleteAPIKey(r, b, k, i)
      PROVE  Inv'
  BY <1>0, <1>8, DeleteAPIKeyInv
<1>9. ASSUME NEW k \in 0 .. Len(keys), NEW n \in Names, NEW role \in Roles, CreateUser(r, b, k, n, role)
      PROVE  Inv'
  BY <1>0, <1>9, CreateUserInv
<1>10. ASSUME NEW k \in 0 .. Len(keys), NEW n \in Names, NEW role \in Roles,
              NEW op \in {"role", "delete", "force", "immediate", "kick"}, Target(r, b, k, op, n, role)
       PROVE  Inv'
  BY <1>0, <1>10, TargetInv
<1>11. ASSUME NEW k \in 0 .. Len(keys), NEW p \in told, ChangePassword(r, b, k, p)
       PROVE  Inv'
  <2>1. k \in Nat
    BY <1>0, <1>11
  <2> QED
    BY <1>0, <1>11, <2>1, ChangePasswordInv
<1>12. ASSUME NEW k \in 0 .. Len(keys), UpdateProfile(r, b, k)
       PROVE  Inv'
  BY <1>0, <1>12, UpdateProfileInv
<1> QED
  BY <1>0, <1>1, <1>2, <1>3, <1>4, <1>5, <1>6, <1>7, <1>8, <1>9, <1>10, <1>11, <1>12 DEF Arrival

LEMMA HandlingInv ==
    ASSUME Inv, NEW r \in Slots, Handling(r)
    PROVE  Inv'
BY AnswerInv, VerifyPasswordInv, PasskeyGateInv, RotateForLoginInv, OpenSessionInv, SaveCredentialInv,
   ValidateAssertionInv, PersistSignCountInv, WriteRoleInv, WriteDeleteInv, WriteFlagInv, WriteKickInv,
   WriteRotateInv, VerifyOldInv, WriteProfileInv DEF Handling

LEMMA NextInv == Inv /\ [Next]_vars => Inv'
<1> SUFFICES ASSUME Inv, [Next]_vars PROVE Inv'
  OBVIOUS
<1>0. now \in Seconds
  BY DEF Inv, AccountsTypeOK
<1>1. CASE \E r \in Slots : Handling(r) \/ \E b \in Browsers : Arrival(r, b)
  BY <1>1, HandlingInv, ArrivalInv
<1>2. CASE Tick
  <2>1. now' \in Seconds
    BY <1>0, <1>2, Bounds DEF Tick, Seconds
  <2> QED
    BY <1>2, <2>1, Rests DEF Tick
<1>3. CASE Sweep
  BY <1>0, <1>3, Rests DEF Sweep
<1>4. CASE UNCHANGED vars
  BY <1>0, <1>4, Rests DEF vars
<1> QED
  BY <1>1, <1>2, <1>3, <1>4 DEF Next

LEMMA Invariance == Spec => []Inv
BY InitInv, NextInv, PTL DEF Spec

-----------------------------------------------------------------------------
(* The lists of the limiter *)

(* A set of naturals has a least element. *)
LEMMA Least == ASSUME NEW S \in SUBSET Nat, S # {} PROVE \E m \in S : \A k \in S : m <= k
<1> DEFINE R == {p \in Nat \X Nat : p[1] < p[2]}
<1>1. R = OpToRel(<, Nat)
  BY DEF OpToRel
<1>2. IsWellFoundedOn(R, Nat)
  BY <1>1, NatLessThanWellFounded, Zenon
<1>3. PICK m \in S : \A k \in S : ~(<<k, m>> \in R)
  <2> HIDE DEF R
  <2> QED
    BY <1>2, WFMin, Zenon
<1>4. \A k \in S : k \in Nat /\ ~(k < m)
  BY <1>3
<1> QED
  BY <1>3, <1>4

(* What cleanOld has kept of the first i records at second t, for each i. *)
Filters(f, recs, t) ==
    f = [i \in 0 .. Len(recs) |->
            IF i = 0 THEN <<>>
            ELSE IF recs[i] + WindowSeconds > t THEN Append(f[i - 1], recs[i])
            ELSE f[i - 1]]
Filter(recs, t) == CHOOSE f : Filters(f, recs, t)
Kept(recs, t) == Filter(recs, t)[Len(recs)]

(* The loop comes to its end: by the shortest prefix on which it would not. *)
LEMMA FilterExists ==
    ASSUME NEW recs, Len(recs) \in Nat, NEW t
    PROVE  \E f : Filters(f, recs, t)
<1> DEFINE Upto(f, n) == f = [i \in 0 .. n |->
                IF i = 0 THEN <<>>
                ELSE IF recs[i] + WindowSeconds > t THEN Append(f[i - 1], recs[i])
                ELSE f[i - 1]]
           S == {n \in Nat : ~ \E f : Upto(f, n)}
<1>1. S = {}
  <2> SUFFICES ASSUME S # {} PROVE FALSE
    OBVIOUS
  <2>1. PICK n \in S : \A k \in S : n <= k
    <3>1. S \in SUBSET Nat
      OBVIOUS
    <3> HIDE DEF S
    <3> QED
      BY <3>1, Least
  <2>2. n # 0
    <3>1. Upto([i \in 0 .. 0 |-> <<>>], 0)
      OBVIOUS
    <3> QED
      BY <2>1, <3>1
  <2>3. PICK f : Upto(f, n - 1)
    <3>1. n - 1 \in Nat /\ ~(n <= n - 1)
      BY <2>1, <2>2
    <3>2. n - 1 \notin S
      BY <2>1, <3>1
    <3> QED
      BY <3>1, <3>2
  <2> DEFINE g == [i \in 0 .. n |->
                IF i = n THEN IF recs[n] + WindowSeconds > t THEN Append(f[n - 1], recs[n]) ELSE f[n - 1]
                ELSE f[i]]
  <2>4. n \in Nat
    BY <2>1
  <2>5. \A i \in 0 .. n - 1 : g[i] = f[i]
    BY <2>4
  <2>6. g[n] = IF recs[n] + WindowSeconds > t THEN Append(f[n - 1], recs[n]) ELSE f[n - 1]
    BY <2>4
  <2>7. ASSUME NEW i \in 0 .. n
        PROVE  g[i] = IF i = 0 THEN <<>>
                      ELSE IF recs[i] + WindowSeconds > t THEN Append(g[i - 1], recs[i])
                      ELSE g[i - 1]
    <3>1. CASE i = n
      <4>1. n - 1 \in 0 .. n - 1
        BY <2>2, <2>4
      <4>2. g[n - 1] = f[n - 1]
        BY <2>5, <4>1
      <4> HIDE DEF g
      <4> QED
        BY <2>2, <2>6, <3>1, <4>2
    <3>2. CASE i # n
      <4>1. i \in 0 .. n - 1 /\ (i # 0 => i - 1 \in 0 .. n - 1)
        BY <2>4, <3>2
      <4>2. g[i] = f[i] /\ (i # 0 => g[i - 1] = f[i - 1])
        BY <2>5, <4>1
      <4> HIDE DEF g
      <4>3. f[i] = IF i = 0 THEN <<>>
                   ELSE IF recs[i] + WindowSeconds > t THEN Append(f[i - 1], recs[i])
                   ELSE f[i - 1]
        BY <2>3, <4>1
      <4> QED
        BY <4>2, <4>3
    <3> QED
      BY <3>1, <3>2
  <2>8. Upto(g, n)
    BY <2>7, Zenon
  <2> QED
    BY <2>1, <2>8
<1>2. \E f : Upto(f, Len(recs))
  BY <1>1
<1> QED
  BY <1>2 DEF Filters

LEMMA FilterStep ==
    ASSUME NEW recs, Len(recs) \in Nat, NEW t
    PROVE  /\ Filter(recs, t)[0] = <<>>
           /\ \A i \in 1 .. Len(recs) :
                Filter(recs, t)[i] = IF recs[i] + WindowSeconds > t
                                     THEN Append(Filter(recs, t)[i - 1], recs[i])
                                     ELSE Filter(recs, t)[i - 1]
<1> DEFINE f == Filter(recs, t)
<1>1. Filters(f, recs, t)
  BY FilterExists DEF Filter
<1> HIDE DEF f
<1>2. 0 \in 0 .. Len(recs) /\ \A i \in 1 .. Len(recs) : i \in 0 .. Len(recs) /\ i # 0
  OBVIOUS
<1>3. f[0] = <<>> /\ \A i \in 1 .. Len(recs) :
          f[i] = IF recs[i] + WindowSeconds > t THEN Append(f[i - 1], recs[i]) ELSE f[i - 1]
  BY <1>1, <1>2 DEF Filters
<1> QED
  BY <1>3 DEF f

(* It keeps records that were there, and no more than there were. *)
LEMMA KeptType ==
    ASSUME NEW recs \in Seq(Seconds), NEW t \in Nat
    PROVE  Kept(recs, t) \in Seq(Seconds) /\ Len(Kept(recs, t)) <= Len(recs)
<1> DEFINE f == Filter(recs, t)
           N == Len(recs)
           S == {i \in 0 .. N : ~(f[i] \in Seq(Seconds) /\ Len(f[i]) <= i)}
<1>1. N \in Nat /\ \A i \in 1 .. N : recs[i] \in Seconds
  BY LenProperties, ElementOfSeq
<1>2. <<>> \in Seq(Seconds) /\ Len(<<>>) = 0
  BY EmptySeq
<1>3. f[0] = <<>> /\ \A i \in 1 .. N :
          f[i] = IF recs[i] + WindowSeconds > t THEN Append(f[i - 1], recs[i]) ELSE f[i - 1]
  BY <1>1, FilterStep
<1> HIDE DEF f, N
<1>4. S = {}
  <2> SUFFICES ASSUME S # {} PROVE FALSE
    OBVIOUS
  <2>1. PICK i \in S : \A k \in S : i <= k
    <3>1. S \in SUBSET Nat
      BY <1>1
    <3> HIDE DEF S
    <3> QED
      BY <3>1, Least
  <2>2. i # 0
    BY <1>2, <1>3, <2>1
  <2>3. i \in 1 .. N /\ i - 1 \in 0 .. N /\ ~(i <= i - 1)
    BY <1>1, <2>1, <2>2
  <2>4. f[i - 1] \in Seq(Seconds) /\ Len(f[i - 1]) <= i - 1
    BY <2>1, <2>3
  <2>5. recs[i] \in Seconds
    BY <1>1, <2>3
  <2>6. /\ Append(f[i - 1], recs[i]) \in Seq(Seconds)
        /\ Len(Append(f[i - 1], recs[i])) = Len(f[i - 1]) + 1
        /\ Len(f[i - 1]) \in Nat
    BY <2>4, <2>5, AppendProperties, LenProperties
  <2>7. f[i] \in {f[i - 1], Append(f[i - 1], recs[i])}
    BY <1>3, <2>3
  <2>8. f[i] \in Seq(Seconds) /\ Len(f[i]) <= i
    <3>1. i \in Nat
      BY <2>3, <1>1
    <3>2. CASE f[i] = f[i - 1]
      BY <3>1, <3>2, <2>4, <2>6
    <3>3. CASE f[i] = Append(f[i - 1], recs[i])
      <4>1. Len(f[i]) = Len(f[i - 1]) + 1 /\ f[i] \in Seq(Seconds)
        BY <3>3, <2>6, Zenon
      <4> QED
        BY <3>1, <4>1, <2>4, <2>6
    <3> QED
      BY <3>2, <3>3, <2>7
  <2> QED
    BY <2>1, <2>8
<1>5. N \in 0 .. N
  BY <1>1
<1> QED
  BY <1>4, <1>5 DEF Kept, f, N

(* And no more of them later than before. *)
LEMMA KeptShrinks ==
    ASSUME NEW recs \in Seq(Seconds), NEW t \in Nat, NEW u \in Nat, t <= u
    PROVE  Len(Kept(recs, u)) <= Len(Kept(recs, t))
<1> DEFINE f == Filter(recs, t)
           g == Filter(recs, u)
           N == Len(recs)
           S == {i \in 0 .. N : ~(f[i] \in Seq(Seconds) /\ g[i] \in Seq(Seconds) /\ Len(g[i]) <= Len(f[i]))}
<1>1. N \in Nat /\ \A i \in 1 .. N : recs[i] \in Seconds
  BY LenProperties, ElementOfSeq
<1>2. Seconds \subseteq Nat /\ WindowSeconds \in Nat
  BY Bounds, LimiterAssumption DEF Seconds
<1>3. f[0] = <<>> /\ \A i \in 1 .. N :
          f[i] = IF recs[i] + WindowSeconds > t THEN Append(f[i - 1], recs[i]) ELSE f[i - 1]
  BY <1>1, FilterStep
<1>4. g[0] = <<>> /\ \A i \in 1 .. N :
          g[i] = IF recs[i] + WindowSeconds > u THEN Append(g[i - 1], recs[i]) ELSE g[i - 1]
  BY <1>1, FilterStep
<1> HIDE DEF f, g, N
<1>5. S = {}
  <2> SUFFICES ASSUME S # {} PROVE FALSE
    OBVIOUS
  <2>1. PICK i \in S : \A k \in S : i <= k
    <3>1. S \in SUBSET Nat
      BY <1>1
    <3> HIDE DEF S
    <3> QED
      BY <3>1, Least
  <2>2. i # 0
    <3>1. <<>> \in Seq(Seconds) /\ Len(<<>>) = 0
      BY EmptySeq
    <3>2. CASE i = 0
      <4>1. f[i] = <<>> /\ g[i] = <<>>
        BY <1>3, <1>4, <3>2
      <4>2. f[i] \in Seq(Seconds) /\ g[i] \in Seq(Seconds) /\ Len(g[i]) <= Len(f[i])
        BY <3>1, <4>1
      <4> QED
        BY <2>1, <4>2
    <3> QED
      BY <3>2
  <2>3. i \in 1 .. N /\ i - 1 \in 0 .. N /\ ~(i <= i - 1)
    BY <1>1, <2>1, <2>2
  <2>4. f[i - 1] \in Seq(Seconds) /\ g[i - 1] \in Seq(Seconds) /\ Len(g[i - 1]) <= Len(f[i - 1])
    BY <2>1, <2>3
  <2>5. recs[i] \in Seconds
    BY <1>1, <2>3
  <2>6. /\ Append(f[i - 1], recs[i]) \in Seq(Seconds) /\ Append(g[i - 1], recs[i]) \in Seq(Seconds)
        /\ Len(Append(f[i - 1], recs[i])) = Len(f[i - 1]) + 1
        /\ Len(Append(g[i - 1], recs[i])) = Len(g[i - 1]) + 1
        /\ Len(f[i - 1]) \in Nat /\ Len(g[i - 1]) \in Nat
    BY <2>4, <2>5, AppendProperties, LenProperties
  <2>7. recs[i] + WindowSeconds > u => recs[i] + WindowSeconds > t
    <3>1. recs[i] \in Nat /\ WindowSeconds \in Nat
      BY <1>2, <2>5
    <3> QED
      BY <3>1
  <2>8. CASE recs[i] + WindowSeconds > u
    <3>1. g[i] = Append(g[i - 1], recs[i]) /\ f[i] = Append(f[i - 1], recs[i])
      BY <1>3, <1>4, <2>3, <2>7, <2>8
    <3>2. /\ f[i] \in Seq(Seconds) /\ g[i] \in Seq(Seconds)
          /\ Len(f[i]) = Len(f[i - 1]) + 1 /\ Len(g[i]) = Len(g[i - 1]) + 1
      BY <2>6, <3>1, Zenon
    <3>3. Len(g[i]) <= Len(f[i])
      BY <2>4, <2>6, <3>2
    <3> QED
      BY <2>1, <3>2, <3>3
  <2>9. CASE ~(recs[i] + WindowSeconds > u)
    <3>1. g[i] = g[i - 1] /\ f[i] \in {f[i - 1], Append(f[i - 1], recs[i])}
      BY <1>3, <1>4, <2>3, <2>9
    <3>2. g[i] \in Seq(Seconds) /\ Len(g[i]) <= Len(f[i - 1])
      BY <2>4, <3>1
    <3>3. CASE f[i] = f[i - 1]
      <4>1. f[i] \in Seq(Seconds) /\ Len(g[i]) <= Len(f[i])
        BY <2>4, <3>2, <3>3
      <4> QED
        BY <2>1, <3>2, <4>1
    <3>4. CASE f[i] = Append(f[i - 1], recs[i])
      <4>1. f[i] \in Seq(Seconds) /\ Len(f[i]) = Len(f[i - 1]) + 1
        BY <2>6, <3>4, Zenon
      <4>2. Len(g[i]) \in Nat
        BY <3>2, LenProperties
      <4>3. Len(g[i]) <= Len(f[i])
        BY <2>6, <3>2, <4>1, <4>2
      <4> QED
        BY <2>1, <3>2, <4>1, <4>3
    <3> QED
      BY <3>1, <3>3, <3>4
  <2> QED
    BY <2>8, <2>9
<1>6. N \in 0 .. N
  BY <1>1
<1> QED
  BY <1>5, <1>6 DEF Kept, f, g, N

LEMMA CleanOldIsKept == ASSUME NEW recs PROVE cleanOld(recs) = Kept(recs, now)
BY DEF cleanOld, Kept, Filter, Filters

-----------------------------------------------------------------------------
(* What the limiter has counted and may still count *)

(* Attempts that passed CheckAllowed and may still fail. *)
Waiting(q) == q.op = "login" /\ q.st \in {"verify", "gate"}
Attempts(n) == {r \in Slots : Waiting(req[r]) /\ req[r].name = n}
AllAttempts == {r \in Slots : Waiting(req[r])}

(* What is counted and what may still be: an attempt is let in below the limit, *)
(* when at most every request there can be is one.                              *)
Budget ==
    /\ \A n \in Names : Len(cleanOld(failures[n])) + Cardinality(Attempts(n))
                          <= MaxFailuresPerUserIP - 1 + Cardinality(Slots)
    /\ Len(cleanOld(ipFailures)) + Cardinality(AllAttempts)
         <= MaxFailuresPerIP - 1 + Cardinality(Slots)
Counts == LimiterTypeOK /\ Budget

(* The lists do not grow in a step. *)
Shorter(n) == Len(cleanOld(failures[n]))' <= Len(cleanOld(failures[n]))
ShorterAddress == Len(cleanOld(ipFailures))' <= Len(cleanOld(ipFailures))

LEMMA AttemptsFinite ==
    /\ Cardinality(Slots) \in Nat
    /\ \A n \in Names : Cardinality(Attempts(n)) \in Nat /\ Cardinality(Attempts(n)) <= Cardinality(Slots)
    /\ Cardinality(AllAttempts) \in Nat /\ Cardinality(AllAttempts) <= Cardinality(Slots)
<1>1. IsFiniteSet(Slots)
  BY AccountsAssumption
<1>2. ASSUME NEW A \in SUBSET Slots
      PROVE  Cardinality(A) \in Nat /\ Cardinality(A) <= Cardinality(Slots)
  BY <1>1, FS_Subset, FS_CardinalityType
<1>3. AllAttempts \in SUBSET Slots /\ \A n \in Names : Attempts(n) \in SUBSET Slots
  BY DEF AllAttempts, Attempts
<1> QED
  BY <1>1, <1>2, <1>3, FS_CardinalityType

LEMMA Lengths ==
    ASSUME LimiterTypeOK, now \in Seconds
    PROVE  /\ cleanOld(ipFailures) \in Seq(Seconds) /\ Len(cleanOld(ipFailures)) \in Nat
           /\ \A n \in Names : cleanOld(failures[n]) \in Seq(Seconds) /\ Len(cleanOld(failures[n])) \in Nat
<1>1. now \in Nat
  BY Bounds DEF Seconds
<1>2. cleanOld(ipFailures) \in Seq(Seconds) /\ \A n \in Names : cleanOld(failures[n]) \in Seq(Seconds)
  BY <1>1, KeptType, CleanOldIsKept DEF LimiterTypeOK
<1> QED
  BY <1>2, LenProperties

(* Cleaning what was cleaned leaves no more of it. *)
LEMMA CleanedAgain ==
    ASSUME NEW recs \in Seq(Seconds), now \in Seconds, UNCHANGED now
    PROVE  /\ cleanOld(recs) \in Seq(Seconds)
           /\ Len(Kept(cleanOld(recs), now')) <= Len(cleanOld(recs))
           /\ Len(Kept(Append(cleanOld(recs), now), now')) <= Len(cleanOld(recs)) + 1
           /\ Append(cleanOld(recs), now) \in Seq(Seconds)
<1>1. now \in Nat /\ now' \in Nat
  BY Bounds DEF Seconds
<1>2. cleanOld(recs) \in Seq(Seconds)
  BY <1>1, KeptType, CleanOldIsKept
<1>3. Append(cleanOld(recs), now) \in Seq(Seconds) /\ Len(Append(cleanOld(recs), now)) = Len(cleanOld(recs)) + 1
  BY <1>2, AppendProperties
<1> QED
  BY <1>1, <1>2, <1>3, KeptType

LEMMA CleanOldLater == cleanOld(ipFailures)' = Kept(ipFailures', now')
                       /\ \A n \in Names : cleanOld(failures[n])' = Kept(failures'[n], now')
BY DEF cleanOld, Kept, Filter, Filters

(* Looking, forgetting and sweeping make no list longer. *)
LEMMA CheckedShortens ==
    ASSUME LimiterTypeOK, now \in Seconds, UNCHANGED now, NEW n \in Names, Checked(n)
    PROVE  LimiterTypeOK' /\ ShorterAddress /\ \A m \in Names : Shorter(m)
<1>1. /\ failures \in [Names -> Seq(Seconds)] /\ ipFailures \in Seq(Seconds)
      /\ lockouts' \in [Names -> Nat]
  BY DEF LimiterTypeOK, Checked
<1>2. ipFailures' \in {ipFailures, cleanOld(ipFailures)}
  BY DEF Checked
<1>3. failures' \in {failures, [failures EXCEPT ![n] = cleanOld(failures[n])]}
  BY DEF Checked
<1>4. cleanOld(ipFailures) \in Seq(Seconds) /\ cleanOld(failures[n]) \in Seq(Seconds)
  BY <1>1, CleanedAgain
<1>5. Len(cleanOld(ipFailures)) \in Nat /\ \A m \in Names : Len(cleanOld(failures[m])) \in Nat
  BY Lengths
<1>6. ShorterAddress
  <2>1. CASE ipFailures' = ipFailures
    BY <1>5, <2>1, CleanOldLater, CleanOldIsKept DEF ShorterAddress
  <2>2. CASE ipFailures' = cleanOld(ipFailures)
    BY <1>1, <2>2, CleanOldLater, CleanedAgain DEF ShorterAddress
  <2> QED
    BY <1>2, <2>1, <2>2
<1>7. ASSUME NEW m \in Names PROVE Shorter(m)
  <2>1. CASE failures'[m] = failures[m]
    BY <1>5, <2>1, CleanOldLater, CleanOldIsKept DEF Shorter
  <2>2. CASE failures'[m] = cleanOld(failures[m])
    <3>1. failures[m] \in Seq(Seconds)
      BY <1>1
    <3> QED
      BY <3>1, <2>2, CleanOldLater, CleanedAgain DEF Shorter
  <2>3. failures'[m] = failures[m] \/ failures'[m] = cleanOld(failures[m])
    BY <1>1, <1>3
  <2> QED
    BY <2>1, <2>2, <2>3
<1>8. LimiterTypeOK'
  BY <1>1, <1>2, <1>3, <1>4 DEF LimiterTypeOK, Seconds
<1> QED
  BY <1>6, <1>7, <1>8

LEMMA ResetShortens ==
    ASSUME LimiterTypeOK, now \in Seconds, UNCHANGED now, NEW n \in Names, Reset(n)
    PROVE  LimiterTypeOK' /\ ShorterAddress /\ \A m \in Names : Shorter(m)
<1>1. /\ failures \in [Names -> Seq(Seconds)] /\ ipFailures \in Seq(Seconds)
      /\ failures' = [failures EXCEPT ![n] = <<>>] /\ ipFailures' = ipFailures
      /\ lockouts' \in [Names -> Nat]
  BY DEF LimiterTypeOK, Reset
<1>2. <<>> \in Seq(Seconds) /\ Len(<<>>) = 0 /\ now' \in Nat
  BY EmptySeq, Bounds DEF Seconds
<1>3. Len(Kept(<<>>, now')) = 0
  <2>1. Kept(<<>>, now') \in Seq(Seconds) /\ Len(Kept(<<>>, now')) <= 0
    BY <1>2, KeptType
  <2> QED
    BY <2>1, LenProperties
<1>4. Len(cleanOld(ipFailures)) \in Nat /\ \A m \in Names : Len(cleanOld(failures[m])) \in Nat
  BY Lengths
<1>5. ShorterAddress
  BY <1>1, <1>4, CleanOldLater, CleanOldIsKept DEF ShorterAddress
<1>6. ASSUME NEW m \in Names PROVE Shorter(m)
  <2>1. CASE m # n
    BY <1>1, <1>4, <2>1, CleanOldLater, CleanOldIsKept DEF Shorter
  <2>2. CASE m = n
    BY <1>1, <1>3, <1>4, <2>2, CleanOldLater DEF Shorter
  <2> QED
    BY <2>1, <2>2
<1>7. LimiterTypeOK'
  BY <1>1, <1>2 DEF LimiterTypeOK, Seconds
<1> QED
  BY <1>5, <1>6, <1>7

LEMMA CleanupShortens ==
    ASSUME LimiterTypeOK, now \in Seconds, UNCHANGED now, Cleanup
    PROVE  LimiterTypeOK' /\ ShorterAddress /\ \A m \in Names : Shorter(m)
<1>1. /\ failures \in [Names -> Seq(Seconds)] /\ ipFailures \in Seq(Seconds)
      /\ failures' = [n \in Names |-> cleanOld(failures[n])] /\ ipFailures' = cleanOld(ipFailures)
      /\ lockouts' \in [Names -> Nat]
  BY DEF LimiterTypeOK, Cleanup
<1>2. ShorterAddress /\ cleanOld(ipFailures) \in Seq(Seconds)
  BY <1>1, CleanOldLater, CleanedAgain DEF ShorterAddress
<1>3. ASSUME NEW m \in Names PROVE Shorter(m) /\ cleanOld(failures[m]) \in Seq(Seconds)
  BY <1>1, CleanOldLater, CleanedAgain DEF Shorter
<1>4. LimiterTypeOK'
  BY <1>1, <1>2, <1>3 DEF LimiterTypeOK, Seconds
<1> QED
  BY <1>2, <1>3, <1>4

(* Time passing makes no list longer. *)
LEMMA TimeShortens ==
    ASSUME LimiterTypeOK, now \in Seconds, now' \in {now, now + 1}, UNCHANGED limiter
    PROVE  LimiterTypeOK' /\ ShorterAddress /\ \A m \in Names : Shorter(m)
<1>1. /\ failures \in [Names -> Seq(Seconds)] /\ ipFailures \in Seq(Seconds)
      /\ failures' = failures /\ ipFailures' = ipFailures /\ lockouts' = lockouts
  BY DEF LimiterTypeOK, limiter
<1>2. now \in Nat /\ now' \in Nat /\ now <= now'
  BY Bounds DEF Seconds
<1>3. ShorterAddress
  BY <1>1, <1>2, CleanOldLater, CleanOldIsKept, KeptShrinks DEF ShorterAddress
<1>4. ASSUME NEW m \in Names PROVE Shorter(m)
  BY <1>1, <1>2, CleanOldLater, CleanOldIsKept, KeptShrinks DEF Shorter
<1>5. LimiterTypeOK'
  BY <1>1 DEF LimiterTypeOK, Seconds
<1> QED
  BY <1>3, <1>4, <1>5

(* A failure adds one record to two lists. *)
LEMMA RecordAdds ==
    ASSUME LimiterTypeOK, now \in Seconds, UNCHANGED now, NEW n \in Names, RecordFailure(n)
    PROVE  /\ LimiterTypeOK'
           /\ Len(cleanOld(ipFailures))' <= Len(cleanOld(ipFailures)) + 1
           /\ Len(cleanOld(failures[n]))' <= Len(cleanOld(failures[n])) + 1
           /\ \A m \in Names \ {n} : Shorter(m)
<1>1. /\ failures \in [Names -> Seq(Seconds)] /\ ipFailures \in Seq(Seconds)
      /\ failures' = [failures EXCEPT ![n] = Append(cleanOld(failures[n]), now)]
      /\ ipFailures' = Append(cleanOld(ipFailures), now)
      /\ lockouts \in [Names -> Nat]
      /\ lockouts' \in {lockouts, [lockouts EXCEPT ![n] = now + LockoutDuration]}
  BY DEF LimiterTypeOK, RecordFailure
<1>2. now + LockoutDuration \in Nat
  BY Bounds, LimiterAssumption DEF Seconds
<1>3. lockouts' \in [Names -> Nat]
  BY <1>1, <1>2
<1>4. Len(cleanOld(ipFailures))' <= Len(cleanOld(ipFailures)) + 1 /\ ipFailures' \in Seq(Seconds)
  BY <1>1, CleanOldLater, CleanedAgain
<1>5. Len(cleanOld(failures[n]))' <= Len(cleanOld(failures[n])) + 1 /\ failures'[n] \in Seq(Seconds)
  <2>1. failures[n] \in Seq(Seconds) /\ failures'[n] = Append(cleanOld(failures[n]), now)
    BY <1>1
  <2> QED
    BY <2>1, CleanOldLater, CleanedAgain
<1>6. ASSUME NEW m \in Names \ {n} PROVE Shorter(m)
  <2>1. failures'[m] = failures[m] /\ Len(cleanOld(failures[m])) \in Nat
    BY <1>1, Lengths
  <2> QED
    BY <2>1, CleanOldLater, CleanOldIsKept DEF Shorter
<1>7. failures' \in [Names -> Seq(Seconds)]
  BY <1>1, <1>5
<1>8. LimiterTypeOK'
  BY <1>3, <1>4, <1>7 DEF LimiterTypeOK, Seconds
<1> QED
  BY <1>4, <1>5, <1>6, <1>8

-----------------------------------------------------------------------------
(* Steps keep to the budget *)

LEMMA Within ==
    ASSUME LimiterTypeOK', ShorterAddress, \A m \in Names : Shorter(m), Counts, now \in Seconds, now' \in Seconds,
           AllAttempts' \subseteq AllAttempts, \A m \in Names : Attempts(m)' \subseteq Attempts(m)
    PROVE  Counts'
<1>1. IsFiniteSet(AllAttempts) /\ \A m \in Names : IsFiniteSet(Attempts(m))
  <2>1. IsFiniteSet(Slots) /\ AllAttempts \subseteq Slots /\ \A m \in Names : Attempts(m) \subseteq Slots
    BY AccountsAssumption DEF AllAttempts, Attempts
  <2> QED
    BY <2>1, FS_Subset
<1>2. /\ Cardinality(AllAttempts') \in Nat /\ Cardinality(AllAttempts') <= Cardinality(AllAttempts)
      /\ \A m \in Names : /\ Cardinality(Attempts(m)') \in Nat
                          /\ Cardinality(Attempts(m)') <= Cardinality(Attempts(m))
  BY <1>1, FS_Subset, FS_CardinalityType
<1>3. /\ Len(cleanOld(ipFailures)) \in Nat /\ \A m \in Names : Len(cleanOld(failures[m])) \in Nat
      /\ Len(cleanOld(ipFailures))' \in Nat /\ \A m \in Names : Len(cleanOld(failures[m]))' \in Nat
  <2>1. Len(cleanOld(ipFailures)) \in Nat /\ \A m \in Names : Len(cleanOld(failures[m])) \in Nat
    BY Lengths DEF Counts
  <2>2. now' \in Nat /\ ipFailures' \in Seq(Seconds) /\ \A m \in Names : failures'[m] \in Seq(Seconds)
    BY Bounds DEF LimiterTypeOK, Seconds
  <2>3. /\ Kept(ipFailures', now') \in Seq(Seconds)
        /\ \A m \in Names : Kept(failures'[m], now') \in Seq(Seconds)
    BY <2>2, KeptType
  <2> QED
    BY <2>1, <2>3, LenProperties, CleanOldLater
<1>4. /\ Cardinality(Slots) \in Nat /\ MaxFailuresPerIP \in Nat /\ MaxFailuresPerUserIP \in Nat
      /\ Cardinality(AllAttempts) \in Nat /\ \A m \in Names : Cardinality(Attempts(m)) \in Nat
  BY AttemptsFinite, LimiterAssumption
<1>5. ASSUME NEW m \in Names
      PROVE  Len(cleanOld(failures[m]))' + Cardinality(Attempts(m)') <= MaxFailuresPerUserIP - 1 + Cardinality(Slots)
  <2>1. /\ Len(cleanOld(failures[m])) + Cardinality(Attempts(m)) <= MaxFailuresPerUserIP - 1 + Cardinality(Slots)
        /\ Len(cleanOld(failures[m]))' <= Len(cleanOld(failures[m]))
    BY DEF Counts, Budget, Shorter
  <2> QED
    BY <1>2, <1>3, <1>4, <2>1
<1>6. Len(cleanOld(ipFailures))' + Cardinality(AllAttempts') <= MaxFailuresPerIP - 1 + Cardinality(Slots)
  <2>1. /\ Len(cleanOld(ipFailures)) + Cardinality(AllAttempts) <= MaxFailuresPerIP - 1 + Cardinality(Slots)
        /\ Len(cleanOld(ipFailures))' <= Len(cleanOld(ipFailures))
    BY DEF Counts, Budget, ShorterAddress
  <2> QED
    BY <1>2, <1>3, <1>4, <2>1
<1> QED
  BY <1>5, <1>6 DEF Counts, Budget

(* A request only goes on waiting for its verdict, under the name it came with. *)
Still(r, q) == Waiting(q) => Waiting(req[r]) /\ q.name = req[r].name

LEMMA StillWithin ==
    ASSUME Inv, Counts, NEW r \in Slots, NEW q, Moves(r, q), Still(r, q), UNCHANGED now,
           LimiterTypeOK', ShorterAddress, \A m \in Names : Shorter(m)
    PROVE  Counts'
<1>1. req'[r] = q /\ \A s \in Slots \ {r} : req'[s] = req[s]
  BY DEF Moves, Inv, AccountsTypeOK
<1>2. AllAttempts' \subseteq AllAttempts
  BY <1>1 DEF AllAttempts, Still, Waiting
<1>3. ASSUME NEW m \in Names PROVE Attempts(m)' \subseteq Attempts(m)
  BY <1>1 DEF Attempts, Still, Waiting
<1>4. now \in Seconds /\ now' \in Seconds
  BY DEF Inv, AccountsTypeOK, Seconds
<1> QED
  BY <1>2, <1>3, <1>4, Within

LEMMA QuietWithin ==
    ASSUME Inv, Counts, NEW r \in Slots, NEW q, Moves(r, q), Still(r, q), UNCHANGED <<now, limiter>>
    PROVE  Counts'
<1>1. now \in Seconds
  BY DEF Inv, AccountsTypeOK
<1>2. LimiterTypeOK' /\ ShorterAddress /\ \A m \in Names : Shorter(m)
  BY <1>1, TimeShortens DEF Counts
<1> QED
  BY <1>2, StillWithin

(* A failure takes the place of the attempt it ends. *)
LEMMA FailureWithin ==
    ASSUME Inv, Counts, NEW r \in Slots, NEW n \in Names, NEW q, Moves(r, q),
           Waiting(req[r]), req[r].name = n, ~Waiting(q), RecordFailure(n), UNCHANGED now
    PROVE  Counts'
<1>1. LimiterTypeOK /\ now \in Seconds
  BY DEF Inv, AccountsTypeOK, Counts
<1>2. req'[r] = q /\ \A s \in Slots \ {r} : req'[s] = req[s]
  BY DEF Moves, Inv, AccountsTypeOK
<1>3. /\ LimiterTypeOK'
      /\ Len(cleanOld(ipFailures))' <= Len(cleanOld(ipFailures)) + 1
      /\ Len(cleanOld(failures[n]))' <= Len(cleanOld(failures[n])) + 1
      /\ \A m \in Names \ {n} : Shorter(m)
  BY <1>1, RecordAdds
<1>4. AllAttempts' = AllAttempts \ {r} /\ r \in AllAttempts
  BY <1>2 DEF AllAttempts, Waiting
<1>5. Attempts(n)' = Attempts(n) \ {r} /\ r \in Attempts(n)
  BY <1>2 DEF Attempts, Waiting
<1>6. \A m \in Names \ {n} : Attempts(m)' = Attempts(m)
  BY <1>2 DEF Attempts, Waiting
<1>7. IsFiniteSet(AllAttempts) /\ IsFiniteSet(Attempts(n))
  <2>1. IsFiniteSet(Slots) /\ AllAttempts \subseteq Slots /\ Attempts(n) \subseteq Slots
    BY AccountsAssumption DEF AllAttempts, Attempts
  <2> QED
    BY <2>1, FS_Subset
<1>8. /\ Cardinality(AllAttempts') = Cardinality(AllAttempts) - 1
      /\ Cardinality(Attempts(n)') = Cardinality(Attempts(n)) - 1
  BY <1>4, <1>5, <1>7, FS_RemoveElement
<1>9. /\ Cardinality(Slots) \in Nat /\ MaxFailuresPerIP \in Nat /\ MaxFailuresPerUserIP \in Nat
      /\ Cardinality(AllAttempts) \in Nat /\ \A m \in Names : Cardinality(Attempts(m)) \in Nat
  BY AttemptsFinite, LimiterAssumption
<1>10. /\ Len(cleanOld(ipFailures)) \in Nat /\ \A m \in Names : Len(cleanOld(failures[m])) \in Nat
       /\ Len(cleanOld(ipFailures))' \in Nat /\ \A m \in Names : Len(cleanOld(failures[m]))' \in Nat
  <2>1. Len(cleanOld(ipFailures)) \in Nat /\ \A m \in Names : Len(cleanOld(failures[m])) \in Nat
    BY <1>1, Lengths DEF Counts
  <2>2. now' \in Nat /\ ipFailures' \in Seq(Seconds) /\ \A m \in Names : failures'[m] \in Seq(Seconds)
    BY <1>1, <1>3, Bounds DEF LimiterTypeOK, Seconds
  <2>3. /\ Kept(ipFailures', now') \in Seq(Seconds)
        /\ \A m \in Names : Kept(failures'[m], now') \in Seq(Seconds)
    BY <2>2, KeptType
  <2> QED
    BY <2>1, <2>3, LenProperties, CleanOldLater
<1>11. Len(cleanOld(ipFailures))' + Cardinality(AllAttempts') <= MaxFailuresPerIP - 1 + Cardinality(Slots)
  <2>1. Len(cleanOld(ipFailures)) + Cardinality(AllAttempts) <= MaxFailuresPerIP - 1 + Cardinality(Slots)
    BY DEF Counts, Budget
  <2> QED
    BY <1>3, <1>8, <1>9, <1>10, <2>1
<1>12. ASSUME NEW m \in Names
       PROVE  Len(cleanOld(failures[m]))' + Cardinality(Attempts(m)') <= MaxFailuresPerUserIP - 1 + Cardinality(Slots)
  <2>1. Len(cleanOld(failures[m])) + Cardinality(Attempts(m)) <= MaxFailuresPerUserIP - 1 + Cardinality(Slots)
    BY DEF Counts, Budget
  <2>2. CASE m = n
    BY <1>1, <1>3, <1>8, <1>9, <1>10, <2>1, <2>2
  <2>3. CASE m # n
    <3>1. Len(cleanOld(failures[m]))' <= Len(cleanOld(failures[m])) /\ Attempts(m)' = Attempts(m)
      BY <1>3, <1>6, <2>3 DEF Shorter
    <3> QED
      BY <1>9, <1>10, <2>1, <3>1
  <2> QED
    BY <2>2, <2>3
<1> QED
  BY <1>3, <1>11, <1>12 DEF Counts, Budget

(* An attempt is let in below both limits: then every request may be one. *)
LEMMA AdmittedWithin ==
    ASSUME Inv, Counts, NEW r \in Slots, NEW n \in Names, NEW q, Moves(r, q), q.name = n,
           CheckAllowed(n), Checked(n), UNCHANGED now
    PROVE  Counts'
<1>1. now \in Seconds
  BY DEF Inv, AccountsTypeOK
<1>2. req'[r] = q /\ \A s \in Slots \ {r} : req'[s] = req[s]
  BY DEF Moves, Inv, AccountsTypeOK
<1>3. LimiterTypeOK' /\ ShorterAddress /\ \A m \in Names : Shorter(m)
  BY <1>1, CheckedShortens DEF Counts
<1>4. \A m \in Names \ {n} : Attempts(m)' \subseteq Attempts(m)
  BY <1>2 DEF Attempts, Waiting
<1>5. ASSUME NEW A \in SUBSET Slots, NEW B \in SUBSET A
      PROVE  Cardinality(A) \in Nat /\ Cardinality(B) \in Nat /\ Cardinality(B) <= Cardinality(A)
  <2>1. IsFiniteSet(Slots) /\ IsFiniteSet(A) /\ IsFiniteSet(B)
    BY AccountsAssumption, FS_Subset
  <2> QED
    BY <2>1, FS_Subset, FS_CardinalityType
<1>6. /\ AllAttempts' \subseteq Slots
      /\ \A m \in Names : Attempts(m)' \subseteq Slots /\ Attempts(m) \subseteq Slots
  BY DEF AllAttempts, Attempts
<1>7. /\ Cardinality(Slots) \in Nat /\ MaxFailuresPerIP \in Nat /\ MaxFailuresPerUserIP \in Nat
      /\ Cardinality(AllAttempts') \in Nat /\ Cardinality(AllAttempts') <= Cardinality(Slots)
      /\ \A m \in Names : Cardinality(Attempts(m)') \in Nat /\ Cardinality(Attempts(m)') <= Cardinality(Slots)
  BY <1>5, <1>6, AttemptsFinite, LimiterAssumption
<1>8. \A m \in Names \ {n} : Cardinality(Attempts(m)) \in Nat /\ Cardinality(Attempts(m)') <= Cardinality(Attempts(m))
  BY <1>4, <1>5, <1>6
<1>9. /\ Len(cleanOld(ipFailures)) \in Nat /\ \A m \in Names : Len(cleanOld(failures[m])) \in Nat
      /\ Len(cleanOld(ipFailures))' \in Nat /\ \A m \in Names : Len(cleanOld(failures[m]))' \in Nat
  <2>1. Len(cleanOld(ipFailures)) \in Nat /\ \A m \in Names : Len(cleanOld(failures[m])) \in Nat
    BY <1>1, Lengths DEF Counts
  <2>2. now' \in Nat /\ ipFailures' \in Seq(Seconds) /\ \A m \in Names : failures'[m] \in Seq(Seconds)
    BY <1>1, <1>3, Bounds DEF LimiterTypeOK, Seconds
  <2>3. /\ Kept(ipFailures', now') \in Seq(Seconds)
        /\ \A m \in Names : Kept(failures'[m], now') \in Seq(Seconds)
    BY <2>2, KeptType
  <2> QED
    BY <2>1, <2>3, LenProperties, CleanOldLater
<1>10. Len(cleanOld(ipFailures)) < MaxFailuresPerIP /\ Len(cleanOld(failures[n])) < MaxFailuresPerUserIP
  BY DEF CheckAllowed
<1>11. Len(cleanOld(ipFailures))' + Cardinality(AllAttempts') <= MaxFailuresPerIP - 1 + Cardinality(Slots)
  <2>1. Len(cleanOld(ipFailures))' <= Len(cleanOld(ipFailures))
    BY <1>3 DEF ShorterAddress
  <2> QED
    BY <1>7, <1>9, <1>10, <2>1
<1>12. ASSUME NEW m \in Names
       PROVE  Len(cleanOld(failures[m]))' + Cardinality(Attempts(m)') <= MaxFailuresPerUserIP - 1 + Cardinality(Slots)
  <2>1. Len(cleanOld(failures[m]))' <= Len(cleanOld(failures[m]))
    BY <1>3 DEF Shorter
  <2>2. CASE m = n
    BY <1>7, <1>9, <1>10, <2>1, <2>2
  <2>3. CASE m # n
    <3>1. Len(cleanOld(failures[m])) + Cardinality(Attempts(m)) <= MaxFailuresPerUserIP - 1 + Cardinality(Slots)
      BY DEF Counts, Budget
    <3>2. Cardinality(Attempts(m)) \in Nat /\ Cardinality(Attempts(m)') <= Cardinality(Attempts(m))
      BY <1>8, <2>3
    <3> QED
      BY <1>7, <1>9, <2>1, <3>1, <3>2
  <2> QED
    BY <2>2, <2>3
<1> QED
  BY <1>3, <1>11, <1>12 DEF Counts, Budget

(* A step after which the request does not wait for a verdict. *)
Settled(r) == \E q : Moves(r, q) /\ ~Waiting(q) /\ UNCHANGED <<now, limiter>>

LEMMA TakenSettles ==
    ASSUME NEW r, NEW q, Take(r, q), q.op # "login", UNCHANGED limiter
    PROVE  Settled(r)
BY DEF Take, Moves, Waiting, Settled

LEMMA ArrivesAs ==
    ASSUME Inv, NEW b \in Browsers, NEW k \in 0 .. Len(keys), NEW op \in Operations
    PROVE  Arrived(op, b, k) \in Request /\ Arrived(op, b, k).op = op
<1>1. k \in Nat
  BY DEF Inv, AccountsTypeOK
<1> QED
  BY <1>1, Arrives DEF ArrivedAs

LEMMA ArrivalSettles ==
    ASSUME Inv, NEW r \in Slots, NEW b \in Browsers, Arrival(r, b),
           ~ \E n \in Names, p \in told, right \in BOOLEAN : Login(r, b, n, p, right)
    PROVE  Settled(r)
<1>0. /\ 0 \in 0 .. Len(keys)
      /\ {"csrf", "read", "logout", "begin", "register", "passkey", "unregister", "newkey", "delkey",
          "create", "role", "delete", "force", "immediate", "kick", "password", "profile"} \subseteq Operations
  BY DEF Inv, AccountsTypeOK, Operations
<1>1. CASE GetCSRF(r, b)
  <2> DEFINE q == Arrived("csrf", b, 0)
             x == IF Cleared(b, 0) THEN q.out ELSE <<WithCaptcha(q.mem)>>
  <2>1. q \in Request /\ q.op = "csrf" /\ "csrf" # "login"
    BY <1>0, <1>1, ArrivesAs
  <2>2. Take(r, [q EXCEPT !.out = x]) /\ UNCHANGED limiter
    BY <1>1 DEF GetCSRF
  <2> HIDE DEF q, x
  <2>3. [q EXCEPT !.out = x].op = q.op
    BY <2>1 DEF Request
  <2> QED
    BY <2>1, <2>2, <2>3, TakenSettles
<1>2. ASSUME NEW k \in 0 .. Len(keys), NEW bodiless \in BOOLEAN, Read(r, b, k, bodiless)
      PROVE  Settled(r)
  <2> DEFINE q == Arrived("read", b, k)
             x == IF bodiless /\ jar[b] # NoCookie /\ ~Cleared(b, k) THEN <<q.mem>> ELSE q.out
  <2>1. q \in Request /\ q.op = "read" /\ "read" # "login"
    BY <1>0, <1>2, ArrivesAs
  <2>2. Take(r, [q EXCEPT !.out = x]) /\ UNCHANGED limiter
    BY <1>2 DEF Read
  <2> HIDE DEF q, x
  <2>3. [q EXCEPT !.out = x].op = q.op
    BY <2>1 DEF Request
  <2> QED
    BY <2>1, <2>2, <2>3, TakenSettles
<1>3. CASE Logout(r, b)
  <2> DEFINE q == Arrived("logout", b, 0)
             x == <<NoCookie>>
  <2>1. q \in Request /\ q.op = "logout" /\ "logout" # "login"
    BY <1>0, <1>3, ArrivesAs
  <2>2. Take(r, [q EXCEPT !.out = x]) /\ UNCHANGED limiter
    BY <1>3 DEF Logout
  <2> HIDE DEF q, x
  <2>3. [q EXCEPT !.out = x].op = q.op
    BY <2>1 DEF Request
  <2> QED
    BY <2>1, <2>2, <2>3, TakenSettles
<1>4. ASSUME NEW key \in SessionKeys, BeginPasskey(r, b, key)
      PROVE  Settled(r)
  <2> DEFINE q == Arrived("begin", b, 0)
             x == <<[q.mem EXCEPT !.keys = @ \cup {key}]>>
  <2>1. q \in Request /\ q.op = "begin" /\ "begin" # "login"
    BY <1>0, <1>4, ArrivesAs
  <2>2. Take(r, [q EXCEPT !.out = x]) /\ UNCHANGED limiter
    BY <1>4 DEF BeginPasskey
  <2> HIDE DEF q, x
  <2>3. [q EXCEPT !.out = x].op = q.op
    BY <2>1 DEF Request
  <2> QED
    BY <2>1, <2>2, <2>3, TakenSettles
<1>5. ASSUME NEW k \in Passkeys, FinishRegistration(r, b, k)
      PROVE  Settled(r)
  <2> DEFINE q == Arrived("register", b, 0)
             x == [q.mem EXCEPT !.keys = @ \ {"webauthn_reg"}]
  <2>1. q \in Request /\ q.op = "register" /\ "register" # "login"
    BY <1>0, <1>5, ArrivesAs
  <2>2. Take(r, [q EXCEPT !.mem = x, !.out = <<x>>, !.pk = k, !.st = "save"]) /\ UNCHANGED limiter
    BY <1>5 DEF FinishRegistration
  <2> HIDE DEF q, x
  <2>3. [q EXCEPT !.mem = x, !.out = <<x>>, !.pk = k, !.st = "save"].op = q.op
    BY <2>1 DEF Request
  <2> QED
    BY <2>1, <2>2, <2>3, TakenSettles
<1>6. ASSUME NEW k \in Passkeys, FinishPasskeyLogin(r, b, k)
      PROVE  Settled(r)
  <2> DEFINE q == Arrived("passkey", b, 0)
             x == [q.mem EXCEPT !.keys = @ \ {"webauthn_login"}]
             c == counters'[k]
  <2>1. q \in Request /\ q.op = "passkey" /\ "passkey" # "login"
    BY <1>0, <1>6, ArrivesAs
  <2>2. Take(r, [q EXCEPT !.mem = x, !.out = <<x>>, !.pk = k, !.n = c, !.st = "assert"]) /\ UNCHANGED limiter
    BY <1>6 DEF FinishPasskeyLogin
  <2> HIDE DEF q, x, c
  <2>3. [q EXCEPT !.mem = x, !.out = <<x>>, !.pk = k, !.n = c, !.st = "assert"].op = q.op
    BY <2>1 DEF Request
  <2> QED
    BY <2>1, <2>2, <2>3, TakenSettles
<1>7. ASSUME NEW k \in Passkeys, DeletePasskey(r, b, k)
      PROVE  Settled(r)
  <2> DEFINE q == Arrived("unregister", b, 0)
  <2>1. q \in Request /\ q.op = "unregister" /\ "unregister" # "login"
    BY <1>0, <1>7, ArrivesAs
  <2>2. Take(r, q) /\ UNCHANGED limiter
    BY <1>7 DEF DeletePasskey
  <2> HIDE DEF q
  <2> QED
    BY <2>1, <2>2, TakenSettles
<1>8. ASSUME NEW k \in 0 .. Len(keys), NEW until \in {0, now + 1}, CreateAPIKey(r, b, k, until)
      PROVE  Settled(r)
  <2> DEFINE q == Arrived("newkey", b, k)
  <2>1. q \in Request /\ q.op = "newkey" /\ "newkey" # "login"
    BY <1>0, <1>8, ArrivesAs
  <2>2. Take(r, q) /\ UNCHANGED limiter
    BY <1>8 DEF CreateAPIKey
  <2> HIDE DEF q
  <2> QED
    BY <2>1, <2>2, TakenSettles
<1>9. ASSUME NEW k \in 0 .. Len(keys), NEW i \in 1 .. Len(keys), DeleteAPIKey(r, b, k, i)
      PROVE  Settled(r)
  <2> DEFINE q == Arrived("delkey", b, k)
  <2>1. q \in Request /\ q.op = "delkey" /\ "delkey" # "login"
    BY <1>0, <1>9, ArrivesAs
  <2>2. Take(r, q) /\ UNCHANGED limiter
    BY <1>9 DEF DeleteAPIKey
  <2> HIDE DEF q
  <2> QED
    BY <2>1, <2>2, TakenSettles
<1>10. ASSUME NEW k \in 0 .. Len(keys), NEW n \in Names, NEW role \in Roles, CreateUser(r, b, k, n, role)
      PROVE  Settled(r)
  <2> DEFINE q == Arrived("create", b, k)
             c == passwords'
  <2>1. q \in Request /\ q.op = "create" /\ "create" # "login"
    BY <1>0, <1>10, ArrivesAs
  <2>2. Take(r, [q EXCEPT !.tell = c]) /\ UNCHANGED limiter
    BY <1>10 DEF CreateUser
  <2> HIDE DEF q, c
  <2>3. [q EXCEPT !.tell = c].op = q.op
    BY <2>1 DEF Request
  <2> QED
    BY <2>1, <2>2, <2>3, TakenSettles
<1>11. ASSUME NEW k \in 0 .. Len(keys), NEW n \in Names, NEW role \in Roles,
              NEW op \in {"role", "delete", "force", "immediate", "kick"}, Target(r, b, k, op, n, role)
      PROVE  Settled(r)
  <2> DEFINE q == Arrived(op, b, k)
             x == users[n]
             c == IF op = "force" THEN "flag" ELSE "write"
  <2>1. q \in Request /\ q.op = op /\ op # "login"
    BY <1>0, <1>11, ArrivesAs
  <2>2. Take(r, [q EXCEPT !.name = n, !.role = role, !.seen = x, !.st = c]) /\ UNCHANGED limiter
    BY <1>11 DEF Target
  <2> HIDE DEF q, x, c
  <2>3. [q EXCEPT !.name = n, !.role = role, !.seen = x, !.st = c].op = q.op
    BY <2>1 DEF Request
  <2> QED
    BY <2>1, <2>2, <2>3, TakenSettles
<1>12. ASSUME NEW k \in 0 .. Len(keys), NEW p \in told, ChangePassword(r, b, k, p)
      PROVE  Settled(r)
  <2> DEFINE q == Arrived("password", b, k)
             x == q.by.name
  <2>1. q \in Request /\ q.op = "password" /\ "password" # "login"
    BY <1>0, <1>12, ArrivesAs
  <2>2. Take(r, [q EXCEPT !.name = x, !.pw = p, !.st = "verify"]) /\ UNCHANGED limiter
    BY <1>12 DEF ChangePassword
  <2> HIDE DEF q, x
  <2>3. [q EXCEPT !.name = x, !.pw = p, !.st = "verify"].op = q.op
    BY <2>1 DEF Request
  <2> QED
    BY <2>1, <2>2, <2>3, TakenSettles
<1>13. ASSUME NEW k \in 0 .. Len(keys), UpdateProfile(r, b, k)
      PROVE  Settled(r)
  <2> DEFINE q == Arrived("profile", b, k)
  <2>1. q \in Request /\ q.op = "profile" /\ "profile" # "login"
    BY <1>0, <1>13, ArrivesAs
  <2>2. Take(r, [q EXCEPT !.st = "write"]) /\ UNCHANGED limiter
    BY <1>13 DEF UpdateProfile
  <2> HIDE DEF q
  <2>3. [q EXCEPT !.st = "write"].op = q.op
    BY <2>1 DEF Request
  <2> QED
    BY <2>1, <2>2, <2>3, TakenSettles
<1>14. "user" \in Roles
  BY DEF Roles
<1> QED
  BY <1>1, <1>2, <1>3, <1>4, <1>5, <1>6, <1>7, <1>8, <1>9, <1>10, <1>11, <1>12, <1>13, <1>14 DEF Arrival

LEMMA LoginWithin ==
    ASSUME Inv, Counts, NEW r \in Slots, NEW b \in Browsers, NEW n \in Names, NEW p \in told,
           NEW right \in BOOLEAN, Login(r, b, n, p, right)
    PROVE  Counts'
<1> DEFINE q == Arrived("login", b, 0)
           popped == [q.mem EXCEPT !.keys = @ \ {"captcha"}]
           good == right /\ "captcha" \in q.mem.keys
           next == [q EXCEPT !.name = n, !.pw = p, !.mem = popped]
           y == IF good /\ CheckAllowed(n) THEN [next EXCEPT !.st = "verify"] ELSE Refuse(next)
<1>1. Moves(r, y) /\ UNCHANGED now /\ (IF good THEN Checked(n) ELSE UNCHANGED limiter)
  BY DEF Login, Take, Moves
<1>2. good /\ CheckAllowed(n) => y.name = n
  BY DEF Arrived, Free
<1>3. ~(good /\ CheckAllowed(n)) => ~Waiting(y)
  BY DEF Refuse, Waiting, Arrived, Free
<1> HIDE DEF y, good
<1>4. CASE good /\ CheckAllowed(n)
  BY <1>1, <1>2, <1>4, AdmittedWithin
<1>5. CASE good /\ ~CheckAllowed(n)
  <2>1. LimiterTypeOK' /\ ShorterAddress /\ \A m \in Names : Shorter(m)
    BY <1>1, <1>5, CheckedShortens DEF Counts, Inv, AccountsTypeOK
  <2> QED
    BY <1>1, <1>3, <1>5, <2>1, StillWithin DEF Still
<1>6. CASE ~good
  BY <1>1, <1>3, <1>6, QuietWithin DEF Still
<1> QED
  BY <1>4, <1>5, <1>6

LEMMA VerifyWithin ==
    ASSUME Inv, Counts, NEW r \in Slots, VerifyPassword(r)
    PROVE  Counts'
<1> DEFINE q == req[r]
           row == users[q.name]
           y == [q EXCEPT !.seen = row, !.st = "gate"]
<1>1. /\ q.op = "login" /\ q.st = "verify" /\ UNCHANGED now
      /\ \/ Moves(r, y) /\ UNCHANGED limiter
         \/ Moves(r, Refuse(q)) /\ RecordFailure(q.name)
  BY DEF VerifyPassword, Step, Moves
<1>2. q \in Request /\ q.name \in Names
  BY Handled
<1>3. y.name = q.name /\ Refuse(q).st = "answer"
  BY <1>2 DEF Request, Refuse
<1>4. Waiting(q) /\ ~Waiting(Refuse(q))
  BY <1>1, <1>3 DEF Waiting
<1>5. CASE Moves(r, y) /\ UNCHANGED limiter
  BY <1>1, <1>3, <1>4, <1>5, QuietWithin DEF Still
<1>6. CASE Moves(r, Refuse(q)) /\ RecordFailure(q.name)
  BY <1>1, <1>2, <1>4, <1>6, FailureWithin
<1> QED
  BY <1>1, <1>5, <1>6

LEMMA GateWithin ==
    ASSUME Inv, Counts, NEW r \in Slots, PasskeyGate(r)
    PROVE  Counts'
<1> DEFINE q == req[r]
           on == IF q.seen.reset /\ ~IsOwner(q.seen.role) THEN "rotate" ELSE "session"
           y == [q EXCEPT !.st = on]
<1>1. /\ q.op = "login" /\ q.st = "gate" /\ UNCHANGED now
      /\ \/ Moves(r, y) /\ UNCHANGED limiter
         \/ Moves(r, Refuse(q)) /\ RecordFailure(q.name)
  BY DEF PasskeyGate, Step, Moves
<1>2. q \in Request /\ q.name \in Names
  BY Handled
<1>3. y.st = on /\ on \in {"rotate", "session"} /\ Refuse(q).st = "answer"
  BY <1>2 DEF Request, Refuse
<1>4. Waiting(q) /\ ~Waiting(Refuse(q)) /\ ~Waiting(y)
  BY <1>1, <1>3 DEF Waiting
<1>5. CASE Moves(r, y) /\ UNCHANGED limiter
  BY <1>1, <1>4, <1>5, QuietWithin DEF Still
<1>6. CASE Moves(r, Refuse(q)) /\ RecordFailure(q.name)
  BY <1>1, <1>2, <1>4, <1>6, FailureWithin
<1> QED
  BY <1>1, <1>5, <1>6

LEMMA OpenWithin ==
    ASSUME Inv, Counts, NEW r \in Slots, OpenSession(r)
    PROVE  Counts'
<1> DEFINE q == req[r]
           n == q.name
<1>1. q \in Request /\ n \in Names /\ now \in Seconds
  BY Handled DEF Inv, AccountsTypeOK
<1>2. \E y : Moves(r, y) /\ ~Waiting(y)
  <2>1. /\ ~Waiting([q EXCEPT !.st = "answer", !.out = <<NewSession(q.seen.id)>>])
        /\ ~Waiting([q EXCEPT !.st = "answer"]) /\ ~Waiting(Refuse(q))
    BY <1>1 DEF Request, Refuse, Waiting
  <2> QED
    BY <2>1 DEF OpenSession, Step, Moves
<1>3. UNCHANGED now /\ (Reset(n) \/ UNCHANGED limiter)
  BY DEF OpenSession, Step
<1>4. LimiterTypeOK' /\ ShorterAddress /\ \A m \in Names : Shorter(m)
  BY <1>1, <1>3, ResetShortens, TimeShortens DEF Counts
<1> QED
  BY <1>2, <1>3, <1>4, StillWithin DEF Still

LEMMA HandlingSettles ==
    ASSUME Inv, NEW r \in Slots, Handling(r),
           ~VerifyPassword(r), ~PasskeyGate(r), ~OpenSession(r)
    PROVE  Settled(r)
<1>0. req[r] \in Request
  BY Handled
<1> USE DEF Moves, Step, Waiting
<1>1. CASE Answer(r)
  BY <1>1 DEF Answer, Settled, Free
<1>2. CASE RotateForLogin(r)
  <2>1. UNCHANGED <<now, limiter>>
    BY <1>2 DEF RotateForLogin
  <2>2. \/ Moves(r, [req[r] EXCEPT !.st = "session", !.tell = passwords'])
        \/ Moves(r, Refuse(req[r]))
    BY <1>2 DEF RotateForLogin
  <2>3. ~Waiting([req[r] EXCEPT !.st = "session", !.tell = passwords']) /\ ~Waiting(Refuse(req[r]))
    BY <1>0 DEF Request, Refuse
  <2> QED
    BY <2>1, <2>2, <2>3 DEF Settled
<1>3. CASE SaveCredential(r)
  BY <1>0, <1>3 DEF SaveCredential, Settled, Request
<1>4. CASE ValidateAssertion(r)
  BY <1>0, <1>4 DEF ValidateAssertion, Settled, Request
<1>5. CASE PersistSignCount(r)
  BY <1>0, <1>5 DEF PersistSignCount, Settled, Request
<1>6. CASE WriteRole(r)
  BY <1>0, <1>6 DEF WriteRole, Settled, Request
<1>7. CASE WriteDelete(r)
  BY <1>0, <1>7 DEF WriteDelete, Settled, Request
<1>8. CASE WriteFlag(r)
  BY <1>0, <1>8 DEF WriteFlag, Settled, Request
<1>9. CASE WriteKick(r)
  BY <1>0, <1>9 DEF WriteKick, Settled, Request
<1>10. CASE WriteRotate(r)
  BY <1>0, <1>10 DEF WriteRotate, Settled, Request
<1>11. CASE VerifyOld(r)
  BY <1>0, <1>11 DEF VerifyOld, Settled, Request
<1>12. CASE WriteProfile(r)
  BY <1>0, <1>12 DEF WriteProfile, Settled, Request
<1> QED
  BY <1>1, <1>2, <1>3, <1>4, <1>5, <1>6, <1>7, <1>8, <1>9, <1>10, <1>11, <1>12 DEF Handling

LEMMA SettledWithin ==
    ASSUME Inv, Counts, NEW r \in Slots, Settled(r)
    PROVE  Counts'
BY QuietWithin DEF Settled, Still

LEMMA InitCounts == Init => Counts
<1> SUFFICES ASSUME Init PROVE Counts
  OBVIOUS
<1>1. /\ now = 1 /\ failures = [n \in Names |-> <<>>] /\ ipFailures = <<>>
      /\ lockouts = [n \in Names |-> 0] /\ req = [r \in Slots |-> Free]
  BY DEF Init, LimiterInit
<1>2. <<>> \in Seq(Seconds) /\ Len(<<>>) = 0
  BY EmptySeq
<1>3. LimiterTypeOK
  BY <1>1, <1>2 DEF LimiterTypeOK
<1>4. Len(cleanOld(<<>>)) = 0
  <2>1. Kept(<<>>, now) \in Seq(Seconds) /\ Len(Kept(<<>>, now)) <= 0
    BY <1>1, <1>2, KeptType
  <2> QED
    BY <2>1, LenProperties, CleanOldIsKept
<1>5. AllAttempts = {} /\ \A n \in Names : Attempts(n) = {}
  BY <1>1, FreeType DEF AllAttempts, Attempts, Waiting
<1>6. Cardinality({}) = 0
  BY FS_EmptySet
<1>7. Cardinality(Slots) \in Nat /\ MaxFailuresPerIP \in Nat \ {0} /\ MaxFailuresPerUserIP \in Nat \ {0}
  BY AttemptsFinite, LimiterAssumption
<1>8. Len(cleanOld(ipFailures)) + Cardinality(AllAttempts) <= MaxFailuresPerIP - 1 + Cardinality(Slots)
  BY <1>1, <1>4, <1>5, <1>6, <1>7
<1>9. ASSUME NEW n \in Names
      PROVE  Len(cleanOld(failures[n])) + Cardinality(Attempts(n)) <= MaxFailuresPerUserIP - 1 + Cardinality(Slots)
  <2>1. failures[n] = <<>> /\ Attempts(n) = {}
    BY <1>1, <1>5
  <2>2. Len(cleanOld(failures[n])) = 0 /\ Cardinality(Attempts(n)) = 0
    BY <1>4, <1>6, <2>1
  <2> QED
    BY <1>7, <2>2
<1> QED
  BY <1>3, <1>8, <1>9 DEF Counts, Budget

LEMMA NextCounts == Inv /\ Counts /\ [Next]_vars => Counts'
<1> SUFFICES ASSUME Inv, Counts, [Next]_vars PROVE Counts'
  OBVIOUS
<1>0. now \in Seconds /\ now \in Nat
  BY Bounds DEF Inv, AccountsTypeOK, Seconds
<1>1. ASSUME NEW r \in Slots, Handling(r) PROVE Counts'
  BY <1>1, VerifyWithin, GateWithin, OpenWithin, HandlingSettles, SettledWithin
<1>2. ASSUME NEW r \in Slots, NEW b \in Browsers, Arrival(r, b) PROVE Counts'
  BY <1>2, LoginWithin, ArrivalSettles, SettledWithin
<1>3. CASE Tick \/ UNCHANGED vars
  <2>1. now' \in {now, now + 1} /\ now' \in Seconds /\ UNCHANGED <<limiter, req>>
    BY <1>0, <1>3, Bounds DEF Tick, vars, Seconds
  <2>2. LimiterTypeOK' /\ ShorterAddress /\ \A m \in Names : Shorter(m)
    BY <1>0, <2>1, TimeShortens DEF Counts
  <2> QED
    BY <1>0, <2>1, <2>2, Within DEF AllAttempts, Attempts
<1>4. CASE Sweep
  <2>1. Cleanup /\ UNCHANGED <<now, req>>
    BY <1>4 DEF Sweep
  <2>2. LimiterTypeOK' /\ ShorterAddress /\ \A m \in Names : Shorter(m)
    BY <1>0, <2>1, CleanupShortens DEF Counts
  <2>3. now' \in Seconds
    BY <1>0, <2>1 DEF Seconds
  <2> QED
    BY <1>0, <2>1, <2>2, <2>3, Within DEF AllAttempts, Attempts
<1> QED
  BY <1>1, <1>2, <1>3, <1>4 DEF Next

LEMMA CountsInvariance == Spec => []Counts
BY InitCounts, NextCounts, Invariance, PTL DEF Spec

(* Attempts that pass CheckAllowed are counted only when they fail, so a limit    *)
(* can be passed, but by fewer failures than there are requests under way, for    *)
(* every limit, window and number of requests (ratelimit.go, postLogin).          *)
THEOREM LimitsHold == Spec => []FailuresBounded
<1>1. Inv /\ Counts => FailuresBounded
  <2> SUFFICES ASSUME Inv, Counts, NEW n \in Names
               PROVE  Len(cleanOld(failures[n])) < MaxFailuresPerUserIP + Cardinality(Slots)
    BY DEF FailuresBounded
  <2>1. Len(cleanOld(failures[n])) + Cardinality(Attempts(n)) <= MaxFailuresPerUserIP - 1 + Cardinality(Slots)
    BY DEF Counts, Budget
  <2>2. Cardinality(Attempts(n)) \in Nat /\ Cardinality(Slots) \in Nat /\ MaxFailuresPerUserIP \in Nat
    BY AttemptsFinite, LimiterAssumption
  <2>3. Len(cleanOld(failures[n])) \in Nat
    BY Lengths DEF Inv, AccountsTypeOK, Counts
  <2> QED
    BY <2>1, <2>2, <2>3
<1> QED
  BY <1>1, Invariance, CountsInvariance, PTL

(* The same of the address, whatever names are tried from it.                     *)
THEOREM AddressLimitHolds ==
    Spec => [](Len(cleanOld(ipFailures)) < MaxFailuresPerIP + Cardinality(Slots))
<1>1. Inv /\ Counts => Len(cleanOld(ipFailures)) < MaxFailuresPerIP + Cardinality(Slots)
  <2> SUFFICES ASSUME Inv, Counts
               PROVE  Len(cleanOld(ipFailures)) < MaxFailuresPerIP + Cardinality(Slots)
    OBVIOUS
  <2>1. Len(cleanOld(ipFailures)) + Cardinality(AllAttempts) <= MaxFailuresPerIP - 1 + Cardinality(Slots)
    BY DEF Counts, Budget
  <2>2. Cardinality(AllAttempts) \in Nat /\ Cardinality(Slots) \in Nat /\ MaxFailuresPerIP \in Nat
    BY AttemptsFinite, LimiterAssumption
  <2>3. Len(cleanOld(ipFailures)) \in Nat
    BY Lengths DEF Inv, AccountsTypeOK, Counts
  <2> QED
    BY <2>1, <2>2, <2>3
<1> QED
  BY <1>1, Invariance, CountsInvariance, PTL

(* Rows, passkeys, keys, cookies, requests and the limiter's lists stay of      *)
(* their types: no request writes an id or a password beyond those that were     *)
(* made, and no record of a failure is of a second that is not past.             *)
THEOREM Types == Spec => []TypeOK
<1>1. Inv /\ Counts => TypeOK
  BY DEF Inv, Counts, TypeOK
<1> QED
  BY <1>1, Invariance, CountsInvariance, PTL

(* No order of role changes, deletions and profile saves, each deciding on a    *)
(* row read before it writes, takes the first owner's row or role from it       *)
(* (updateUserRole, deleteUser and updateProfile in api/admin.go).               *)
THEOREM TheOwnerRemains == Spec => []OwnerRemains
<1>1. Inv => OwnerRemains
  BY DEF Inv
<1> QED
  BY <1>1, Invariance, PTL

(* A profile save under way when a role is given is the only thing that takes   *)
(* it away again (updateProfile writes the role its request came with).         *)
THEOREM RolesStay == Spec => []RolesAsGranted
<1>1. Inv => RolesAsGranted
  BY DEF Inv
<1> QED
  BY <1>1, Invariance, PTL

(* A session opened in a second before the last completed kick is not honoured  *)
(* (CurrentUserCtx in auth/session/session.go).                                 *)
THEOREM KicksAreKept == Spec => []KicksHold
<1>1. Inv => KicksHold
  BY DEF Inv, RequestsInv, RequestAt, KicksHold
<1> QED
  BY <1>1, Invariance, PTL

(* Every stored password was or is about to be shown, but for those of logins   *)
(* that rotated it and then failed (postLogin in api/auth.go).                  *)
THEOREM PasswordsAreShown == Spec => []PasswordsReachable
<1>1. Inv => PasswordsReachable
  BY DEF Inv
<1> QED
  BY <1>1, Invariance, PTL

=============================================================================

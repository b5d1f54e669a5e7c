----------------------------- MODULE TokenAuth -----------------------------
(***************************************************************************)
(* Who may use what: the tokens AuthService issues, the bearer middleware  *)
(* every request passes, the two guards behind it, and the block list and  *)
(* verified payloads both keep in the shared cache.  Times are in          *)
(* milliseconds; each await of the middleware is a point where other       *)
(* requests, evictions and the clock may intervene.                        *)
(***************************************************************************)
EXTENDS Integers, FiniteSets

CONSTANTS
  Requests,     \* requests to the application
  Tokens,       \* token strings
  Foreign,      \* those of them signed with someone else's secret
  Users,        \* user ids
  Roles,        \* levels of the roles users have: admin 0, paidUser 1, user 2
  Routes,       \* the kinds of route that are asked for
  OtherKeys,    \* cache keys of throttle counters and the recent list
  CacheMax,     \* the entries the cache holds
  AccessLife,   \* expiresIn of an access token
  RefreshLife,  \* expiresIn of a refresh token
  Margin,       \* how long before its expiry a payload leaves the cache
  MaxTime,      \* bound: the clock stops here
  Null

ASSUME ForeignAssumption == Foreign \subseteq Tokens
ASSUME RoleAssumption == Roles \subseteq 0 .. 2
ASSUME RouteAssumption == Routes \subseteq {"public", "guarded", "admin", "block", "rotate"}
ASSUME KeyAssumption == OtherKeys \cap ({"BLOCK_TOKEN", "TOKEN"} \X Tokens) = {}
ASSUME CacheAssumption == CacheMax \in Nat \ {0}
ASSUME TimeAssumption ==
  /\ AccessLife \in Nat \ {0} /\ RefreshLife \in Nat \ {0}
  /\ Margin \in Nat /\ MaxTime \in Nat

VARIABLES
  now,      \* Date.now()
  issued,   \* the tokens that exist
  claims,   \* the payload of each token
  until,    \* when each entry of the cache expires, 0 for no entry
  pc,       \* where each request is, or how the last one was answered
  asks,     \* its route, its bearer token and the token its body names
  user,     \* req.user: the token whose payload it is
  logins,   \* history: the roles users have logged in with
  blocked,  \* history: the tokens some token/block request has named
  standing, \* history: those whose entry was not evicted or lost since
  knew,     \* history: the requests whose token has been standing since before
            \*   they came
  overdue,  \* history: the requests whose token had expired when accepted
  late      \* history: the tokens that had expired when last cached

vars == <<now, issued, claims, until, pc, asks, user,
          logins, blocked, standing, knew, overdue, late>>

Claims == [type : {"access", "refresh", "other"}, sub : Users \cup {Null}, role : 0 .. 2, exp : Nat]
Asks   == [route : Routes, bearer : Tokens \cup {Null}, token : Tokens \cup {Null}]


ASSUME NullAssumption == Null \notin Tokens \cup Asks \cup Users

Waiting  == {"checkBlock", "checkCache", "verify", "store", "guard", "handle", "answer"}
Refused  == {"unauthorized", "forbidden"}

bearer(r) == asks[r].bearer

(* The cache.  A full cache evicts an entry for a new key: the least       *)
(* recently used one in the code, any one here.                            *)
BlockKey(t) == <<"BLOCK_TOKEN", t>>

(* A bug the checks must notice: both kinds of entry have the same key.    *)
TokenKeyShared(t) == <<"BLOCK_TOKEN", t>>

TokenKey(t) == <<"TOKEN", t>>
Keys == {"BLOCK_TOKEN", "TOKEN"} \X Tokens \cup OtherKeys

Cached(k) == until[k] > now
Entries   == {k \in Keys : Cached(k)}

Put(k, end, blocking) ==
  \E gone \in IF Cached(k) \/ Cardinality(Entries) < CacheMax
            THEN {{}} ELSE {{v} : v \in Entries} :
    LET opened == {t \in Tokens : BlockKey(t) \in gone}
    IN  /\ until' = [x \in Keys |-> IF x = k THEN end ELSE IF x \in gone THEN 0 ELSE until[x]]
        /\ standing' = (standing \ opened) \cup blocking
        /\ knew' = {r \in knew : bearer(r) \notin opened}

Expired(t) == now >= claims[t].exp

Later(time) == IF time > now THEN time ELSE now + 1

-----------------------------------------------------------------------------
Init ==
  /\ now = 0
  /\ issued = Foreign
  /\ \E type \in [Foreign -> {"access", "other"}] :
       claims = [t \in Tokens |-> IF t \in Foreign
                                   THEN [type |-> type[t], sub |-> Null, role |-> 0, exp |-> MaxTime]
                                   ELSE [type |-> "other", sub |-> Null, role |-> 0, exp |-> 0]]
  /\ until = [k \in Keys |-> 0]
  /\ pc = [r \in Requests |-> "idle"]
  /\ asks = [r \in Requests |-> Null]
  /\ user = [r \in Requests |-> Null]
  /\ logins = {} /\ blocked = {} /\ standing = {}
  /\ knew = {}
  /\ overdue = {} /\ late = {}

-----------------------------------------------------------------------------
(* issueToken.  login issues a refresh and an access token at once.        *)
Payload(type, sub, role) ==
  [type |-> type, sub |-> sub, role |-> role,
   exp |-> now + (IF type = "refresh" THEN RefreshLife ELSE AccessLife)]

Login(f, a, u, role) ==
  /\ f \notin issued /\ a \notin issued /\ f # a
  /\ issued' = issued \cup {f, a}
  /\ claims' = [claims EXCEPT ![f] = Payload("refresh", u, role),
                              ![a] = Payload("access", u, role)]
  /\ logins' = logins \cup {role}
  /\ UNCHANGED <<now, until, pc, asks, user, blocked, standing, knew, overdue, late>>

(* A request comes in, its bearer token Null if it has no such header.     *)
Request(r, route, t, named) ==
  /\ pc[r] \notin Waiting
  /\ {t, named} \subseteq issued \cup {Null}
  /\ (named = Null) = (route # "block")
  /\ asks' = [asks EXCEPT ![r] = [route |-> route, bearer |-> t, token |-> named]]
  /\ pc' = [pc EXCEPT ![r] = IF t = Null THEN "guard" ELSE "checkBlock"]
  /\ knew' = IF t \in standing THEN knew \cup {r} ELSE knew
  /\ UNCHANGED <<now, issued, claims, until, user, logins, blocked, standing,
                 overdue, late>>

(* One step of request r that changes nothing but r: it goes on, with the  *)
(* payload of its token as its user or without, or it is answered.         *)
Stays == UNCHANGED <<now, issued, claims, until, logins, blocked, standing, late>>

GoOn(r, next) ==
  /\ pc' = [pc EXCEPT ![r] = next]
  /\ UNCHANGED <<asks, user, knew, overdue>> /\ Stays

Accept(r, next) ==
  /\ pc' = [pc EXCEPT ![r] = next]
  /\ overdue' = IF Expired(bearer(r)) THEN overdue \cup {r} ELSE overdue
  /\ UNCHANGED <<asks, knew>> /\ Stays

Answer(r, how) ==
  /\ pc' = [pc EXCEPT ![r] = how]
  /\ asks' = [asks EXCEPT ![r] = Null]
  /\ user' = [user EXCEPT ![r] = Null]
  /\ knew' = knew \ {r} /\ overdue' = overdue \ {r}
  /\ Stays

CheckBlock(r) ==
  /\ pc[r] = "checkBlock"
  /\ IF Cached(BlockKey(bearer(r))) THEN Answer(r, "unauthorized") ELSE GoOn(r, "checkCache")

CheckCache(r) ==
  /\ pc[r] = "checkCache"
  /\ IF Cached(TokenKey(bearer(r)))
     THEN Accept(r, "guard") /\ user' = [user EXCEPT ![r] = bearer(r)]
     ELSE IF claims[bearer(r)].type = "other" THEN Answer(r, "unauthorized")
     ELSE GoOn(r, "verify")

(* A bug the checks must notice: the token is decoded and never verified.  *)
VerifyDecodes(r) ==
  /\ pc[r] = "verify"
  /\ IF Expired(bearer(r)) THEN Answer(r, "unauthorized")
     ELSE Accept(r, "store") /\ UNCHANGED user

(* verifyAsync: a foreign signature is caught and the request goes on with *)
(* no user; an expired token is refused.                                   *)
Verify(r) ==
  /\ pc[r] = "verify"
  /\ IF bearer(r) \in Foreign THEN GoOn(r, "guard")
     ELSE IF Expired(bearer(r)) THEN Answer(r, "unauthorized")
     ELSE Accept(r, "store") /\ UNCHANGED user

(* The payload is cached to Margin before its expiry, for 1 ms at least.   *)
StoreUntil(r, end) ==
  /\ pc[r] = "store"
  /\ Put(TokenKey(bearer(r)), end, {})
  /\ late' = IF Expired(bearer(r)) THEN late \cup {bearer(r)} ELSE late
  /\ user' = [user EXCEPT ![r] = bearer(r)]
  /\ pc' = [pc EXCEPT ![r] = "guard"]
  /\ UNCHANGED <<now, issued, claims, asks, logins, blocked, overdue>>

(* A bug the checks must notice: the lifetime is added, not what is left.  *)
StoreFresh(r) == StoreUntil(r, now + AccessLife)

Store(r) == StoreUntil(r, Later(claims[bearer(r)].exp - Margin))

(* AuthGuard and RBACGuard run in one turn: a public route passes, another *)
(* needs a user with an access token, and an admin route the admin's role. *)
Allowed(r) ==
  \/ asks[r].route = "public"
  \/ /\ user[r] # Null
     /\ claims[user[r]].type = "access"
     /\ asks[r].route = "admin" => claims[user[r]].role <= 0

Guard(r) ==
  /\ pc[r] = "guard"
  /\ IF Allowed(r) THEN GoOn(r, "handle") ELSE Answer(r, "forbidden")

(* Handlers of other components, and the return of tokenBlock.             *)
Handle(r) ==
  /\ \/ pc[r] = "handle" /\ asks[r].route \in {"public", "guarded", "admin"}
     \/ pc[r] = "answer"
  /\ Answer(r, "served")

(* tokenBlock: the entry lives as long as the token it blocks.             *)
BlockUntil(r, end) ==
  /\ pc[r] = "handle" /\ asks[r].route = "block"
  /\ Put(BlockKey(asks[r].token), end, {asks[r].token})
  /\ blocked' = blocked \cup {asks[r].token}
  /\ pc' = [pc EXCEPT ![r] = "answer"]
  /\ UNCHANGED <<now, issued, claims, asks, user, logins, overdue, late>>

(* A bug the checks must notice: the block ends when the payload's entry   *)
(* would, Margin too early.                                                *)
TokenBlockEarly(r) == BlockUntil(r, Later(claims[asks[r].token].exp - Margin))

TokenBlock(r) == BlockUntil(r, Later(claims[asks[r].token].exp))

(* rotateAccessToken: an access token like the one presented, but its sub  *)
(* is req.user._id, which no payload has.                                  *)
RotateAccessToken(r, n) ==
  /\ pc[r] = "handle" /\ asks[r].route = "rotate"
  /\ n \notin issued
  /\ issued' = issued \cup {n}
  /\ claims' = [claims EXCEPT ![n] = Payload("access", Null, claims[user[r]].role)]
  /\ pc' = [pc EXCEPT ![r] = "answer"]
  /\ UNCHANGED <<now, until, asks, user, logins, blocked, standing, knew, overdue, late>>

(* The throttle and the recent list keep entries in the same cache.        *)
OtherSet(k) ==
  /\ Put(k, MaxTime + 1, {})
  /\ UNCHANGED <<now, issued, claims, pc, asks, user, logins, blocked, overdue, late>>

(* Time passes, and the cache drops the entries whose time is over.       *)
Tick ==
  /\ now < MaxTime
  /\ now' = now + 1
  /\ until' = [k \in Keys |-> IF until[k] > now' THEN until[k] ELSE 0]
  /\ UNCHANGED <<issued, claims, pc, asks, user, logins, blocked,
                 standing, knew, overdue, late>>

(* The process ends and is started again: cache and requests are gone.     *)
Restart ==
  /\ until' = [k \in Keys |-> 0]
  /\ pc' = [r \in Requests |-> IF pc[r] \in Waiting THEN "lost" ELSE pc[r]]
  /\ asks' = [r \in Requests |-> Null]
  /\ user' = [r \in Requests |-> Null]
  /\ standing' = {} /\ knew' = {} /\ overdue' = {}
  /\ UNCHANGED <<now, issued, claims, logins, blocked, late>>

Step(r) ==
  \/ CheckBlock(r) \/ CheckCache(r) \/ Verify(r) \/ Store(r)
  \/ Guard(r) \/ Handle(r) \/ TokenBlock(r)
  \/ \E n \in Tokens : RotateAccessToken(r, n)

Next ==
  \/ \E f, a \in Tokens, u \in Users, role \in Roles : Login(f, a, u, role)
  \/ \E r \in Requests, route \in Routes, t, named \in Tokens \cup {Null} :
       Request(r, route, t, named)
  \/ \E r \in Requests : Step(r)
  \/ \E k \in OtherKeys : OtherSet(k)
  \/ Tick
  \/ Restart

Spec == Init /\ [][Next]_vars

-----------------------------------------------------------------------------
(* Every variable keeps its range.                                         *)
TypeOK ==
  /\ now \in 0 .. MaxTime
  /\ issued \in SUBSET Tokens
  /\ claims \in [Tokens -> Claims]
  /\ until \in [Keys -> Nat]
  /\ pc \in [Requests -> Waiting \cup Refused \cup {"idle", "served", "lost"}]
  /\ asks \in [Requests -> Asks \cup {Null}]
  /\ user \in [Requests -> Tokens \cup {Null}]
  /\ logins \in SUBSET Roles
  /\ blocked \in SUBSET Tokens /\ standing \in SUBSET Tokens
  /\ knew \in SUBSET Requests
  /\ overdue \in SUBSET Requests
  /\ late \in SUBSET Tokens

(* A token whose block has been answered, its entry since neither evicted  *)
(* nor lost with the process, identifies no later request, though its      *)
(* payload may be in the cache and other requests fill that cache          *)
(* meanwhile (auth.service.ts:39, bearer-token.middleware.ts:31).          *)
BlockedIdentifiesNobody ==
  \A r \in knew : user[r] # Null => user[r] \in late

(* The user of a request is the bearer of its own, genuine token, accepted *)
(* before the token expired; but a payload verified in time and cached     *)
(* late lives for the one ms Math.max leaves it                            *)
(* (bearer-token.middleware.ts:39-69).                                     *)
UserIsBearer ==
  \A r \in Requests : user[r] # Null =>
    /\ user[r] = bearer(r) /\ user[r] \in issued \ Foreign
    /\ r \in overdue => user[r] \in late

(* However tokens are rotated and cached, no request reaches the handler   *)
(* of an admin route before an admin has logged in (rbac.guard.ts:29-35).  *)
AdminNeedsAdminLogin ==
  \A r \in Requests : pc[r] = "handle" /\ asks[r].route = "admin" => 0 \in logins

(* A genuine access token nobody has asked to block opens every route that *)
(* asks for no role until it expires (auth.guard.ts:12-29).                *)
GoodTokenOpens ==
  [][\A r \in Requests :
       LET t == bearer(r)
       IN  /\ pc[r] \in Waiting /\ pc'[r] \in Refused
           /\ asks[r].route # "admin"
           /\ t # Null /\ t \notin Foreign /\ claims[t].type = "access"
           => t \in blocked \/ Expired(t)]_vars

(* What src/src/auth/auth.service.spec.ts:244-247 expects of issueToken:   *)
(* a token it issues names the user it is issued to.                       *)
TokensNameTheirUser == \A t \in issued \ Foreign : claims[t].sub # Null
=============================================================================

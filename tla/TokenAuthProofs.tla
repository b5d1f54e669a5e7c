-------------------------- MODULE TokenAuthProofs --------------------------
(***************************************************************************)
(* Proofs about TokenAuth, for any requests, tokens and users and a cache  *)
(* of any size: its types, that a standing block identifies nobody, that   *)
(* the user of a request is its bearer, that roles come from logins, that  *)
(* a good token is not refused and no other kind passes the guard, and     *)
(* that the cache keeps within its bound.                                  *)
(***************************************************************************)
EXTENDS TokenAuth, FiniteSetTheorems, TLAPS

Looking == {"checkBlock", "checkCache", "verify", "store"}
Known   == {"guard", "handle", "answer"}

(* What a request may rely on where it is: its token exists, it has a user *)
(* only past the middleware, and there every genuine bearer is its user.   *)
PlacesAgree ==
  \A r \in Requests :
    /\ pc[r] \in Waiting =>
         /\ asks[r] \in Asks
         /\ bearer(r) \in issued \cup {Null}
         /\ asks[r].route = "block" => asks[r].token \in issued
    /\ pc[r] \notin Waiting => r \notin knew
    /\ pc[r] \notin Known => user[r] = Null /\ r \notin overdue
    /\ pc[r] \in Looking => bearer(r) \in issued
    /\ pc[r] = "store" => bearer(r) \notin Foreign
    /\ pc[r] = "guard" /\ bearer(r) \in Tokens \ Foreign => user[r] = bearer(r)
    /\ pc[r] = "handle" /\ asks[r].route # "public" => user[r] # Null

(* What the cache holds: payloads of genuine tokens, gone by their expiry  *)
(* or stored late; blocks that were asked for, and that last until their   *)
(* token expires while they stand.                                         *)
CacheAgrees ==
  \A t \in Tokens :
    /\ Cached(TokenKey(t)) =>
         /\ t \in issued \ Foreign
         /\ until[TokenKey(t)] <= claims[t].exp \/ t \in late
    /\ Cached(BlockKey(t)) => t \in blocked
    /\ t \in standing =>
         /\ t \in issued
         /\ until[BlockKey(t)] >= claims[t].exp \/ Expired(t)

(* A request that came after a block gets past it with an expired token.   *)
BlocksStand ==
  \A r \in knew :
    /\ bearer(r) \in standing
    /\ pc[r] \in Looking \ {"checkBlock"} => Expired(bearer(r))

RolesFromLogins ==
  \A t \in issued \ Foreign : claims[t].role = 0 => 0 \in logins

AuthInv ==
  /\ PlacesAgree /\ CacheAgrees /\ BlocksStand /\ RolesFromLogins
  /\ BlockedIdentifiesNobody /\ UserIsBearer /\ AdminNeedsAdminLogin

IInv == TypeOK /\ AuthInv

-----------------------------------------------------------------------------
(* The keys of tokens, blocks and others never meet.                       *)
LEMMA KeyTypes ==
  ASSUME NEW t \in Tokens
  PROVE  /\ BlockKey(t) \in Keys /\ TokenKey(t) \in Keys
         /\ \A u \in Tokens : BlockKey(t) # TokenKey(u)
         /\ BlockKey(t) \notin OtherKeys /\ TokenKey(t) \notin OtherKeys
<1>1. BlockKey(t) \in {"BLOCK_TOKEN", "TOKEN"} \X Tokens
  BY DEF BlockKey
<1>2. TokenKey(t) \in {"BLOCK_TOKEN", "TOKEN"} \X Tokens
  BY DEF TokenKey
<1>3. \A u \in Tokens : BlockKey(t) # TokenKey(u)
  BY DEF BlockKey, TokenKey
<1> QED
  BY <1>1, <1>2, <1>3, KeyAssumption DEF Keys

(* A time of which something is left is kept; else 1 ms is.                *)
LEMMA LaterType ==
  ASSUME TypeOK, NEW time \in Int
  PROVE  /\ Later(time) \in Nat
         /\ Later(time) >= time
         /\ Later(time) = time \/ Later(time) = now + 1
BY TimeAssumption DEF Later, TypeOK

(* What is signed is a payload.                                            *)
LEMMA PayloadType ==
  ASSUME TypeOK, NEW type \in {"access", "refresh"}, NEW sub \in Users \cup {Null}, NEW role \in 0 .. 2
  PROVE  Payload(type, sub, role) \in Claims
BY TimeAssumption DEF Payload, Claims, TypeOK

(* An insertion touches other entries only to evict them, and a block that *)
(* still stands was not evicted.                                           *)
LEMMA PutChanges ==
  ASSUME TypeOK, NEW k \in Keys, NEW end \in Nat, NEW blocking \in SUBSET Tokens,
         Put(k, end, blocking)
  PROVE  /\ until' \in [Keys -> Nat]
         /\ until'[k] = end
         /\ \A x \in Keys : x = k \/ until'[x] = until[x] \/ until'[x] = 0
         /\ standing' \in SUBSET Tokens
         /\ blocking \subseteq standing'
         /\ \A t \in standing' \ blocking :
              /\ t \in standing
              /\ BlockKey(t) = k \/ until'[BlockKey(t)] = until[BlockKey(t)]
         /\ knew' \subseteq knew
         /\ \A r \in knew' : bearer(r) \in standing => bearer(r) \in standing'
<1>1. PICK gone : LET opened == {t \in Tokens : BlockKey(t) \in gone}
                  IN  /\ until' = [x \in Keys |-> IF x = k THEN end
                                                  ELSE IF x \in gone THEN 0 ELSE until[x]]
                      /\ standing' = (standing \ opened) \cup blocking
                      /\ knew' = {r \in knew : bearer(r) \notin opened}
  BY DEF Put
<1>2. \A t \in Tokens : BlockKey(t) \in Keys
  BY KeyTypes
<1>3. standing \in SUBSET Tokens /\ until \in [Keys -> Nat]
  BY DEF TypeOK
<1>4. until' \in [Keys -> Nat] /\ until'[k] = end
  BY <1>1, <1>3
<1>5. \A x \in Keys : x = k \/ until'[x] = until[x] \/ until'[x] = 0
  BY <1>1, <1>3
<1>6. standing' \in SUBSET Tokens /\ blocking \subseteq standing'
  BY <1>1, <1>3
<1>7. ASSUME NEW t \in standing' \ blocking
      PROVE  t \in standing /\ (BlockKey(t) = k \/ until'[BlockKey(t)] = until[BlockKey(t)])
  BY <1>1, <1>2, <1>3, <1>7
<1>8. knew' \subseteq knew
  BY <1>1
<1>9. ASSUME NEW r \in knew', bearer(r) \in standing
      PROVE  bearer(r) \in standing'
  BY <1>1, <1>9
<1> QED
  BY <1>4, <1>5, <1>6, <1>7, <1>8, <1>9

(* An insertion forgets the requests whose block it evicts, no other.      *)
LEMMA PutHistory ==
  ASSUME NEW k, NEW end, NEW blocking, Put(k, end, blocking)
  PROVE  /\ knew' \subseteq knew
         /\ \A r \in knew' : bearer(r) \in standing => bearer(r) \in standing'
BY DEF Put

(* A payload found in the cache is a genuine token's, and if that token    *)
(* has expired it was stored late.                                         *)
LEMMA CacheHit ==
  ASSUME TypeOK, CacheAgrees, NEW t \in Tokens, Cached(TokenKey(t))
  PROVE  t \in issued \ Foreign /\ (Expired(t) => t \in late)
<1>1. TokenKey(t) \in Keys
  BY KeyTypes
<1>2. until[TokenKey(t)] \in Nat /\ claims[t].exp \in Nat /\ now \in Nat
  BY <1>1, TimeAssumption DEF TypeOK, Claims
<1> QED
  BY <1>2 DEF CacheAgrees, Cached, Expired

(* A token whose block stands, but has no entry, has expired.              *)
LEMMA NoBlock ==
  ASSUME TypeOK, CacheAgrees, NEW t \in standing, ~ Cached(BlockKey(t))
  PROVE  Expired(t)
<1>1. t \in Tokens
  BY DEF TypeOK
<1>2. BlockKey(t) \in Keys
  BY <1>1, KeyTypes
<1>3. until[BlockKey(t)] \in Nat /\ claims[t].exp \in Nat /\ now \in Nat
  BY <1>1, <1>2, TimeAssumption DEF TypeOK, Claims
<1> QED
  BY <1>1, <1>3 DEF CacheAgrees, Cached, Expired

(* Every step keeps the types.                                             *)
LEMMA TypeStep ==
  ASSUME TypeOK, PlacesAgree, [Next]_vars
  PROVE  TypeOK'
<1> USE DEF TypeOK, Waiting, Refused
<1>1. CASE UNCHANGED vars
  BY <1>1 DEF vars
<1>2. ASSUME NEW f \in Tokens, NEW a \in Tokens, NEW u \in Users, NEW role \in Roles,
             Login(f, a, u, role)
      PROVE  TypeOK'
  <2>1. role \in 0 .. 2
    BY RoleAssumption
  <2>2. Payload("refresh", u, role) \in Claims /\ Payload("access", u, role) \in Claims
    BY <2>1, PayloadType
  <2> QED
    BY <1>2, <2>2 DEF Login
<1>3. ASSUME NEW r \in Requests, NEW route \in Routes,
             NEW t \in Tokens \cup {Null}, NEW named \in Tokens \cup {Null},
             Request(r, route, t, named)
      PROVE  TypeOK'
  <2>1. [route |-> route, bearer |-> t, token |-> named] \in Asks
    BY DEF Asks
  <2> QED
    BY <1>3, <2>1 DEF Request
<1>4. ASSUME NEW r \in Requests, Step(r)
      PROVE  TypeOK'
  <2>1. CASE CheckBlock(r)
    BY <2>1 DEF CheckBlock, Answer, GoOn, Stays
  <2>2. CASE CheckCache(r)
    <3>1. bearer(r) \in Tokens
      BY <2>2 DEF CheckCache, PlacesAgree, Looking
    <3> QED
      BY <2>2, <3>1 DEF CheckCache, Answer, GoOn, Accept, Stays
  <2>3. CASE Verify(r)
    BY <2>3 DEF Verify, Answer, GoOn, Accept, Stays
  <2>4. CASE Store(r)
    <3>1. pc[r] = "store"
      BY <2>4 DEF Store, StoreUntil
    <3>2. bearer(r) \in Tokens
      BY <3>1 DEF PlacesAgree, Looking
    <3>3. claims[bearer(r)].exp - Margin \in Int
      BY <3>2, TimeAssumption DEF Claims
    <3>4. PICK end \in Nat : end = Later(claims[bearer(r)].exp - Margin)
      BY <3>3, LaterType
    <3>5. TokenKey(bearer(r)) \in Keys /\ Put(TokenKey(bearer(r)), end, {})
      BY <2>4, <3>2, <3>4, KeyTypes DEF Store, StoreUntil
    <3>6. until' \in [Keys -> Nat] /\ standing' \in SUBSET Tokens /\ knew' \subseteq knew
      BY <3>5, PutChanges
    <3> QED
      BY <2>4, <3>2, <3>6 DEF Store, StoreUntil
  <2>5. CASE Guard(r)
    BY <2>5 DEF Guard, Answer, GoOn, Stays
  <2>6. CASE Handle(r)
    BY <2>6 DEF Handle, Answer, Stays
  <2>7. CASE TokenBlock(r)
    <3>1. pc[r] = "handle" /\ asks[r].route = "block"
      BY <2>7 DEF TokenBlock, BlockUntil
    <3>2. asks[r].token \in Tokens
      BY <3>1 DEF PlacesAgree
    <3>3. claims[asks[r].token].exp \in Int
      BY <3>2 DEF Claims
    <3>4. PICK end \in Nat : end = Later(claims[asks[r].token].exp)
      BY <3>3, LaterType
    <3>5. BlockKey(asks[r].token) \in Keys /\ Put(BlockKey(asks[r].token), end, {asks[r].token})
      BY <2>7, <3>2, <3>4, KeyTypes DEF TokenBlock, BlockUntil
    <3>6. until' \in [Keys -> Nat] /\ standing' \in SUBSET Tokens /\ knew' \subseteq knew
      BY <3>2, <3>5, PutChanges
    <3> QED
      BY <2>7, <3>2, <3>6 DEF TokenBlock, BlockUntil
  <2>8. ASSUME NEW n \in Tokens, RotateAccessToken(r, n)
        PROVE  TypeOK'
    <3>1. pc[r] = "handle" /\ asks[r].route = "rotate"
      BY <2>8 DEF RotateAccessToken
    <3>2. user[r] \in Tokens
      BY <3>1 DEF PlacesAgree
    <3>3. claims[user[r]].role \in 0 .. 2
      BY <3>2 DEF Claims
    <3>4. Payload("access", Null, claims[user[r]].role) \in Claims
      BY <3>3, PayloadType
    <3> QED
      BY <2>8, <3>4 DEF RotateAccessToken
  <2> QED
    BY <1>4, <2>1, <2>2, <2>3, <2>4, <2>5, <2>6, <2>7, <2>8 DEF Step
<1>5. ASSUME NEW k \in OtherKeys, OtherSet(k)
      PROVE  TypeOK'
  <2>1. k \in Keys /\ MaxTime + 1 \in Nat
    BY TimeAssumption DEF Keys
  <2>2. until' \in [Keys -> Nat] /\ standing' \in SUBSET Tokens /\ knew' \subseteq knew
    BY <1>5, <2>1, PutChanges DEF OtherSet
  <2> QED
    BY <1>5, <2>2 DEF OtherSet
<1>6. CASE Tick
  BY <1>6, TimeAssumption DEF Tick
<1>7. CASE Restart
  BY <1>7 DEF Restart
<1> QED
  BY <1>1, <1>2, <1>3, <1>4, <1>5, <1>6, <1>7 DEF Next

(* A step of one request keeps what every request may rely on.             *)
LEMMA PlacesStep ==
  ASSUME TypeOK, AuthInv, [Next]_vars
  PROVE  PlacesAgree'
<1> USE DEF TypeOK, AuthInv, PlacesAgree, Waiting, Refused, Looking, Known, bearer
<1>1. CASE UNCHANGED vars
  BY <1>1 DEF vars
<1>2. ASSUME NEW f \in Tokens, NEW a \in Tokens, NEW u \in Users, NEW role \in Roles,
             Login(f, a, u, role)
      PROVE  PlacesAgree'
  BY <1>2 DEF Login
<1>3. ASSUME NEW r \in Requests, NEW route \in Routes,
             NEW t \in Tokens \cup {Null}, NEW named \in Tokens \cup {Null},
             Request(r, route, t, named)
      PROVE  PlacesAgree'
  <2>1. [route |-> route, bearer |-> t, token |-> named] \in Asks
    BY DEF Asks
  <2> QED
    BY <1>3, <2>1, NullAssumption DEF Request
<1>4. ASSUME NEW r \in Requests, Step(r)
      PROVE  PlacesAgree'
  <2>1. CASE CheckBlock(r)
    BY <2>1 DEF CheckBlock, Answer, GoOn, Stays
  <2>2. CASE CheckCache(r)
    BY <2>2 DEF CheckCache, Answer, GoOn, Accept, Stays
  <2>3. CASE Verify(r)
    BY <2>3 DEF Verify, Answer, GoOn, Accept, Stays
  <2>4. CASE Store(r)
    <3>1. knew' \subseteq knew
      BY <2>4 DEF Store, StoreUntil, Put
    <3> QED
      BY <2>4, <3>1 DEF Store, StoreUntil
  <2>5. CASE Guard(r)
    BY <2>5 DEF Guard, Answer, GoOn, Stays, Allowed
  <2>6. CASE Handle(r)
    BY <2>6 DEF Handle, Answer, Stays
  <2>7. CASE TokenBlock(r)
    <3>1. knew' \subseteq knew
      BY <2>7 DEF TokenBlock, BlockUntil, Put
    <3> QED
      BY <2>7, <3>1 DEF TokenBlock, BlockUntil
  <2>8. ASSUME NEW n \in Tokens, RotateAccessToken(r, n)
        PROVE  PlacesAgree'
    BY <2>8 DEF RotateAccessToken
  <2> QED
    BY <1>4, <2>1, <2>2, <2>3, <2>4, <2>5, <2>6, <2>7, <2>8 DEF Step
<1>5. ASSUME NEW k \in OtherKeys, OtherSet(k)
      PROVE  PlacesAgree'
  <2>1. knew' \subseteq knew
    BY <1>5 DEF OtherSet, Put
  <2> QED
    BY <1>5, <2>1 DEF OtherSet
<1>6. CASE Tick
  BY <1>6 DEF Tick
<1>7. CASE Restart
  BY <1>7 DEF Restart
<1> QED
  BY <1>1, <1>2, <1>3, <1>4, <1>5, <1>6, <1>7 DEF Next

(* What a new entry must satisfy, wherever an insertion puts it.           *)
LEMMA PutKeepsCache ==
  ASSUME TypeOK, CacheAgrees, NEW k \in Keys, NEW end \in Nat, NEW blocking \in SUBSET issued,
         Put(k, end, blocking),
         UNCHANGED <<now, issued, claims>>, blocked \subseteq blocked', late \subseteq late',
         \A t \in Tokens : k = TokenKey(t) =>
            t \in issued \ Foreign /\ (end <= claims[t].exp \/ t \in late'),
         \A t \in Tokens : k = BlockKey(t) => t \in blocked' /\ end >= claims[t].exp,
         \A t \in blocking : k = BlockKey(t)
  PROVE  CacheAgrees'
<1> SUFFICES ASSUME NEW t \in Tokens
             PROVE  /\ Cached(TokenKey(t))' =>
                         /\ t \in (issued \ Foreign)'
                         /\ (until[TokenKey(t)] <= claims[t].exp)' \/ t \in late'
                    /\ Cached(BlockKey(t))' => t \in blocked'
                    /\ t \in standing' =>
                         /\ t \in issued'
                         /\ (until[BlockKey(t)] >= claims[t].exp)' \/ Expired(t)'
  BY DEF CacheAgrees, Cached, Expired, TokenKey, BlockKey
<1>1. /\ until' \in [Keys -> Nat] /\ until'[k] = end
      /\ \A x \in Keys : x = k \/ until'[x] = until[x] \/ until'[x] = 0
      /\ \A u \in standing' \ blocking :
            u \in standing /\ (BlockKey(u) = k \/ until'[BlockKey(u)] = until[BlockKey(u)])
  BY PutChanges DEF TypeOK
<1>2. BlockKey(t) \in Keys /\ TokenKey(t) \in Keys
  BY KeyTypes
<1>3. TokenKey(t)' = TokenKey(t) /\ BlockKey(t)' = BlockKey(t)
  BY DEF TokenKey, BlockKey
<1>4. /\ now \in Nat /\ until \in [Keys -> Nat] /\ claims[t].exp \in Nat
      /\ issued \subseteq Tokens
  BY TimeAssumption DEF TypeOK, Claims
<1>5. Cached(TokenKey(t))' =>
        t \in (issued \ Foreign)' /\ ((until[TokenKey(t)] <= claims[t].exp)' \/ t \in late')
  <2>1. CASE TokenKey(t) = k
    BY <2>1, <1>1, <1>3, <1>4
  <2>2. CASE until'[TokenKey(t)] = until[TokenKey(t)]
    BY <2>2, <1>3, <1>4 DEF CacheAgrees, Cached
  <2>3. CASE until'[TokenKey(t)] = 0
    BY <2>3, <1>3, <1>4 DEF Cached
  <2> QED
    BY <1>1, <1>2, <2>1, <2>2, <2>3
<1>6. Cached(BlockKey(t))' => t \in blocked'
  <2>1. CASE BlockKey(t) = k
    BY <2>1
  <2>2. CASE until'[BlockKey(t)] = until[BlockKey(t)]
    BY <2>2, <1>3, <1>4 DEF CacheAgrees, Cached
  <2>3. CASE until'[BlockKey(t)] = 0
    BY <2>3, <1>3, <1>4 DEF Cached
  <2> QED
    BY <1>1, <1>2, <2>1, <2>2, <2>3
<1>7. t \in standing' =>
        t \in issued' /\ ((until[BlockKey(t)] >= claims[t].exp)' \/ Expired(t)')
  <2>1. CASE BlockKey(t) = k
    BY <2>1, <1>1, <1>3, <1>4 DEF CacheAgrees
  <2>2. CASE BlockKey(t) # k
    BY <2>2, <1>1, <1>3, <1>4 DEF CacheAgrees, Expired
  <2> QED
    BY <2>1, <2>2
<1> QED
  BY <1>5, <1>6, <1>7

(* Every step keeps what the cache says of tokens and blocks true.         *)
LEMMA CacheStep ==
  ASSUME TypeOK, AuthInv, [Next]_vars
  PROVE  CacheAgrees'
<1> USE DEF AuthInv
<1> DEFINE Kept == UNCHANGED <<now, issued, claims, until, blocked, standing, late>>
<1>0. Kept => CacheAgrees'
  BY DEF CacheAgrees, Cached, Expired, TokenKey, BlockKey
<1>1. CASE UNCHANGED vars
  BY <1>0, <1>1 DEF vars
<1>2. ASSUME NEW f \in Tokens, NEW a \in Tokens, NEW u \in Users, NEW role \in Roles,
             Login(f, a, u, role)
      PROVE  CacheAgrees'
  BY <1>2 DEF Login, TypeOK, CacheAgrees, Cached, Expired, TokenKey, BlockKey
<1>3. ASSUME NEW r \in Requests, NEW route \in Routes,
             NEW t \in Tokens \cup {Null}, NEW named \in Tokens \cup {Null},
             Request(r, route, t, named)
      PROVE  CacheAgrees'
  BY <1>0, <1>3 DEF Request
<1>4. ASSUME NEW r \in Requests, Step(r)
      PROVE  CacheAgrees'
  <2>1. CASE CheckBlock(r)
    BY <1>0, <2>1 DEF CheckBlock, Answer, GoOn, Stays
  <2>2. CASE CheckCache(r)
    BY <1>0, <2>2 DEF CheckCache, Answer, GoOn, Accept, Stays
  <2>3. CASE Verify(r)
    BY <1>0, <2>3 DEF Verify, Answer, GoOn, Accept, Stays
  <2>4. CASE Store(r)
    <3>1. /\ pc[r] = "store"
          /\ UNCHANGED <<now, issued, claims, blocked>>
          /\ late' = IF Expired(bearer(r)) THEN late \cup {bearer(r)} ELSE late
      BY <2>4 DEF Store, StoreUntil
    <3>2. PICK t \in issued \ Foreign : t = bearer(r)
      BY <3>1 DEF PlacesAgree, Looking
    <3>3. /\ t \in Tokens /\ claims[t].exp \in Nat /\ now \in Nat
          /\ claims[t].exp - Margin \in Int /\ claims[t].exp - Margin <= claims[t].exp
      BY TimeAssumption DEF TypeOK, Claims
    <3>4. PICK end \in Nat : end = Later(claims[t].exp - Margin)
      BY <3>3, LaterType
    <3>5. end <= claims[t].exp \/ t \in late'
      BY <3>1, <3>2, <3>3, <3>4, LaterType DEF Expired
    <3>6. TokenKey(t) \in Keys /\ Put(TokenKey(t), end, {})
      BY <2>4, <3>2, <3>3, <3>4, KeyTypes DEF Store, StoreUntil
    <3>7. \A u \in Tokens : TokenKey(t) = TokenKey(u) => u = t
      BY DEF TokenKey
    <3>8. \A u \in Tokens : TokenKey(t) # BlockKey(u)
      BY <3>3, KeyTypes
    <3>9. late \subseteq late'
      BY <3>1
    <3> QED
      BY <3>1, <3>2, <3>5, <3>6, <3>7, <3>8, <3>9, PutKeepsCache
  <2>5. CASE Guard(r)
    BY <1>0, <2>5 DEF Guard, Answer, GoOn, Stays
  <2>6. CASE Handle(r)
    BY <1>0, <2>6 DEF Handle, Answer, Stays
  <2>7. CASE TokenBlock(r)
    <3>1. /\ pc[r] = "handle" /\ asks[r].route = "block"
          /\ UNCHANGED <<now, issued, claims, late>>
          /\ blocked' = blocked \cup {asks[r].token}
      BY <2>7 DEF TokenBlock, BlockUntil
    <3>2. PICK t \in issued : t = asks[r].token
      BY <3>1 DEF PlacesAgree, Waiting
    <3>3. t \in Tokens /\ claims[t].exp \in Nat
      BY DEF TypeOK, Claims
    <3>4. PICK end \in Nat : end = Later(claims[t].exp)
      BY <3>3, LaterType
    <3>5. end >= claims[t].exp
      BY <3>3, <3>4, LaterType
    <3>6. BlockKey(t) \in Keys /\ Put(BlockKey(t), end, {t})
      BY <2>7, <3>2, <3>3, <3>4, KeyTypes DEF TokenBlock, BlockUntil
    <3>7. \A u \in Tokens : BlockKey(t) = BlockKey(u) => u = t
      BY DEF BlockKey
    <3>8. \A u \in Tokens : BlockKey(t) # TokenKey(u)
      BY <3>3, KeyTypes
    <3> QED
      BY <3>1, <3>2, <3>5, <3>6, <3>7, <3>8, PutKeepsCache
  <2>8. ASSUME NEW n \in Tokens, RotateAccessToken(r, n)
        PROVE  CacheAgrees'
    BY <2>8 DEF RotateAccessToken, TypeOK, CacheAgrees, Cached, Expired, TokenKey, BlockKey
  <2> QED
    BY <1>4, <2>1, <2>2, <2>3, <2>4, <2>5, <2>6, <2>7, <2>8 DEF Step
<1>5. ASSUME NEW k \in OtherKeys, OtherSet(k)
      PROVE  CacheAgrees'
  <2>1. k \in Keys /\ MaxTime + 1 \in Nat
    BY TimeAssumption DEF Keys
  <2>2. \A t \in Tokens : k # TokenKey(t) /\ k # BlockKey(t)
    BY KeyTypes
  <2> QED
    BY <1>5, <2>1, <2>2, PutKeepsCache DEF OtherSet
<1>6. CASE Tick
  <2>1. /\ now \in Nat /\ until \in [Keys -> Nat]
        /\ \A t \in Tokens : claims[t].exp \in Nat
    BY TimeAssumption DEF TypeOK, Claims
  <2>2. \A t \in Tokens : BlockKey(t) \in Keys /\ TokenKey(t) \in Keys
    BY KeyTypes
  <2>3. /\ now' = now + 1 /\ UNCHANGED <<issued, claims, blocked, standing, late>>
        /\ until' = [k \in Keys |-> IF until[k] > now + 1 THEN until[k] ELSE 0]
    BY <1>6 DEF Tick
  <2>4. \A x \in Keys : IF until[x] > now + 1 THEN until'[x] = until[x] ELSE until'[x] = 0
    BY <2>1, <2>3
  <2>5. \A t \in Tokens :
          /\ IF until[TokenKey(t)] > now + 1
             THEN until'[TokenKey(t)] = until[TokenKey(t)] ELSE until'[TokenKey(t)] = 0
          /\ IF until[BlockKey(t)] > now + 1
             THEN until'[BlockKey(t)] = until[BlockKey(t)] ELSE until'[BlockKey(t)] = 0
          /\ until[TokenKey(t)] \in Nat /\ until[BlockKey(t)] \in Nat
    BY <2>1, <2>2, <2>4
  <2> QED
    BY <2>1, <2>3, <2>5 DEF CacheAgrees, Cached, Expired
<1>7. CASE Restart
  <2>1. \A t \in Tokens : BlockKey(t) \in Keys /\ TokenKey(t) \in Keys
    BY KeyTypes
  <2>2. now \in Nat
    BY TimeAssumption DEF TypeOK
  <2>3. standing' = {} /\ now' = now
    BY <1>7 DEF Restart
  <2>4. \A x \in Keys : until'[x] = 0
    BY <1>7 DEF Restart
  <2>5. \A t \in Tokens : until'[BlockKey(t)] = 0 /\ until'[TokenKey(t)] = 0
    BY <2>1, <2>4
  <2> QED
    BY <2>2, <2>3, <2>5 DEF CacheAgrees, Cached
<1> QED
  BY <1>1, <1>2, <1>3, <1>4, <1>5, <1>6, <1>7 DEF Next

(* A request that came after a block never meets a cache without it.       *)
LEMMA BlocksStep ==
  ASSUME TypeOK, AuthInv, [Next]_vars
  PROVE  BlocksStand'
<1> USE TimeAssumption DEF TypeOK, AuthInv, PlacesAgree, BlocksStand, Waiting, Looking, Known,
        Refused, bearer, Expired, Claims
<1>1. CASE UNCHANGED vars
  BY <1>1 DEF vars
<1>2. ASSUME NEW f \in Tokens, NEW a \in Tokens, NEW u \in Users, NEW role \in Roles,
             Login(f, a, u, role)
      PROVE  BlocksStand'
  BY <1>2 DEF Login, Payload
<1>3. ASSUME NEW r \in Requests, NEW route \in Routes,
             NEW t \in Tokens \cup {Null}, NEW named \in Tokens \cup {Null},
             Request(r, route, t, named)
      PROVE  BlocksStand'
  BY <1>3 DEF Request
<1>4. ASSUME NEW r \in Requests, Step(r)
      PROVE  BlocksStand'
  <2>1. CASE CheckBlock(r)
    <3>1. r \in knew /\ ~ Cached(BlockKey(bearer(r))) => Expired(bearer(r))
      BY NoBlock
    <3> QED
      BY <2>1, <3>1 DEF CheckBlock, Answer, GoOn, Stays
  <2>2. CASE CheckCache(r)
    BY <2>2 DEF CheckCache, Answer, GoOn, Accept, Stays
  <2>3. CASE Verify(r)
    BY <2>3 DEF Verify, Answer, GoOn, Accept, Stays
  <2>4. CASE Store(r)
    <3>1. knew' \subseteq knew /\ \A q \in knew' : bearer(q) \in standing => bearer(q) \in standing'
      BY <2>4, PutHistory DEF Store, StoreUntil
    <3> QED
      BY <2>4, <3>1 DEF Store, StoreUntil
  <2>5. CASE Guard(r)
    BY <2>5 DEF Guard, Allowed, Answer, GoOn, Stays
  <2>6. CASE Handle(r)
    BY <2>6 DEF Handle, Answer, Stays
  <2>7. CASE TokenBlock(r)
    <3>1. knew' \subseteq knew /\ \A q \in knew' : bearer(q) \in standing => bearer(q) \in standing'
      BY <2>7, PutHistory DEF TokenBlock, BlockUntil
    <3> QED
      BY <2>7, <3>1 DEF TokenBlock, BlockUntil
  <2>8. ASSUME NEW n \in Tokens, RotateAccessToken(r, n)
        PROVE  BlocksStand'
    BY <2>8 DEF RotateAccessToken, Payload
  <2> QED
    BY <1>4, <2>1, <2>2, <2>3, <2>4, <2>5, <2>6, <2>7, <2>8 DEF Step
<1>5. ASSUME NEW k \in OtherKeys, OtherSet(k)
      PROVE  BlocksStand'
  <2>1. knew' \subseteq knew /\ \A q \in knew' : bearer(q) \in standing => bearer(q) \in standing'
    BY <1>5, PutHistory DEF OtherSet
  <2> QED
    BY <1>5, <2>1 DEF OtherSet
<1>6. CASE Tick
  BY <1>6 DEF Tick
<1>7. CASE Restart
  BY <1>7 DEF Restart
<1> QED
  BY <1>1, <1>2, <1>3, <1>4, <1>5, <1>6, <1>7 DEF Next

(* Roles are copied from tokens to tokens and begin with a login.          *)
LEMMA RolesStep ==
  ASSUME TypeOK, AuthInv, [Next]_vars
  PROVE  RolesFromLogins'
<1> USE DEF TypeOK, AuthInv, PlacesAgree, RolesFromLogins, UserIsBearer
<1>1. CASE UNCHANGED vars
  BY <1>1 DEF vars
<1>2. ASSUME NEW f \in Tokens, NEW a \in Tokens, NEW u \in Users, NEW role \in Roles,
             Login(f, a, u, role)
      PROVE  RolesFromLogins'
  BY <1>2 DEF Login, Payload
<1>3. ASSUME NEW r \in Requests, NEW route \in Routes,
             NEW t \in Tokens \cup {Null}, NEW named \in Tokens \cup {Null},
             Request(r, route, t, named)
      PROVE  RolesFromLogins'
  BY <1>3 DEF Request
<1>4. ASSUME NEW r \in Requests, Step(r)
      PROVE  RolesFromLogins'
  <2>1. CASE CheckBlock(r)
    BY <2>1 DEF CheckBlock, Answer, GoOn, Stays
  <2>2. CASE CheckCache(r)
    BY <2>2 DEF CheckCache, Answer, GoOn, Accept, Stays
  <2>3. CASE Verify(r)
    BY <2>3 DEF Verify, Answer, GoOn, Accept, Stays
  <2>4. CASE Store(r)
    BY <2>4 DEF Store, StoreUntil
  <2>5. CASE Guard(r)
    BY <2>5 DEF Guard, Allowed, Answer, GoOn, Stays
  <2>6. CASE Handle(r)
    BY <2>6 DEF Handle, Answer, Stays
  <2>7. CASE TokenBlock(r)
    BY <2>7 DEF TokenBlock, BlockUntil
  <2>8. ASSUME NEW n \in Tokens, RotateAccessToken(r, n)
        PROVE  RolesFromLogins'
    BY <2>8 DEF RotateAccessToken, Payload
  <2> QED
    BY <1>4, <2>1, <2>2, <2>3, <2>4, <2>5, <2>6, <2>7, <2>8 DEF Step
<1>5. ASSUME NEW k \in OtherKeys, OtherSet(k)
      PROVE  RolesFromLogins'
  BY <1>5 DEF OtherSet
<1>6. CASE Tick
  BY <1>6 DEF Tick
<1>7. CASE Restart
  BY <1>7 DEF Restart
<1> QED
  BY <1>1, <1>2, <1>3, <1>4, <1>5, <1>6, <1>7 DEF Next

(* A request behind a block that stands gets its user, if at all, from a   *)
(* payload that was cached late.                                           *)
LEMMA BlockedStep ==
  ASSUME TypeOK, AuthInv, [Next]_vars
  PROVE  BlockedIdentifiesNobody'
<1> USE DEF TypeOK, AuthInv, PlacesAgree, BlocksStand, BlockedIdentifiesNobody, Waiting, Looking, Known,
        Refused, bearer
<1>1. CASE UNCHANGED vars
  BY <1>1 DEF vars
<1>2. ASSUME NEW f \in Tokens, NEW a \in Tokens, NEW u \in Users, NEW role \in Roles,
             Login(f, a, u, role)
      PROVE  BlockedIdentifiesNobody'
  BY <1>2 DEF Login, Payload
<1>3. ASSUME NEW r \in Requests, NEW route \in Routes,
             NEW t \in Tokens \cup {Null}, NEW named \in Tokens \cup {Null},
             Request(r, route, t, named)
      PROVE  BlockedIdentifiesNobody'
  BY <1>3 DEF Request
<1>4. ASSUME NEW r \in Requests, Step(r)
      PROVE  BlockedIdentifiesNobody'
  <2>1. CASE CheckBlock(r)
    BY <2>1 DEF CheckBlock, Answer, GoOn, Stays
  <2>2. CASE CheckCache(r)
    <3>1. bearer(r) \in Tokens
      BY <2>2 DEF CheckCache
    <3>2. Cached(TokenKey(bearer(r))) =>
            bearer(r) \in issued \ Foreign /\ (Expired(bearer(r)) => bearer(r) \in late)
      BY <3>1, CacheHit
    <3> QED
      BY <2>2, <3>1, <3>2 DEF CheckCache, Answer, GoOn, Accept, Stays
  <2>3. CASE Verify(r)
    BY <2>3 DEF Verify, Answer, GoOn, Accept, Stays
  <2>4. CASE Store(r)
    <3>1. knew' \subseteq knew /\ \A q \in knew' : bearer(q) \in standing => bearer(q) \in standing'
      BY <2>4, PutHistory DEF Store, StoreUntil
    <3> QED
      BY <2>4, <3>1 DEF Store, StoreUntil
  <2>5. CASE Guard(r)
    BY <2>5 DEF Guard, Allowed, Answer, GoOn, Stays
  <2>6. CASE Handle(r)
    BY <2>6 DEF Handle, Answer, Stays
  <2>7. CASE TokenBlock(r)
    <3>1. knew' \subseteq knew /\ \A q \in knew' : bearer(q) \in standing => bearer(q) \in standing'
      BY <2>7, PutHistory DEF TokenBlock, BlockUntil
    <3> QED
      BY <2>7, <3>1 DEF TokenBlock, BlockUntil
  <2>8. ASSUME NEW n \in Tokens, RotateAccessToken(r, n)
        PROVE  BlockedIdentifiesNobody'
    BY <2>8 DEF RotateAccessToken, Payload
  <2> QED
    BY <1>4, <2>1, <2>2, <2>3, <2>4, <2>5, <2>6, <2>7, <2>8 DEF Step
<1>5. ASSUME NEW k \in OtherKeys, OtherSet(k)
      PROVE  BlockedIdentifiesNobody'
  <2>1. knew' \subseteq knew /\ \A q \in knew' : bearer(q) \in standing => bearer(q) \in standing'
    BY <1>5, PutHistory DEF OtherSet
  <2> QED
    BY <1>5, <2>1 DEF OtherSet
<1>6. CASE Tick
  BY <1>6 DEF Tick
<1>7. CASE Restart
  BY <1>7 DEF Restart
<1> QED
  BY <1>1, <1>2, <1>3, <1>4, <1>5, <1>6, <1>7 DEF Next

(* A user comes from the cache or from the verification, each of which     *)
(* knows the bearer to be genuine and in time.                             *)
LEMMA BearerStep ==
  ASSUME TypeOK, AuthInv, [Next]_vars
  PROVE  UserIsBearer'
<1> USE DEF TypeOK, AuthInv, PlacesAgree, UserIsBearer, Waiting, Looking, Known,
        Refused, bearer
<1>1. CASE UNCHANGED vars
  BY <1>1 DEF vars
<1>2. ASSUME NEW f \in Tokens, NEW a \in Tokens, NEW u \in Users, NEW role \in Roles,
             Login(f, a, u, role)
      PROVE  UserIsBearer'
  BY <1>2 DEF Login, Payload
<1>3. ASSUME NEW r \in Requests, NEW route \in Routes,
             NEW t \in Tokens \cup {Null}, NEW named \in Tokens \cup {Null},
             Request(r, route, t, named)
      PROVE  UserIsBearer'
  BY <1>3 DEF Request
<1>4. ASSUME NEW r \in Requests, Step(r)
      PROVE  UserIsBearer'
  <2>1. CASE CheckBlock(r)
    BY <2>1 DEF CheckBlock, Answer, GoOn, Stays
  <2>2. CASE CheckCache(r)
    <3>1. bearer(r) \in Tokens
      BY <2>2 DEF CheckCache
    <3>2. Cached(TokenKey(bearer(r))) =>
            bearer(r) \in issued \ Foreign /\ (Expired(bearer(r)) => bearer(r) \in late)
      BY <3>1, CacheHit
    <3> QED
      BY <2>2, <3>1, <3>2 DEF CheckCache, Answer, GoOn, Accept, Stays
  <2>3. CASE Verify(r)
    BY <2>3 DEF Verify, Answer, GoOn, Accept, Stays
  <2>4. CASE Store(r)
    BY <2>4 DEF Store, StoreUntil
  <2>5. CASE Guard(r)
    BY <2>5 DEF Guard, Allowed, Answer, GoOn, Stays
  <2>6. CASE Handle(r)
    BY <2>6 DEF Handle, Answer, Stays
  <2>7. CASE TokenBlock(r)
    BY <2>7 DEF TokenBlock, BlockUntil
  <2>8. ASSUME NEW n \in Tokens, RotateAccessToken(r, n)
        PROVE  UserIsBearer'
    BY <2>8 DEF RotateAccessToken, Payload
  <2> QED
    BY <1>4, <2>1, <2>2, <2>3, <2>4, <2>5, <2>6, <2>7, <2>8 DEF Step
<1>5. ASSUME NEW k \in OtherKeys, OtherSet(k)
      PROVE  UserIsBearer'
  BY <1>5 DEF OtherSet
<1>6. CASE Tick
  BY <1>6 DEF Tick
<1>7. CASE Restart
  BY <1>7 DEF Restart
<1> QED
  BY <1>1, <1>2, <1>3, <1>4, <1>5, <1>6, <1>7 DEF Next

(* The guard lets the payload of an admin pass, which goes back to a       *)
(* login.                                                                  *)
LEMMA AdminStep ==
  ASSUME TypeOK, AuthInv, [Next]_vars
  PROVE  AdminNeedsAdminLogin'
<1> USE DEF TypeOK, AuthInv, PlacesAgree, UserIsBearer, RolesFromLogins, AdminNeedsAdminLogin
<1>1. CASE UNCHANGED vars
  BY <1>1 DEF vars
<1>2. ASSUME NEW f \in Tokens, NEW a \in Tokens, NEW u \in Users, NEW role \in Roles,
             Login(f, a, u, role)
      PROVE  AdminNeedsAdminLogin'
  BY <1>2 DEF Login, Payload
<1>3. ASSUME NEW r \in Requests, NEW route \in Routes,
             NEW t \in Tokens \cup {Null}, NEW named \in Tokens \cup {Null},
             Request(r, route, t, named)
      PROVE  AdminNeedsAdminLogin'
  BY <1>3 DEF Request
<1>4. ASSUME NEW r \in Requests, Step(r)
      PROVE  AdminNeedsAdminLogin'
  <2>1. CASE CheckBlock(r)
    BY <2>1 DEF CheckBlock, Answer, GoOn, Stays
  <2>2. CASE CheckCache(r)
    BY <2>2 DEF CheckCache, Answer, GoOn, Accept, Stays
  <2>3. CASE Verify(r)
    BY <2>3 DEF Verify, Answer, GoOn, Accept, Stays
  <2>4. CASE Store(r)
    BY <2>4 DEF Store, StoreUntil
  <2>5. CASE Guard(r)
    <3>1. user[r] \in Tokens => claims[user[r]].role \in 0 .. 2
      BY DEF Claims
    <3>2. ASSUME user[r] # Null, claims[user[r]].role <= 0
          PROVE  0 \in logins
      <4>1. user[r] \in issued \ Foreign
        BY <3>2
      <4>2. claims[user[r]].role = 0
        BY <3>1, <3>2, <4>1
      <4> QED
        BY <4>1, <4>2
    <3> QED
      BY <2>5, <3>2 DEF Guard, Allowed, Answer, GoOn, Stays
  <2>6. CASE Handle(r)
    BY <2>6 DEF Handle, Answer, Stays
  <2>7. CASE TokenBlock(r)
    BY <2>7 DEF TokenBlock, BlockUntil
  <2>8. ASSUME NEW n \in Tokens, RotateAccessToken(r, n)
        PROVE  AdminNeedsAdminLogin'
    BY <2>8 DEF RotateAccessToken, Payload
  <2> QED
    BY <1>4, <2>1, <2>2, <2>3, <2>4, <2>5, <2>6, <2>7, <2>8 DEF Step
<1>5. ASSUME NEW k \in OtherKeys, OtherSet(k)
      PROVE  AdminNeedsAdminLogin'
  BY <1>5 DEF OtherSet
<1>6. CASE Tick
  BY <1>6 DEF Tick
<1>7. CASE Restart
  BY <1>7 DEF Restart, Waiting
<1> QED
  BY <1>1, <1>2, <1>3, <1>4, <1>5, <1>6, <1>7 DEF Next

(* Types and invariant hold together, from a cold start on.                *)
LEMMA Invariance == Spec => []IInv
<1>1. Init => IInv
  <2> SUFFICES ASSUME Init PROVE IInv
    OBVIOUS
  <2>1. TypeOK
    <3>1. PICK type \in [Foreign -> {"access", "other"}] :
             claims = [t \in Tokens |-> IF t \in Foreign
                         THEN [type |-> type[t], sub |-> Null, role |-> 0, exp |-> MaxTime]
                         ELSE [type |-> "other", sub |-> Null, role |-> 0, exp |-> 0]]
      BY DEF Init
    <3>2. claims \in [Tokens -> Claims]
      BY <3>1, TimeAssumption DEF Claims
    <3> QED
      BY <3>2, ForeignAssumption, TimeAssumption DEF Init, TypeOK, Waiting, Refused
  <2>2. \A t \in Tokens : ~ Cached(TokenKey(t)) /\ ~ Cached(BlockKey(t))
    <3>1. \A k \in Keys : ~ Cached(k)
      BY DEF Init, Cached
    <3> QED
      BY <3>1, KeyTypes
  <2>3. PlacesAgree /\ CacheAgrees /\ BlocksStand /\ RolesFromLogins
    BY <2>2 DEF Init, PlacesAgree, CacheAgrees, BlocksStand, RolesFromLogins, Waiting, Looking, Known
  <2>4. BlockedIdentifiesNobody /\ UserIsBearer /\ AdminNeedsAdminLogin
    BY DEF Init, BlockedIdentifiesNobody, UserIsBearer, AdminNeedsAdminLogin
  <2> QED
    BY <2>1, <2>3, <2>4 DEF IInv, AuthInv
<1>2. IInv /\ [Next]_vars => IInv'
  <2> SUFFICES ASSUME TypeOK, AuthInv, [Next]_vars PROVE TypeOK' /\ AuthInv'
    BY DEF IInv
  <2>1. TypeOK'
    BY TypeStep DEF AuthInv
  <2> QED
    BY <2>1, PlacesStep, CacheStep, BlocksStep, RolesStep, BlockedStep, BearerStep, AdminStep
    DEF AuthInv
<1> QED
  BY <1>1, <1>2, PTL DEF Spec

(* Every variable keeps its range, whatever the cache evicts.              *)
THEOREM TypeCorrect == Spec => []TypeOK
BY Invariance, PTL DEF IInv

(* A token whose block was answered and stands identifies no later request *)
(* (auth.service.ts:39, bearer-token.middleware.ts:31).                    *)
THEOREM BlocksHold == Spec => []BlockedIdentifiesNobody
<1>1. IInv => BlockedIdentifiesNobody
  BY DEF IInv, AuthInv
<1> QED
  BY <1>1, Invariance, PTL

(* The user of a request is the bearer of its own genuine token, verified  *)
(* in time (bearer-token.middleware.ts:39-69).                             *)
THEOREM UsersAreBearers == Spec => []UserIsBearer
<1>1. IInv => UserIsBearer
  BY DEF IInv, AuthInv
<1> QED
  BY <1>1, Invariance, PTL

(* No rotation and no cached payload makes an admin (rbac.guard.ts:29-35). *)
THEOREM AdminsLoggedIn == Spec => []AdminNeedsAdminLogin
<1>1. IInv => AdminNeedsAdminLogin
  BY DEF IInv, AuthInv
<1> QED
  BY <1>1, Invariance, PTL

-----------------------------------------------------------------------------
(* One request's step refuses it only for what the property allows.        *)
LEMMA RefusalStep ==
  ASSUME TypeOK, AuthInv, [Next]_vars, NEW r \in Requests,
         pc[r] \in Waiting, pc'[r] \in Refused, asks[r].route # "admin",
         bearer(r) # Null, bearer(r) \notin Foreign, claims[bearer(r)].type = "access"
  PROVE  bearer(r) \in blocked \/ Expired(bearer(r))
<1> USE DEF TypeOK, AuthInv, PlacesAgree, Waiting, Refused, Looking, Known
<1>1. bearer(r) \in Tokens
  OBVIOUS
<1>2. ~ UNCHANGED pc
  OBVIOUS
<1>3. ASSUME NEW q \in Requests, Step(q)
      PROVE  bearer(r) \in blocked \/ Expired(bearer(r))
  <2>1. CASE CheckBlock(q)
    BY <1>1, <2>1 DEF CheckBlock, Answer, GoOn, Stays, CacheAgrees
  <2>2. CASE CheckCache(q)
    BY <2>2 DEF CheckCache, Answer, GoOn, Accept, Stays
  <2>3. CASE Verify(q)
    BY <2>3 DEF Verify, Answer, GoOn, Accept, Stays
  <2>4. CASE Store(q)
    BY <2>4 DEF Store, StoreUntil
  <2>5. CASE Guard(q)
    BY <1>1, <2>5 DEF Guard, Allowed, Answer, GoOn, Stays
  <2>6. CASE Handle(q)
    BY <2>6 DEF Handle, Answer, Stays
  <2>7. CASE TokenBlock(q)
    BY <2>7 DEF TokenBlock, BlockUntil
  <2>8. ASSUME NEW n \in Tokens, RotateAccessToken(q, n)
        PROVE  bearer(r) \in blocked \/ Expired(bearer(r))
    BY <2>8 DEF RotateAccessToken
  <2> QED
    BY <1>3, <2>1, <2>2, <2>3, <2>4, <2>5, <2>6, <2>7, <2>8 DEF Step
<1>4. CASE Restart
  BY <1>4 DEF Restart
<1>5. ASSUME NEW q \in Requests, NEW route \in Routes,
             NEW t \in Tokens \cup {Null}, NEW named \in Tokens \cup {Null},
             Request(q, route, t, named)
      PROVE  FALSE
  BY <1>5 DEF Request
<1> QED
  BY <1>2, <1>3, <1>4, <1>5 DEF Next, Login, OtherSet, Tick, vars

(* A genuine access token nobody has asked to block opens every route that *)
(* asks for no role until it expires (auth.guard.ts:12-29).                *)
THEOREM GoodTokensOpen == Spec => GoodTokenOpens
<1>1. IInv /\ [Next]_vars =>
        [\A r \in Requests :
           LET t == bearer(r)
           IN  /\ pc[r] \in Waiting /\ pc'[r] \in Refused
               /\ asks[r].route # "admin"
               /\ t # Null /\ t \notin Foreign /\ claims[t].type = "access"
               => t \in blocked \/ Expired(t)]_vars
  BY RefusalStep DEF IInv
<1> QED
  BY <1>1, Invariance, PTL DEF Spec, GoodTokenOpens


-----------------------------------------------------------------------------
(* Behind the guard a route that is not public has the payload of a        *)
(* genuine access token, whose role somebody has logged in with.           *)
RolesAreLogins == \A t \in issued \ Foreign : claims[t].role \in logins

AccessBehindGuard ==
  \A r \in Requests : pc[r] \in {"handle", "answer"} /\ asks[r].route # "public" =>
    /\ user[r] \in issued \ Foreign
    /\ claims[user[r]].type = "access" /\ claims[user[r]].role \in logins
    /\ asks[r].route = "admin" => claims[user[r]].role = 0

(* Tokens keep their payloads, so a request keeps what the guard saw.      *)
LEMMA AccessKept ==
  ASSUME TypeOK, AccessBehindGuard, NEW r \in Requests,
         issued \subseteq issued', \A t \in issued : claims'[t] = claims[t],
         logins \subseteq logins',
         pc[r] \in {"handle", "answer"}, asks[r].route # "public", user'[r] = user[r],
         asks'[r] = asks[r]
  PROVE  /\ user'[r] \in issued' \ Foreign
         /\ claims'[user'[r]].type = "access" /\ claims'[user'[r]].role \in logins'
         /\ asks'[r].route = "admin" => claims'[user'[r]].role = 0
BY DEF AccessBehindGuard

(* What exists keeps its payload, whatever happens.                        *)
LEMMA TokensKept ==
  ASSUME TypeOK, [Next]_vars
  PROVE  issued \subseteq issued' /\ logins \subseteq logins' /\ \A t \in issued : claims'[t] = claims[t]
<1> USE DEF TypeOK
<1>1. CASE \E f, a \in Tokens, u \in Users, role \in Roles : Login(f, a, u, role)
  BY <1>1 DEF Login
<1>2. CASE \E r \in Requests, n \in Tokens : RotateAccessToken(r, n)
  BY <1>2 DEF RotateAccessToken
<1>3. CASE UNCHANGED <<issued, claims, logins>>
  BY <1>3
<1> QED
  BY <1>1, <1>2, <1>3 DEF Next, Request, Step, CheckBlock, CheckCache, Verify, Store, StoreUntil,
     Guard, Handle, TokenBlock, BlockUntil, Answer, GoOn, Accept, Stays, OtherSet, Tick, Restart, vars

(* A new token has the role of a login, or of one that came from a login.  *)
LEMMA LoginRolesStep ==
  ASSUME TypeOK, AuthInv, RolesAreLogins, AccessBehindGuard, [Next]_vars
  PROVE  RolesAreLogins'
<1> USE DEF TypeOK, RolesAreLogins
<1>1. ASSUME NEW f \in Tokens, NEW a \in Tokens, NEW u \in Users, NEW role \in Roles,
             Login(f, a, u, role)
      PROVE  RolesAreLogins'
  BY <1>1 DEF Login, Payload
<1>2. ASSUME NEW r \in Requests, NEW n \in Tokens, RotateAccessToken(r, n)
      PROVE  RolesAreLogins'
  <2>1. claims[user[r]].role \in logins
    BY <1>2 DEF RotateAccessToken, AccessBehindGuard
  <2> QED
    BY <1>2, <2>1 DEF RotateAccessToken, Payload
<1>3. CASE UNCHANGED <<issued, claims, logins>>
  BY <1>3
<1> QED
  BY <1>1, <1>2, <1>3 DEF Next, Request, Step, CheckBlock, CheckCache, Verify, Store, StoreUntil,
     Guard, Handle, TokenBlock, BlockUntil, Answer, GoOn, Accept, Stays, OtherSet, Tick, Restart, vars

(* Only the guard lets a request behind it.                                *)
LEMMA AccessStep ==
  ASSUME TypeOK, AuthInv, RolesAreLogins, AccessBehindGuard, [Next]_vars
  PROVE  AccessBehindGuard'
<1> SUFFICES ASSUME NEW r \in Requests,
                    pc'[r] \in {"handle", "answer"}, asks'[r].route # "public"
             PROVE  /\ user'[r] \in issued' \ Foreign
                    /\ claims'[user'[r]].type = "access" /\ claims'[user'[r]].role \in logins'
                    /\ asks'[r].route = "admin" => claims'[user'[r]].role = 0
  BY DEF AccessBehindGuard
<1> USE DEF TypeOK
<1>1. CASE Guard(r)
  <2>1. UNCHANGED <<asks, user, issued, claims, logins>> /\ Allowed(r)
    BY <1>1 DEF Guard, GoOn, Answer, Stays
  <2>2. user[r] \in issued \ Foreign /\ claims[user[r]].type = "access"
    BY <2>1 DEF Allowed, AuthInv, UserIsBearer
  <2>3. claims[user[r]].role \in 0 .. 2 /\ claims[user[r]].role \in logins
    BY <2>2 DEF Claims, RolesAreLogins
  <2> QED
    BY <2>1, <2>2, <2>3 DEF Allowed
<1>2. CASE ~ Guard(r)
  <2>1. /\ pc[r] \in {"handle", "answer"}
        /\ user'[r] = user[r] /\ asks'[r] = asks[r]
    <3>1. ASSUME NEW q \in Requests, Step(q)
          PROVE  pc[r] \in {"handle", "answer"} /\ user'[r] = user[r] /\ asks'[r] = asks[r]
      BY <1>2, <3>1 DEF Step, CheckBlock, CheckCache, Verify, Store, StoreUntil, Guard,
         Handle, TokenBlock, BlockUntil, RotateAccessToken, Answer, GoOn, Accept
    <3>2. ASSUME NEW q \in Requests, NEW route \in Routes,
                 NEW t \in Tokens \cup {Null}, NEW named \in Tokens \cup {Null},
                 Request(q, route, t, named)
          PROVE  pc[r] \in {"handle", "answer"} /\ user'[r] = user[r] /\ asks'[r] = asks[r]
      BY <3>2 DEF Request
    <3>3. CASE Restart
      BY <3>3 DEF Restart, Waiting
    <3> QED
      BY <3>1, <3>2, <3>3 DEF Next, Login, OtherSet, Tick, vars
  <2> QED
    BY <2>1, TokensKept, AccessKept
<1> QED
  BY <1>1, <1>2

(* No refresh token, no foreign one and no role nobody logged in with gets *)
(* behind the guard: not to a handler, and not to rotateAccessToken, so    *)
(* that a chain of rotations begins and goes on with access tokens only    *)
(* (auth.guard.ts:22-28, rbac.guard.ts:29-35, auth.controller.ts:37-42).   *)
THEOREM OnlyAccessTokensPass == Spec => []AccessBehindGuard
<1>1. Init => RolesAreLogins /\ AccessBehindGuard
  BY DEF Init, RolesAreLogins, AccessBehindGuard
<1>2. IInv /\ RolesAreLogins /\ AccessBehindGuard /\ [Next]_vars
      => (RolesAreLogins /\ AccessBehindGuard)'
  BY LoginRolesStep, AccessStep DEF IInv
<1> QED
  BY <1>1, <1>2, Invariance, PTL DEF Spec

-----------------------------------------------------------------------------
(* However many requests fill it, the cache keeps within its bound.        *)
CacheIsBounded == IsFiniteSet(Entries) /\ Cardinality(Entries) <= CacheMax

(* An insertion makes room for itself when there is none.                  *)
LEMMA PutFits ==
  ASSUME TypeOK, CacheIsBounded, now' = now,
         NEW k \in Keys, NEW end \in Nat, NEW blocking, Put(k, end, blocking)
  PROVE  CacheIsBounded'
<1>1. PICK gone \in IF Cached(k) \/ Cardinality(Entries) < CacheMax
                    THEN {{}} ELSE {{v} : v \in Entries} :
               until' = [x \in Keys |-> IF x = k THEN end ELSE IF x \in gone THEN 0 ELSE until[x]]
  BY DEF Put
<1>2. now \in Nat /\ Cardinality(Entries) \in Nat /\ CacheMax \in Nat
  BY FS_CardinalityType, TimeAssumption, CacheAssumption DEF TypeOK, CacheIsBounded
<1>3. Entries' \subseteq (Entries \ gone) \cup {k}
  BY <1>1, <1>2 DEF Entries, Cached
<1>4. ASSUME NEW S, IsFiniteSet(S), Cardinality(S) <= CacheMax, Entries' \subseteq S
      PROVE  CacheIsBounded'
  <2>1. IsFiniteSet(Entries') /\ Cardinality(Entries') <= Cardinality(S)
    BY <1>4, FS_Subset
  <2>2. Cardinality(S) \in Nat /\ Cardinality(Entries') \in Nat
    BY <1>4, <2>1, FS_CardinalityType
  <2> QED
    BY <1>2, <1>4, <2>1, <2>2 DEF CacheIsBounded
<1>5. CASE Cached(k)
  <2>1. Entries' \subseteq Entries
    BY <1>3, <1>5 DEF Entries
  <2> QED
    BY <1>4, <2>1 DEF CacheIsBounded
<1>6. CASE ~ Cached(k) /\ Cardinality(Entries) < CacheMax
  <2> DEFINE S == Entries \cup {k}
  <2>1. IsFiniteSet(S) /\ Cardinality(S) = Cardinality(Entries) + 1
    BY <1>6, FS_AddElement DEF CacheIsBounded, Entries
  <2> QED
    BY <1>2, <1>3, <1>4, <1>6, <2>1
<1>7. CASE ~ Cached(k) /\ ~ Cardinality(Entries) < CacheMax
  <2>1. PICK v \in Entries : gone = {v}
    BY <1>1, <1>7
  <2> DEFINE R == Entries \ {v}
  <2>2. IsFiniteSet(R) /\ Cardinality(R) = Cardinality(Entries) - 1
    BY <2>1, FS_RemoveElement DEF CacheIsBounded
  <2>3. IsFiniteSet(R \cup {k}) /\ Cardinality(R \cup {k}) = Cardinality(R) + 1
    <3>1. k \notin R
      BY <1>7 DEF Entries
    <3> QED
      BY <2>2, <3>1, FS_AddElement
  <2> QED
    BY <1>2, <1>3, <1>4, <2>1, <2>2, <2>3 DEF CacheIsBounded
<1> QED
  BY <1>5, <1>6, <1>7

(* Nothing else opens an entry.                                            *)
LEMMA BoundedStep ==
  ASSUME TypeOK, PlacesAgree, CacheIsBounded, [Next]_vars
  PROVE  CacheIsBounded'
<1> USE DEF TypeOK
<1>1. ASSUME Entries' \subseteq Entries
      PROVE  CacheIsBounded'
  <2>1. IsFiniteSet(Entries') /\ Cardinality(Entries') <= Cardinality(Entries)
    BY <1>1, FS_Subset DEF CacheIsBounded
  <2>2. Cardinality(Entries) \in Nat /\ Cardinality(Entries') \in Nat
    BY <2>1, FS_CardinalityType DEF CacheIsBounded
  <2> QED
    BY <2>1, <2>2, CacheAssumption DEF CacheIsBounded
<1>2. ASSUME NEW r \in Requests, Store(r)
      PROVE  CacheIsBounded'
  <2>1. bearer(r) \in Tokens
    BY <1>2 DEF Store, StoreUntil, PlacesAgree, Looking
  <2>2. TokenKey(bearer(r)) \in Keys
    BY <2>1, KeyTypes
  <2>3. claims[bearer(r)].exp - Margin \in Int
    BY <2>1, TimeAssumption DEF Claims
  <2>4. Later(claims[bearer(r)].exp - Margin) \in Nat
    BY <2>3, LaterType
  <2> QED
    BY <1>2, <2>2, <2>4, PutFits DEF Store, StoreUntil
<1>3. ASSUME NEW r \in Requests, TokenBlock(r)
      PROVE  CacheIsBounded'
  <2>1. asks[r].token \in Tokens
    BY <1>3 DEF TokenBlock, BlockUntil, PlacesAgree, Waiting
  <2>2. BlockKey(asks[r].token) \in Keys
    BY <2>1, KeyTypes
  <2>3. claims[asks[r].token].exp \in Int
    BY <2>1 DEF Claims
  <2>4. Later(claims[asks[r].token].exp) \in Nat
    BY <2>3, LaterType
  <2> QED
    BY <1>3, <2>2, <2>4, PutFits DEF TokenBlock, BlockUntil
<1>4. ASSUME NEW k \in OtherKeys, OtherSet(k)
      PROVE  CacheIsBounded'
  <2>1. k \in Keys /\ MaxTime + 1 \in Nat
    BY TimeAssumption DEF Keys
  <2> QED
    BY <1>4, <2>1, PutFits DEF OtherSet
<1>5. CASE Tick
  <2>1. now \in Nat /\ now' = now + 1
    BY <1>5, TimeAssumption DEF Tick
  <2>2. Entries' \subseteq Entries
    BY <1>5, <2>1 DEF Tick, Entries, Cached
  <2> QED
    BY <1>1, <2>2
<1>6. CASE Restart
  <2>1. now \in Nat
    BY TimeAssumption
  <2>2. Entries' \subseteq Entries
    BY <1>6, <2>1 DEF Restart, Entries, Cached
  <2> QED
    BY <1>1, <2>2
<1>7. CASE UNCHANGED <<now, until>>
  BY <1>1, <1>7 DEF Entries, Cached
<1> QED
  BY <1>2, <1>3, <1>4, <1>5, <1>6, <1>7 DEF Next, Login, Request, Step, CheckBlock, CheckCache,
     Verify, Guard, Handle, RotateAccessToken, Answer, GoOn, Accept, Stays, vars

(* Payloads, blocks and whatever else is kept together never outgrow the   *)
(* cache, though an unbounded number of tokens is issued                   *)
(* (bearer-token.middleware.ts:69, auth.service.ts:39).                 *)
THEOREM CacheStaysBounded == Spec => []CacheIsBounded
<1>1. Init => CacheIsBounded
  <2> SUFFICES ASSUME Init PROVE CacheIsBounded
    OBVIOUS
  <2>1. Entries = {}
    BY DEF Init, Entries, Cached
  <2> QED
    BY <2>1, FS_EmptySet, CacheAssumption DEF CacheIsBounded
<1>2. IInv /\ CacheIsBounded /\ [Next]_vars => CacheIsBounded'
  BY BoundedStep DEF IInv, AuthInv
<1> QED
  BY <1>1, <1>2, Invariance, PTL DEF Spec

=============================================================================

-------------------------------- MODULE Chat --------------------------------
(***************************************************************************)
(* The support chat: sockets that come, are verified, join the rooms of    *)
(* their user and go; messages, each handled in a transaction that holds a *)
(* connection of the pool while some of its steps wait for another one;    *)
(* rooms made on the way, outside the transaction; and the map from users  *)
(* to sockets that all of them share.  Every await is a point where others *)
(* may run, where the database may reject what it is asked for, and where  *)
(* the socket of a message may go, whose handler then runs on unheard.     *)
(***************************************************************************)
EXTENDS Integers, FiniteSets

CONSTANTS
  Sockets,      \* sockets, each for one connection, numbered as they come
  Users,        \* the user ids of tokens
  Accounts,     \* those in the table the chat reads; none of its rows changes
  Admins,       \* the administrators among them
  TheAdmin,     \* the one findOne({ role: admin }) returns
  Brings,       \* the users whose token each socket may bring
  Messages,     \* messages, numbered as they are sent; a room bears the number
                \*   of the message that made it
  Asks,         \* the rooms messages name, None for none
  Pools,        \* how many connections to the database the pool may have
  MaxRestarts,  \* bound: how often the process starts again
  Frail,        \* bound: the messages the database may fail, per size of pool
  None

ASSUME NumberAssumption == Sockets \subseteq Nat /\ Messages \subseteq Nat
ASSUME BringsAssumption == Brings \in [Sockets -> SUBSET Users]
ASSUME AdminAssumption ==
  TheAdmin \in Admins /\ Admins \subseteq Accounts /\ Accounts \subseteq Users
ASSUME AskAssumption == Asks \subseteq Messages \cup {None}
ASSUME PoolAssumption == Pools \subseteq Nat \ {0}
ASSUME BoundAssumption == MaxRestarts \in Nat /\ Frail \in [Pools -> SUBSET Messages]
ASSUME NoneAssumption == None \notin Sockets \cup Messages \cup Users

VARIABLES
  pool,        \* how many it has
  owner,       \* the user whose token each socket has brought
  connected,   \* the sockets whose connection is up
  phase,       \* where handleConnection is for each socket
  identified,  \* the sockets with client.data.user
  clients,     \* connectedClients
  roomsRead,   \* the rooms joinUserRooms has read for a socket
  joined,      \* the rooms each socket is in
  rooms,       \* the rooms in the database
  pc,          \* where the handling of each message is
  from,        \* the socket it came from
  asked,       \* the room it names
  room,        \* chatRoom of its handler
  shown,       \* the sockets it has been emitted to
  leaked,      \* the messages whose connection nobody will release
  restarts,    \* bound: restarts so far
  early,       \* history: sockets that went while their token was verified
  met,         \* history: sockets that were there with another of their user
  together,    \* history: pairs of messages that were handled together
  premature,   \* history: messages sent before the socket was identified, or by
               \*   an administrator naming no room that exists
  failed,      \* history: messages the database rejected a step of, or could
               \*   not store
  unheard      \* history: rooms made though their making was rejected

socketVars  == <<owner, connected, phase, identified, clients, roomsRead, joined>>
messageVars == <<rooms, pc, from, asked, room, shown, leaked, failed, unheard>>
history     == <<early, met, together, premature>>
vars        == <<pool, socketVars, messageVars, restarts, history>>

Handshake == {"verifying", "reading", "joining"}
Open      == {"find", "query", "make", "announce", "save", "commit", "rollback"}
Running   == Open \cup {"begin"}
Ended     == {"stored", "refused", "lost"}

author(m)    == owner[from[m]]
IsAdmin(m)   == author(m) \in Admins
RoomUsers(r) == {author(r), TheAdmin}
RoomsOf(u)   == {r \in rooms : u \in RoomUsers(r)}

(* The pool: a message holds a connection from connect() to release(), or  *)
(* for ever.                                                               *)
Holders == {m \in Messages : pc[m] \in Open} \cup leaked
Free    == Cardinality(Holders) < pool

Present(s) == s \in connected \/ phase[s] \in Handshake

TypeOK ==
  /\ pool \in Pools
  /\ owner \in [Sockets -> Users \cup {None}]
  /\ connected \subseteq Sockets /\ identified \subseteq Sockets /\ early \subseteq Sockets
  /\ phase \in [Sockets -> {"away", "up", "closed"} \cup Handshake]
  /\ clients \in [Users -> Sockets \cup {None}]
  /\ roomsRead \in [Sockets -> SUBSET rooms] /\ joined \in [Sockets -> SUBSET rooms]
  /\ rooms \subseteq Messages
  /\ pc \in [Messages -> {"unsent"} \cup Running \cup Ended]
  /\ from \in [Messages -> Sockets \cup {None}]
  /\ asked \in [Messages -> Asks \cup {None}]
  /\ room \in [Messages -> rooms \cup {None}]
  /\ shown \in [Messages -> SUBSET Sockets]
  /\ restarts \in 0 .. MaxRestarts
  /\ met \subseteq Sockets /\ together \subseteq SUBSET Messages
  /\ premature \subseteq Messages /\ leaked \subseteq Messages
  /\ failed \subseteq Messages /\ unheard \subseteq Messages
  /\ \A s \in Sockets : phase[s] # "away" => owner[s] \in Users
  /\ \A m \in Messages : pc[m] # "unsent" => from[m] \in Sockets /\ author(m) \in Users

Init ==
  /\ pool \in Pools
  /\ owner = [s \in Sockets |-> None]
  /\ connected = {} /\ identified = {}
  /\ phase = [s \in Sockets |-> "away"]
  /\ clients = [u \in Users |-> None]
  /\ roomsRead = [s \in Sockets |-> {}] /\ joined = [s \in Sockets |-> {}]
  /\ rooms = {}
  /\ pc = [m \in Messages |-> "unsent"]
  /\ from = [m \in Messages |-> None]
  /\ asked = [m \in Messages |-> None] /\ room = [m \in Messages |-> None]
  /\ shown = [m \in Messages |-> {}]
  /\ restarts = 0
  /\ early = {} /\ met = {} /\ together = {} /\ premature = {}
  /\ leaked = {} /\ failed = {} /\ unheard = {}

(***************************************************************************)
(* Sockets.                                                                *)
(***************************************************************************)
Connect(s, u) ==
  /\ phase[s] = "away"
  /\ \A t \in Sockets : t < s => phase[t] # "away"
  /\ owner' = [owner EXCEPT ![s] = u]
  /\ phase' = [phase EXCEPT ![s] = "verifying"]
  /\ connected' = connected \cup {s}
  /\ LET others == {t \in Sockets : Present(t) /\ owner[t] = u}
     IN met' = IF others = {} THEN met ELSE met \cup others \cup {s}
  /\ UNCHANGED <<identified, clients, roomsRead, joined, messageVars, restarts, early, together, premature>>

(* A bug the checks must notice: the entry stays.                          *)
handleDisconnectKeeps(s) ==
  /\ connected' = connected \ {s}
  /\ joined' = [joined EXCEPT ![s] = {}]
  /\ clients' = clients

(* The end of a connection: the gateway's handler runs at once.            *)
handleDisconnect(s) ==
  /\ connected' = connected \ {s}
  /\ joined' = [joined EXCEPT ![s] = {}]
  /\ clients' = IF s \in identified THEN [clients EXCEPT ![owner[s]] = None] ELSE clients

Disconnect(s) ==
  /\ s \in connected
  /\ handleDisconnect(s)
  /\ early' = IF phase[s] = "verifying" THEN early \cup {s} ELSE early
  /\ UNCHANGED <<owner, phase, identified, roomsRead, messageVars, restarts, met, together, premature>>

(* client.disconnect() by the gateway does nothing to a socket that went.  *)
Expel(s) ==
  /\ phase' = [phase EXCEPT ![s] = "closed"]
  /\ roomsRead' = [roomsRead EXCEPT ![s] = {}]
  /\ IF s \in connected THEN handleDisconnect(s) ELSE UNCHANGED <<connected, joined, clients>>
  /\ UNCHANGED <<owner, identified, messageVars, restarts, history>>

TokenRefused(s) == phase[s] = "verifying" /\ Expel(s)

(* A bug the checks must notice: the socket is not registered.             *)
TokenVerifiedOnly(s) ==
  /\ phase[s] = "verifying"
  /\ phase' = [phase EXCEPT ![s] = "reading"]
  /\ identified' = identified \cup {s}
  /\ UNCHANGED <<owner, connected, clients, roomsRead, joined, messageVars, restarts, history>>

(* registerClient: the socket is not asked whether it is still there.      *)
TokenVerified(s) ==
  /\ phase[s] = "verifying"
  /\ phase' = [phase EXCEPT ![s] = "reading"]
  /\ identified' = identified \cup {s}
  /\ clients' = [clients EXCEPT ![owner[s]] = s]
  /\ UNCHANGED <<owner, connected, roomsRead, joined, messageVars, restarts, history>>

ReadRooms(s) ==
  /\ phase[s] = "reading"
  /\ Free
  /\ phase' = [phase EXCEPT ![s] = "joining"]
  /\ roomsRead' = [roomsRead EXCEPT ![s] = RoomsOf(owner[s])]
  /\ UNCHANGED <<owner, connected, identified, clients, joined, messageVars, restarts, history>>

ReadFails(s) == phase[s] = "reading" /\ Free /\ Expel(s)

(* A bug the checks must notice: rooms joined meanwhile are forgotten.     *)
JoinRoomsRead(s) ==
  /\ phase[s] = "joining"
  /\ phase' = [phase EXCEPT ![s] = "up"]
  /\ joined' = [joined EXCEPT ![s] = roomsRead[s]]
  /\ roomsRead' = [roomsRead EXCEPT ![s] = {}]
  /\ UNCHANGED <<owner, connected, identified, clients, messageVars, restarts, history>>

(* join does nothing on a socket that has gone.                            *)
JoinRooms(s) ==
  /\ phase[s] = "joining"
  /\ phase' = [phase EXCEPT ![s] = "up"]
  /\ joined' = [joined EXCEPT ![s] = IF s \in connected THEN @ \cup roomsRead[s] ELSE @]
  /\ roomsRead' = [roomsRead EXCEPT ![s] = {}]
  /\ UNCHANGED <<owner, connected, identified, clients, messageVars, restarts, history>>

(***************************************************************************)
(* Messages.  An error of the handler ends in catchError, which rolls the  *)
(* transaction back.                                                       *)
(***************************************************************************)
Send(m, s, r) ==
  /\ pc[m] = "unsent"
  /\ \A n \in Messages : n < m => pc[n] # "unsent"
  /\ s \in connected
  /\ r # None => owner[s] \in Admins   \* nobody else's room is read
  /\ pc' = [pc EXCEPT ![m] = "begin"]
  /\ from' = [from EXCEPT ![m] = s]
  /\ asked' = [asked EXCEPT ![m] = r]
  /\ together' = together \cup {{m, n} : n \in {x \in Messages : pc[x] \in Running}}
  /\ premature' = IF s \notin identified \/ (owner[s] \in Admins /\ r \notin rooms)
                  THEN premature \cup {m} ELSE premature
  /\ UNCHANGED <<socketVars, rooms, room, shown, leaked, failed, unheard, restarts, early, met>>

Go(m, step) == pc' = [pc EXCEPT ![m] = step] /\ UNCHANGED <<asked, leaked>>

(* The handler's variables go with it, and its connection, or it is kept.  *)
End(m, how, kept) ==
  /\ pc' = [pc EXCEPT ![m] = how]
  /\ asked' = [asked EXCEPT ![m] = None]
  /\ room' = [room EXCEPT ![m] = None]
  /\ leaked' = leaked \cup kept

(* What the handler throws reaches catchError; but when the socket has     *)
(* gone, the adapter (takeUntil) listens to neither end of the handler.    *)
Throw(m) == IF from[m] \in connected THEN Go(m, "rollback") /\ UNCHANGED room
            ELSE End(m, "lost", {m})

Silent == UNCHANGED <<socketVars, from, restarts, history>>
Quiet  == UNCHANGED <<failed, unheard>> /\ Silent

(* A bug the checks must notice: only sockets that have joined may send.   *)
BeginWhenUp(m) ==
  /\ pc[m] = "begin"
  /\ Free
  /\ IF from[m] \in connected /\ phase[from[m]] = "up"
     THEN Go(m, "find") /\ UNCHANGED room ELSE Throw(m)
  /\ UNCHANGED <<rooms, shown>> /\ Quiet

(* connect and startTransaction, then the handler reads client.data.user.  *)
(* Its query runner it takes from client.data too, in the turn it was put  *)
(* there.  It is not run for a socket that has gone.                       *)
Begin(m) ==
  /\ pc[m] = "begin"
  /\ Free
  /\ IF from[m] \in connected \cap identified
     THEN Go(m, "find") /\ UNCHANGED room ELSE Throw(m)
  /\ UNCHANGED <<rooms, shown>> /\ Quiet

(* The repository, unlike the query runner, takes one more connection.     *)
FindUser(m) ==
  /\ pc[m] = "find"
  /\ Free
  /\ IF author(m) \notin Accounts \/ (IsAdmin(m) /\ asked[m] = None)
     THEN Throw(m) ELSE Go(m, "query") /\ UNCHANGED room
  /\ UNCHANGED <<rooms, shown>> /\ Quiet

(* A bug the checks must notice: the room is not looked up.                *)
FindAskedRoomBlindly(m) ==
  /\ pc[m] = "query"
  /\ IsAdmin(m)
  /\ Go(m, "save")
  /\ room' = [room EXCEPT ![m] = asked[m]]
  /\ UNCHANGED <<rooms, shown>> /\ Quiet

FindAskedRoom(m) ==
  /\ pc[m] = "query"
  /\ IsAdmin(m)
  /\ Go(m, "save")
  /\ room' = [room EXCEPT ![m] = IF asked[m] \in rooms THEN asked[m] ELSE None]
  /\ UNCHANGED <<rooms, shown>> /\ Quiet

(* A bug the checks must notice: the user's rooms are not told apart.      *)
FindOwnRoomOfAny(m) ==
  /\ pc[m] = "query"
  /\ ~IsAdmin(m)
  /\ \E r \in rooms : room' = [room EXCEPT ![m] = r]
  /\ Go(m, "save")
  /\ UNCHANGED <<rooms, shown>> /\ Quiet

FindOwnRoom(m) ==
  /\ pc[m] = "query"
  /\ ~IsAdmin(m)
  /\ \E r \in RoomsOf(author(m)) : room' = [room EXCEPT ![m] = r]
  /\ Go(m, "save")
  /\ UNCHANGED <<rooms, shown>> /\ Quiet

(* A bug the checks must notice: every message makes a room.               *)
FindNoRoomEver(m) ==
  /\ pc[m] = "query"
  /\ ~IsAdmin(m)
  /\ Go(m, "make")
  /\ UNCHANGED <<rooms, room, shown>> /\ Quiet

(* Then the admin user is found, in the transaction.                       *)
FindNoRoom(m) ==
  /\ pc[m] = "query"
  /\ ~IsAdmin(m) /\ RoomsOf(author(m)) = {}
  /\ Go(m, "make")
  /\ UNCHANGED <<rooms, room, shown>> /\ Quiet

(* A bug the checks must notice: the transaction's connection is used.     *)
MakeRoomInside(m) ==
  /\ pc[m] = "make"
  /\ Go(m, "announce")
  /\ rooms' = rooms \cup {m}
  /\ room' = [room EXCEPT ![m] = m]
  /\ UNCHANGED shown /\ Quiet

(* The room is saved by the repository: over a connection of its own, and  *)
(* not in the transaction.                                                 *)
MakeRoom(m) ==
  /\ pc[m] = "make"
  /\ Free
  /\ Go(m, "announce")
  /\ rooms' = rooms \cup {m}
  /\ room' = [room EXCEPT ![m] = m]
  /\ UNCHANGED shown /\ Quiet

(* A bug the checks must notice: both people of the room must be there.    *)
AnnounceAwaited(m) ==
  /\ pc[m] = "announce"
  /\ \A u \in RoomUsers(m) : clients[u] # None
  /\ Go(m, "save")
  /\ joined' = [s \in Sockets |-> IF \E u \in RoomUsers(m) : clients[u] = s
                                  THEN joined[s] \cup {m} ELSE joined[s]]
  /\ UNCHANGED <<owner, connected, phase, identified, clients, roomsRead>>
  /\ UNCHANGED <<rooms, from, room, shown, failed, unheard, restarts, history>>

Announce(m) ==
  /\ pc[m] = "announce"
  /\ Go(m, "save")
  /\ joined' = [s \in Sockets |-> IF s \in connected /\ \E u \in RoomUsers(m) : clients[u] = s
                                  THEN joined[s] \cup {m} ELSE joined[s]]
  /\ UNCHANGED <<owner, connected, phase, identified, clients, roomsRead>>
  /\ UNCHANGED <<rooms, from, room, shown, failed, unheard, restarts, history>>

(* The chat is saved in the transaction, whose end alone others may see;   *)
(* then it is emitted to the room, but for the socket the map has for the  *)
(* author; and tap commits, if the author's socket is there still.         *)
InRoom(r) == {s \in connected : r \in joined[s]}

Done(m) == IF from[m] \in connected THEN Go(m, "commit") /\ UNCHANGED room
           ELSE End(m, "lost", {m})

(* A bug the checks must notice: the sender is not left out.               *)
EmitToAll(m) ==
  /\ pc[m] = "save"
  /\ IF clients[author(m)] = None \/ room[m] = None
     THEN Throw(m) /\ UNCHANGED shown
     ELSE Done(m) /\ shown' = [shown EXCEPT ![m] = InRoom(room[m])]
  /\ UNCHANGED rooms /\ Quiet

Emit(m) ==
  /\ pc[m] = "save"
  /\ IF clients[author(m)] = None \/ room[m] = None
     THEN Throw(m) /\ UNCHANGED shown
     ELSE Done(m) /\ shown' = [shown EXCEPT ![m] = InRoom(room[m]) \ {clients[author(m)]}]
  /\ UNCHANGED rooms /\ Quiet

(* What tap and catchError have begun does not depend on the socket.       *)
Commit(m) ==
  /\ pc[m] = "commit"
  /\ End(m, "stored", {})
  /\ UNCHANGED <<rooms, shown>> /\ Quiet

Rollback(m) ==
  /\ pc[m] = "rollback"
  /\ End(m, "refused", {})
  /\ UNCHANGED <<rooms, shown>> /\ Quiet

(***************************************************************************)
(* Rejections.  connect() leaves nothing held, startTransaction() what the *)
(* runner holds, unless the connection broke, and TypeORM lets go of it.   *)
(***************************************************************************)
Fail(m) == m \in Frail[pool] /\ failed' = failed \cup {m}

BeginFails(m) ==
  /\ pc[m] = "begin"
  /\ Free
  /\ \E kept \in {{}, {m}} : End(m, "refused", kept)
  /\ Fail(m)
  /\ UNCHANGED <<rooms, shown, unheard>> /\ Silent

(* The body is nothing the handler can take apart or the table can store,  *)
(* or one of its queries is rejected; a room may have been made even so.   *)
HandlerFails(m) ==
  /\ pc[m] \in {"begin", "find", "query", "make", "save"}
  /\ pc[m] \in {"begin", "find", "make"} => Free
  /\ pc[m] = "begin" => from[m] \in connected
  /\ Throw(m)
  /\ Fail(m)
  /\ \E made \in {{}} \cup (IF pc[m] = "make" THEN {{m}} ELSE {}) :
       rooms' = rooms \cup made /\ unheard' = unheard \cup made
  /\ UNCHANGED shown /\ Silent

(* release() is skipped.                                                   *)
RollbackFails(m) ==
  /\ pc[m] = "rollback"
  /\ End(m, "refused", {m})
  /\ UNCHANGED <<rooms, shown>> /\ Quiet

(***************************************************************************)
(* The process stops, because a commit failed, whose rejection is nobody's *)
(* since tap does not wait for it, or for another reason.  It starts again *)
(* with an empty map: the sockets are gone and the database rolls back     *)
(* what was open.  Before the first socket nobody would notice.            *)
(***************************************************************************)
Restart ==
  /\ restarts < MaxRestarts
  /\ \E s \in Sockets : phase[s] # "away"
  /\ restarts' = restarts + 1
  /\ connected' = {} /\ identified' = {}
  /\ phase' = [s \in Sockets |-> IF Present(s) THEN "closed" ELSE phase[s]]
  /\ clients' = [u \in Users |-> None]
  /\ roomsRead' = [s \in Sockets |-> {}] /\ joined' = [s \in Sockets |-> {}]
  /\ pc' = [m \in Messages |-> IF pc[m] \in Running THEN "lost" ELSE pc[m]]
  /\ asked' = [m \in Messages |-> None] /\ room' = [m \in Messages |-> None]
  /\ leaked' = {}
  /\ UNCHANGED <<owner, rooms, from, shown, failed, unheard, history>>

Handle(s) == TokenRefused(s) \/ TokenVerified(s) \/ ReadRooms(s) \/ ReadFails(s) \/ JoinRooms(s)

Works(m) ==
  \/ Begin(m) \/ FindUser(m) \/ FindAskedRoom(m) \/ FindOwnRoom(m) \/ FindNoRoom(m)
  \/ MakeRoom(m) \/ Announce(m) \/ Emit(m) \/ Commit(m) \/ Rollback(m)

Fails(m) == BeginFails(m) \/ HandlerFails(m) \/ RollbackFails(m)

createMessage(m) == Works(m) \/ Fails(m)

Step ==
  \/ \E s \in Sockets : (\E u \in Brings[s] : Connect(s, u)) \/ Disconnect(s) \/ Handle(s)
  \/ \E m \in Messages, s \in Sockets, r \in Asks : Send(m, s, r)
  \/ \E m \in Messages : createMessage(m)
  \/ Restart

Next == Step /\ UNCHANGED pool

Spec == Init /\ [][Next]_vars

(***************************************************************************)
(* Properties.                                                             *)
(***************************************************************************)
(* A socket of the map that is connected and has come all the way in is in *)
(* every room of its user, whatever rooms are made while it reads them,    *)
(* except one about to be announced to it and one whose making was         *)
(* reported as failed (chat.gateway.ts 33-36, chat.service.ts 35-45 and    *)
(* 89-100).                                                                *)
EntryKnowsItsRooms ==
  \A u \in Users : clients[u] \in connected /\ phase[clients[u]] = "up"
    => \A r \in RoomsOf(u) : \/ r \in joined[clients[u]] \cup unheard
                             \/ pc[r] = "announce"

(* Only sockets that went while their token was verified stay in the map   *)
(* after they have gone (chat.gateway.ts 18-36).                           *)
StaleEntryWentEarly ==
  \A u \in Users : clients[u] # None /\ clients[u] \notin connected => clients[u] \in early

(* A user with a socket that is up is missing from the map, or is there    *)
(* with another socket, only if two of his sockets were there together     *)
(* (chat.gateway.ts 18-24).                                                *)
MissingEntryMetAnother ==
  \A s \in connected \cap identified : clients[owner[s]] # s => s \in met

(* Two rooms of one user take two messages handled at the same time        *)
(* (chat.service.ts 81-91).                                                *)
SecondRoomNeedsRace ==
  \A r, q \in rooms : r # q /\ author(r) = author(q) => {r, q} \in together

(* A message of a known user, sent once his socket is identified and, if   *)
(* he is an administrator, to a room there is, is refused only when the    *)
(* database rejects it or another socket of his has been there with that   *)
(* one (chat.service.ts 48-64, ws-transaction.interceptor.ts 16-30).       *)
RefusalHasReason ==
  \A m \in Messages :
    pc[m] = "refused" /\ m \notin premature /\ author(m) \in Accounts
      => from[m] \in met \/ m \in failed

(* Nobody is sent his own message over the socket he sent it from, unless  *)
(* another one of his has been there with it: the socket left out is that  *)
(* of the map (chat.service.ts 62-64).                                     *)
EchoNeedsSecondSocket ==
  \A m \in Messages : from[m] \in shown[m] => from[m] \in met

(* A message is emitted only to the sockets of the two people of a room,   *)
(* of whom its author is one unless he is an administrator; a message that *)
(* was emitted while its socket was there is never refused or lost, unless *)
(* the process stops, whatever becomes of other messages; one that was     *)
(* emitted when its socket had gone is never stored; a room outlives the   *)
(* refusal of the message it was made for (chat.service.ts 47-104,         *)
(* ws-transaction.interceptor.ts 21-35).                                   *)
Desk == INSTANCE SupportDesk WITH
  Admin  <- TheAdmin,
  rooms  <- {RoomUsers(r) : r \in rooms},
  sender <- [m \in Messages |-> IF pc[m] = "unsent" THEN None ELSE author(m)],
  status <- [m \in Messages |->
              CASE pc[m] = "commit" -> "shown"
                [] pc[m] \in Running \ {"commit"} -> "sent"
                [] OTHER -> pc[m]],
  shown  <- [m \in Messages |-> {owner[s] : s \in shown[m]}],
  left   <- {m \in Messages : pc[m] # "unsent" /\ from[m] \notin connected}

ImplementsSupportDesk == Desk!Spec

(* Every message, and every socket, is waiting for a connection that       *)
(* nobody gives back: each message holds one while it asks for a second    *)
(* (chat.service.ts 48 and 89, ws-transaction.interceptor.ts 14-17), or    *)
(* has left it held (21-35).                                               *)
Wedged == ~Free /\ \A m \in Holders : m \in leaked \/ pc[m] \in {"find", "make"}

(* From there only a restart leads on.                                     *)
WedgedForGood == [][Wedged => Wedged' \/ restarts' # restarts]_vars

(* Nothing else stops the work that has begun: each message and each       *)
(* socket has a few steps to make, and as long as one has not come to its  *)
(* end some step can be made, unless the pool has run out in that way      *)
(* (ws-transaction.interceptor.ts 11-36, chat.gateway.ts 26-44).           *)
Idle == /\ \A m \in Messages : pc[m] \notin Running
        /\ \A s \in Sockets : phase[s] \notin Handshake

WorkGoesOn == \/ Idle \/ Wedged
              \/ \E s \in Sockets : ENABLED Handle(s)
              \/ \E m \in Messages : ENABLED Works(m)
=============================================================================

----------------------------- MODULE ChatProofs -----------------------------
(***************************************************************************)
(* Proofs about Chat, for any sockets, users, messages and pools: types,   *)
(* the safety properties the run checks, that a wedged pool stays so,      *)
(* takes a poolful of messages and is all that work waits for, and that    *)
(* the chat implements SupportDesk. The invariant behind them says what    *)
(* those who are there together have met, what a socket on its way in and  *)
(* a message on its way out may still expect, and that an entry of the     *)
(* map, a room and its members agree on whose they are.                    *)
(***************************************************************************)
EXTENDS Chat, FiniteSetTheorems, TLAPS

(* The map knows identified sockets of their users; nobody is in a room    *)
(* that is not his.                                                        *)
SocketsAgree ==
  /\ \A u \in Users : clients[u] # None => clients[u] \in identified /\ owner[clients[u]] = u
  /\ \A s \in identified : phase[s] \notin {"away", "verifying"}
  /\ \A s \in connected : phase[s] \notin {"away", "closed"}
  /\ \A s \in Sockets : phase[s] = "verifying" /\ s \notin connected => s \in early
  /\ \A s \in Sockets : \A r \in joined[s] \cup roomsRead[s] :
       phase[s] # "away" /\ owner[s] \in RoomUsers(r)
  /\ \A s \in Sockets : roomsRead[s] # {} => phase[s] = "joining"

(* Sockets of a user that are there together have met.                     *)
SocketsMet ==
  \A s, t \in Sockets : s # t /\ Present(s) /\ Present(t) /\ owner[s] = owner[t] => s \in met

(* Messages come from sockets that have come, and are handled for those    *)
(* that are identified, in rooms of their author; a room is made once.     *)
MessagesAgree ==
  \A m \in Messages :
    /\ pc[m] # "unsent" => phase[from[m]] # "away"
    /\ pc[m] \in Open \ {"rollback"} => from[m] \in identified
    /\ m \in rooms => pc[m] \notin {"unsent", "begin", "find", "query", "make"}
    /\ pc[m] = "announce" => m \in rooms
    /\ room[m] # None => pc[m] # "unsent" /\ author(m) \in RoomUsers(room[m]) \cup Admins
    /\ \A s \in shown[m] : pc[m] # "unsent" /\ phase[s] # "away"

(* A connection that stays held was that of a message that was refused, or *)
(* whose socket has gone.                                                  *)
LeaksAgree ==
  \A m \in leaked : pc[m] = "refused" \/ (pc[m] = "lost" /\ from[m] \notin connected)

(* Messages that are handled at the same time have met; so has one that is *)
(* about to make a room, and one whose room has come first.                *)
MessagesMet ==
  /\ \A m, n \in Messages : m # n /\ pc[m] \in Running /\ pc[n] \in Running => {m, n} \in together
  /\ \A m \in Messages, r \in rooms :
       pc[m] = "make" /\ author(r) = author(m) => {r, m} \in together

(* What a message that is not premature may expect.                        *)
Hopeful ==
  \A m \in Messages \ premature :
    /\ pc[m] = "begin" => from[m] \in identified
    /\ pc[m] \in {"begin", "find", "query"} /\ IsAdmin(m) => asked[m] \in rooms
    /\ pc[m] \in {"announce", "save"} => room[m] # None
    /\ pc[m] = "rollback" /\ author(m) \in Accounts => from[m] \in met \/ m \in failed

(* A socket of the map that has not gone knows the rooms of its user from  *)
(* the time it has read them.                                              *)
Knows(s, u) ==
  s \in connected /\ phase[s] \in {"joining", "up"} =>
    \A r \in RoomsOf(u) : r \in joined[s] \cup roomsRead[s] \cup unheard \/ pc[r] = "announce"

EntryKnows == \A u \in Users : clients[u] # None => Knows(clients[u], u)

IInv == /\ TypeOK /\ SocketsAgree /\ SocketsMet /\ MessagesAgree /\ LeaksAgree /\ MessagesMet
        /\ Hopeful /\ EntryKnows
        /\ EntryKnowsItsRooms /\ StaleEntryWentEarly /\ MissingEntryMetAnother
        /\ SecondRoomNeedsRace /\ RefusalHasReason /\ EchoNeedsSecondSocket

-----------------------------------------------------------------------------
SocketStep(s) == \/ \E u \in Brings[s] : Connect(s, u)
                 \/ Disconnect(s) \/ Handle(s)

(* A step is that of a socket or a message, a sending, or a restart.       *)
LEMMA StepCases ==
  ASSUME [Next]_vars
  PROVE  \/ UNCHANGED vars
         \/ /\ pool' = pool
            /\ \/ \E s \in Sockets : SocketStep(s)
               \/ \E m \in Messages, s \in Sockets, r \in Asks : Send(m, s, r)
               \/ \E m \in Messages : createMessage(m)
               \/ Restart
BY DEF Next, Step, SocketStep

(* A socket's step is about itself and the map.                            *)
LEMMA SocketFrame ==
  ASSUME TypeOK, NEW s \in Sockets, SocketStep(s)
  PROVE  /\ UNCHANGED <<messageVars, restarts, together, premature>>
         /\ \A t \in Sockets \ {s} :
              /\ owner'[t] = owner[t] /\ phase'[t] = phase[t] /\ joined'[t] = joined[t]
              /\ roomsRead'[t] = roomsRead[t]
              /\ t \in connected' <=> t \in connected
              /\ t \in identified' <=> t \in identified
         /\ phase[s] # "away" =>
              owner'[s] = owner[s] /\ phase'[s] # "away" /\ connected' \subseteq connected
         /\ phase[s] = "away" /\ s \notin connected => \E u \in Brings[s] : Connect(s, u)
         /\ identified \subseteq identified'
         /\ met \subseteq met' /\ early \subseteq early'
<1> USE DEF TypeOK, handleDisconnect, history, messageVars
<1>1. CASE \E u \in Brings[s] : Connect(s, u)
  BY <1>1 DEF Connect
<1>2. CASE Disconnect(s)
  BY <1>2 DEF Disconnect
<1>3. CASE TokenRefused(s) \/ ReadFails(s)
  BY <1>3 DEF TokenRefused, ReadFails, Expel
<1>4. CASE TokenVerified(s)
  BY <1>4 DEF TokenVerified
<1>5. CASE ReadRooms(s)
  BY <1>5 DEF ReadRooms
<1>6. CASE JoinRooms(s)
  BY <1>6 DEF JoinRooms
<1> QED
  BY <1>1, <1>2, <1>3, <1>4, <1>5, <1>6 DEF SocketStep, Handle

(* A step of a message is about that message.                              *)
Moves(m) == /\ pc[m] \in Running
            /\ pc' = [pc EXCEPT ![m] = pc'[m]]
            /\ \A n \in Messages \ {m} : asked'[n] = asked[n] /\ room'[n] = room[n]
            /\ pc'[m] \in Open => asked' = asked
            /\ asked' \in [Messages -> Asks \cup {None}]
            /\ leaked \subseteq leaked' /\ leaked' \subseteq leaked \cup {m}
            /\ m \in leaked' => m \in leaked \/ pc'[m] \in {"refused", "lost"}

(* A message that has come off its way is rolled back if its socket is     *)
(* there, and forgets its room when it is done with.                       *)
Off == {"rollback", "refused", "lost"}

GoesOff(m) == /\ pc'[m] = "rollback" => from[m] \in connected
              /\ pc'[m] = "lost" => from[m] \notin connected
              /\ room'[m] \in {room[m], None}
              /\ room' \in [Messages -> rooms \cup {None}]

(* So it is when the handler throws.                                       *)
LEMMA ThrowFrame ==
  ASSUME TypeOK, NEW m \in Messages, pc[m] \in Running, Throw(m)
  PROVE  Moves(m) /\ GoesOff(m) /\ pc'[m] \in {"rollback", "lost"}
<1> USE DEF Throw, Moves, GoesOff, TypeOK
<1>1. CASE from[m] \in connected
  BY <1>1 DEF Go
<1>2. CASE from[m] \notin connected
  BY <1>2 DEF End, Open
<1> QED
  BY <1>1, <1>2

(* So it is when the database rejects something, which is remembered; the  *)
(* room may have been made.                                                *)
LEMMA FailsFrame ==
  ASSUME TypeOK, NEW m \in Messages, Fails(m)
  PROVE  /\ Moves(m) /\ GoesOff(m) /\ pc'[m] \in Off
         /\ UNCHANGED <<socketVars, from, shown, restarts, history>>
         /\ pc[m] \notin {"announce", "commit"}
         /\ pc[m] \in {"begin", "find", "make"} => Free
         /\ pc[m] = "rollback" <=> RollbackFails(m)
         /\ pc'[m] = "refused" => pc[m] \in {"begin", "rollback"}
         /\ pc[m] = "rollback" => pc'[m] = "refused"
         /\ pc[m] # "rollback" => m \in failed'
         /\ failed \subseteq failed' /\ failed' \subseteq Messages
         /\ \/ rooms' = rooms /\ unheard' = unheard
            \/ pc[m] = "make" /\ rooms' = rooms \cup {m} /\ unheard' = unheard \cup {m}
<1>1. CASE BeginFails(m)
  BY <1>1 DEF BeginFails, End, Fail, Silent, RollbackFails, Moves, GoesOff, Off, Running, Open, TypeOK
<1>2. CASE HandlerFails(m)
  <2>1. pc[m] \in Running /\ Throw(m)
    BY <1>2 DEF HandlerFails, Running, Open
  <2>2. Moves(m) /\ GoesOff(m) /\ pc'[m] \in {"rollback", "lost"}
    BY <2>1, ThrowFrame
  <2> QED
    BY <1>2, <2>2 DEF HandlerFails, Fail, Silent, RollbackFails, Off, TypeOK
<1>3. CASE RollbackFails(m)
  BY <1>3 DEF RollbackFails, End, Quiet, Silent, Moves, GoesOff, Off, Running, Open, TypeOK
<1> QED
  BY <1>1, <1>2, <1>3 DEF Fails

(* The handler of a message leaves sockets alone, but for the rooms they   *)
(* are in, and other messages; each of its steps leads a few ways.         *)
LEMMA MessageFrame ==
  ASSUME TypeOK, NEW m \in Messages, createMessage(m)
  PROVE  /\ Moves(m)
         /\ UNCHANGED <<owner, connected, phase, identified, clients, roomsRead, from,
                        restarts, history>>
         /\ rooms' = rooms \/ (pc[m] = "make" /\ rooms' = rooms \cup {m})
         /\ joined' = joined \/ Announce(m)
         /\ shown' = shown \/ Emit(m)
         /\ failed \subseteq failed' /\ failed' \subseteq Messages /\ unheard \subseteq unheard'
         /\ pc[m] = "begin" => (Begin(m) /\ pc'[m] = "find") \/ (GoesOff(m) /\ pc'[m] \in Off)
         /\ pc[m] = "find" =>
              (FindUser(m) /\ pc'[m] = "query") \/ (GoesOff(m) /\ pc'[m] \in Off \ {"refused"})
         /\ pc[m] = "query" => \/ (FindAskedRoom(m) \/ FindOwnRoom(m)) /\ pc'[m] = "save"
                               \/ FindNoRoom(m) /\ pc'[m] = "make"
                               \/ GoesOff(m) /\ pc'[m] \in Off \ {"refused"}
         /\ pc[m] = "make" => \/ MakeRoom(m) /\ pc'[m] = "announce"
                              \/ /\ GoesOff(m) /\ pc'[m] \in Off \ {"refused"}
                                 /\ rooms' \subseteq rooms \cup unheard'
         /\ pc[m] = "announce" => Announce(m) /\ pc'[m] = "save"
         /\ pc[m] = "save" => \/ Emit(m) /\ pc'[m] = "commit"
                              \/ GoesOff(m) /\ pc'[m] \in Off \ {"refused"}
         /\ pc[m] = "commit" => Commit(m) /\ pc'[m] = "stored"
         /\ pc[m] = "rollback" => GoesOff(m) /\ pc'[m] = "refused"
         /\ pc[m] \in {"begin", "find", "make"} => Free
<1>0. CASE Fails(m)
  BY <1>0, FailsFrame DEF Off, socketVars, Moves, TypeOK
<1> USE DEF TypeOK, Go, Quiet, Silent, history, socketVars
<1>1. CASE Begin(m) \/ FindUser(m)
  <2>1. CASE Throw(m)
    <3>1. Moves(m) /\ GoesOff(m) /\ pc'[m] \in {"rollback", "lost"}
      BY <1>1, <2>1, ThrowFrame DEF Begin, FindUser, Running, Open
    <3> QED
      BY <1>1, <3>1 DEF Begin, FindUser, Off
  <2>2. CASE ~ Throw(m)
    BY <1>1, <2>2 DEF Begin, FindUser, Moves, Running, Open
  <2> QED
    BY <2>1, <2>2
<1>2. CASE FindAskedRoom(m) \/ FindOwnRoom(m) \/ FindNoRoom(m)
  BY <1>2 DEF FindAskedRoom, FindOwnRoom, FindNoRoom, Moves, Running, Open
<1>3. CASE MakeRoom(m)
  BY <1>3 DEF MakeRoom, Moves, Running, Open
<1>4. CASE Announce(m)
  BY <1>4 DEF Announce, Moves, Running, Open
<1>5. CASE Emit(m)
  <2>1. CASE Throw(m)
    <3>1. Moves(m) /\ GoesOff(m) /\ pc'[m] \in {"rollback", "lost"}
      BY <1>5, <2>1, ThrowFrame DEF Emit, Running, Open
    <3> QED
      BY <1>5, <3>1 DEF Emit, Off
  <2>2. CASE Done(m)
    BY <1>5, <2>2 DEF Emit, Done, End, Off, Moves, GoesOff, Running, Open
  <2> QED
    BY <1>5, <2>1, <2>2 DEF Emit
<1>6. CASE Commit(m)
  BY <1>6 DEF Commit, End, Moves, Running, Open
<1>7. CASE Rollback(m)
  BY <1>7 DEF Rollback, End, Moves, GoesOff, Running, Open
<1> QED
  BY <1>0, <1>1, <1>2, <1>3, <1>4, <1>5, <1>6, <1>7 DEF createMessage, Works

(* Wherever it is, a message's handler goes on or ends.                    *)
LEMMA MessageMoves ==
  ASSUME TypeOK, NEW m \in Messages, createMessage(m)
  PROVE  pc[m] \in Running /\ pc'[m] \in Open \cup Ended
BY MessageFrame DEF Moves, Running, Open, Ended, Off

(* A socket that has come and a message that was sent keep their user.     *)
LEMMA OwnersStay ==
  ASSUME TypeOK, SocketsAgree, MessagesAgree, [Next]_vars
  PROVE  /\ \A s \in Sockets : phase[s] # "away" => phase'[s] # "away" /\ owner'[s] = owner[s]
         /\ \A m \in Messages : pc[m] # "unsent" =>
              pc'[m] # "unsent" /\ from'[m] = from[m] /\ author(m)' = author(m)
         /\ \A r \in rooms : pc[r] # "unsent" /\ RoomUsers(r)' = RoomUsers(r)
         /\ rooms \subseteq rooms'
<1> SUFFICES /\ \A s \in Sockets : phase[s] # "away" => phase'[s] # "away" /\ owner'[s] = owner[s]
             /\ \A m \in Messages : pc[m] # "unsent" => pc'[m] # "unsent" /\ from'[m] = from[m]
             /\ rooms \subseteq rooms'
  BY DEF TypeOK, MessagesAgree, author, RoomUsers
<1>1. CASE UNCHANGED vars
  BY <1>1 DEF vars, socketVars, messageVars
<1>2. ASSUME NEW s \in Sockets, SocketStep(s)
      PROVE  /\ \A t \in Sockets : phase[t] # "away" => phase'[t] # "away" /\ owner'[t] = owner[t]
             /\ \A m \in Messages : pc[m] # "unsent" => pc'[m] # "unsent" /\ from'[m] = from[m]
             /\ rooms \subseteq rooms'
  BY <1>2, SocketFrame DEF messageVars
<1>3. ASSUME NEW m \in Messages, NEW s \in Sockets, NEW r \in Asks, Send(m, s, r)
      PROVE  /\ UNCHANGED <<phase, owner, rooms>>
             /\ \A n \in Messages : pc[n] # "unsent" => pc'[n] # "unsent" /\ from'[n] = from[n]
  BY <1>3 DEF TypeOK, Send, socketVars
<1>4. ASSUME NEW m \in Messages, createMessage(m)
      PROVE  /\ UNCHANGED <<phase, owner, from>>
             /\ \A n \in Messages : pc[n] # "unsent" => pc'[n] # "unsent"
             /\ rooms \subseteq rooms'
  BY <1>4, MessageFrame, MessageMoves DEF TypeOK, Moves, Open, Ended
<1>5. CASE Restart
  BY <1>5 DEF TypeOK, Restart, Running, Open, Present, Handshake
<1> QED
  BY <1>1, <1>2, <1>3, <1>4, <1>5, StepCases

-----------------------------------------------------------------------------
(* Types.                                                                  *)
LEMMA TypeStep ==
  ASSUME TypeOK, SocketsAgree, MessagesAgree, [Next]_vars
  PROVE  TypeOK'
<1>1. CASE UNCHANGED vars
  BY <1>1 DEF vars, socketVars, messageVars, history, TypeOK, author
<1>2. ASSUME NEW s \in Sockets, SocketStep(s), pool' = pool
      PROVE  TypeOK'
  <2>1. rooms' = rooms /\ RoomsOf(owner[s]) \subseteq rooms
    BY <1>2, SocketFrame DEF messageVars, RoomsOf
  <2>2. CASE \E u \in Brings[s] : Connect(s, u)
    <3>1. PICK u \in Users : Connect(s, u)
      BY <2>2, BringsAssumption
    <3> QED
      BY <1>2, <3>1 DEF Connect, TypeOK, messageVars, Handshake, author
  <2>3. CASE Disconnect(s) \/ TokenRefused(s) \/ ReadFails(s)
    BY <1>2, <2>3 DEF Disconnect, TokenRefused, ReadFails, Expel, handleDisconnect, TypeOK,
                      messageVars, history, author
  <2>4. CASE TokenVerified(s)
    BY <1>2, <2>4 DEF TokenVerified, TypeOK, messageVars, history, Handshake, author
  <2>5. CASE ReadRooms(s)
    BY <1>2, <2>1, <2>5 DEF ReadRooms, TypeOK, messageVars, history, Handshake, author
  <2>6. CASE JoinRooms(s)
    BY <1>2, <2>6 DEF JoinRooms, TypeOK, messageVars, history, author
  <2> QED
    BY <1>2, <2>2, <2>3, <2>4, <2>5, <2>6 DEF SocketStep, Handle
<1>3. ASSUME NEW m \in Messages, NEW s \in Sockets, NEW r \in Asks, Send(m, s, r), pool' = pool
      PROVE  TypeOK'
  <2>1. together' \subseteq SUBSET Messages
    BY <1>3 DEF Send, TypeOK
  <2>2. owner[s] \in Users
    BY <1>3 DEF Send, TypeOK, SocketsAgree
  <2> QED
    BY <1>3, <2>1, <2>2 DEF Send, TypeOK, socketVars, Running, author
<1>4. ASSUME NEW m \in Messages, createMessage(m), pool' = pool
      PROVE  TypeOK'
  <2> USE DEF TypeOK, author, history
  <2>0. Moves(m)
    BY <1>4, MessageFrame
  <2>1. /\ pc' \in [Messages -> {"unsent"} \cup Running \cup Ended]
        /\ \A n \in Messages : pc'[n] # "unsent" => pc[n] # "unsent"
    BY <1>4, <2>0, MessageMoves DEF Moves, Open, Running, Ended
  <2>2. room' \in [Messages -> rooms' \cup {None}]
    <3>1. CASE GoesOff(m)
      BY <1>4, <3>1, MessageFrame DEF GoesOff
    <3>2. CASE pc[m] \in {"begin", "find", "query", "commit"} /\ ~ GoesOff(m)
      BY <1>4, <3>2, MessageFrame
         DEF Begin, FindUser, FindAskedRoom, FindOwnRoom, FindNoRoom, RoomsOf, Commit, End, Throw, Quiet
    <3>3. CASE pc[m] \in {"make", "announce"} /\ ~ GoesOff(m)
      BY <1>4, <3>3, MessageFrame DEF MakeRoom, Announce
    <3>4. CASE pc[m] = "save" /\ ~ GoesOff(m)
      BY <1>4, <3>4, MessageFrame DEF Emit, Throw, Done, Go, End
    <3> QED
      BY <1>4, <2>0, <3>1, <3>2, <3>3, <3>4, MessageFrame DEF Moves, Running, Open
  <2>3. joined' \in [Sockets -> SUBSET rooms']
    BY <1>4, MessageFrame DEF Announce, MessagesAgree
  <2>4. shown' \in [Messages -> SUBSET Sockets]
    BY <1>4, MessageFrame DEF Emit, InRoom
  <2>5. rooms' \subseteq Messages /\ roomsRead' \in [Sockets -> SUBSET rooms']
    BY <1>4, MessageFrame
  <2>6. failed' \subseteq Messages /\ unheard' \subseteq Messages
    BY <1>4, MessageFrame, FailsFrame
       DEF createMessage, Works, Begin, FindUser, FindAskedRoom, FindOwnRoom, FindNoRoom, MakeRoom,
           Announce, Emit, Commit, Rollback, Quiet
  <2>7. leaked' \subseteq Messages /\ asked' \in [Messages -> Asks \cup {None}]
    BY <2>0 DEF Moves
  <2> QED
    BY <1>4, <2>1, <2>2, <2>3, <2>4, <2>5, <2>6, <2>7, MessageFrame
<1>5. ASSUME Restart, pool' = pool
      PROVE  TypeOK'
  <2>1. restarts' \in 0 .. MaxRestarts
    BY <1>5, BoundAssumption DEF Restart, TypeOK
  <2>2. /\ pc' \in [Messages -> {"unsent"} \cup Running \cup Ended]
        /\ \A m \in Messages : pc'[m] # "unsent" => pc[m] # "unsent"
    BY <1>5 DEF Restart, TypeOK, Running, Open, Ended
  <2>3. /\ phase' \in [Sockets -> {"away", "up", "closed"} \cup Handshake]
        /\ \A s \in Sockets : phase'[s] # "away" => owner[s] \in Users
    BY <1>5 DEF Restart, TypeOK, Present, Handshake, SocketsAgree
  <2>4. \A m \in Messages : pc'[m] # "unsent" => from'[m] \in Sockets /\ author(m)' \in Users
    BY <1>5, <2>2 DEF Restart, TypeOK, author
  <2>5. /\ clients' \in [Users -> Sockets \cup {None}]
        /\ roomsRead' \in [Sockets -> SUBSET rooms] /\ joined' \in [Sockets -> SUBSET rooms]
        /\ asked' \in [Messages -> Asks \cup {None}] /\ room' \in [Messages -> rooms \cup {None}]
    BY <1>5 DEF Restart
  <2> QED
    BY <1>5, <2>1, <2>2, <2>3, <2>4, <2>5 DEF Restart, TypeOK, history
<1> QED
  BY <1>1, <1>2, <1>3, <1>4, <1>5, StepCases

-----------------------------------------------------------------------------
(* The parts of the invariant about sockets.                               *)
LEMMA MessagesKeepSockets ==
  ASSUME TypeOK, NEW m \in Messages,
         createMessage(m) \/ \E s \in Sockets, r \in Asks : Send(m, s, r)
  PROVE  /\ UNCHANGED <<owner, connected, phase, identified, clients, roomsRead, early, met>>
         /\ joined' = joined \/ Announce(m)
<1>1. CASE createMessage(m)
  BY <1>1, MessageFrame DEF history
<1>2. CASE \E s \in Sockets, r \in Asks : Send(m, s, r)
  BY <1>2 DEF Send, socketVars
<1> QED
  BY <1>1, <1>2

(* Entries, sockets and the rooms they are in agree on whose they are.     *)
LEMMA SocketsAgreeStep ==
  ASSUME TypeOK, SocketsAgree, MessagesAgree, [Next]_vars
  PROVE  SocketsAgree'
<1>0. /\ \A s \in Sockets : phase[s] # "away" => phase'[s] # "away" /\ owner'[s] = owner[s]
      /\ \A r \in rooms : r \in Messages /\ RoomUsers(r)' = RoomUsers(r)
  BY OwnersStay DEF TypeOK
<1>1. CASE UNCHANGED vars
  BY <1>1 DEF vars, socketVars, messageVars, history, SocketsAgree, RoomUsers, author
<1>2. ASSUME NEW s \in Sockets, SocketStep(s)
      PROVE  SocketsAgree'
  <2> USE DEF TypeOK, handleDisconnect, Handshake
  <2>1. /\ \A u \in Users : clients'[u] # None => clients'[u] \in identified' /\ owner'[clients'[u]] = u
        /\ \A t \in identified' : phase'[t] \notin {"away", "verifying"}
        /\ \A t \in connected' : phase'[t] \notin {"away", "closed"}
        /\ \A t \in Sockets : phase'[t] = "verifying" /\ t \notin connected' => t \in early'
        /\ \A t \in Sockets : roomsRead'[t] # {} => phase'[t] = "joining"
    <3> USE DEF SocketsAgree
    <3>1. CASE \E u \in Brings[s] : Connect(s, u)
      BY <1>0, <3>1 DEF Connect
    <3>2. CASE Disconnect(s)
      BY <1>0, <3>2 DEF Disconnect
    <3>3. CASE TokenRefused(s) \/ ReadFails(s)
      BY <1>0, <3>3 DEF TokenRefused, ReadFails, Expel, history
    <3>4. CASE TokenVerified(s)
      BY <1>0, <3>4, NoneAssumption DEF TokenVerified, history
    <3>5. CASE ReadRooms(s)
      BY <1>0, <3>5 DEF ReadRooms, history
    <3>6. CASE JoinRooms(s)
      BY <1>0, <3>6 DEF JoinRooms, history
    <3> QED
      BY <1>2, <3>1, <3>2, <3>3, <3>4, <3>5, <3>6 DEF SocketStep, Handle
  <2>2. \A t \in Sockets \ {s} : joined'[t] \cup roomsRead'[t] \subseteq joined[t] \cup roomsRead[t]
    BY <1>2, SocketFrame
  <2>3. \A r \in joined'[s] \cup roomsRead'[s] :
          r \in joined[s] \cup roomsRead[s] \/ (phase[s] # "away" /\ r \in RoomsOf(owner[s]))
    <3>1. CASE \E u \in Brings[s] : Connect(s, u)
      BY <3>1 DEF Connect
    <3>2. CASE Disconnect(s)
      BY <3>2 DEF Disconnect
    <3>3. CASE TokenRefused(s) \/ ReadFails(s)
      BY <3>3 DEF TokenRefused, ReadFails, Expel
    <3>4. CASE TokenVerified(s)
      BY <3>4 DEF TokenVerified
    <3>5. CASE ReadRooms(s)
      BY <3>5 DEF ReadRooms
    <3>6. CASE JoinRooms(s)
      BY <3>6 DEF JoinRooms
    <3> QED
      BY <1>2, <3>1, <3>2, <3>3, <3>4, <3>5, <3>6 DEF SocketStep, Handle
  <2>4. \A t \in Sockets : \A r \in joined'[t] \cup roomsRead'[t] :
          phase'[t] # "away" /\ owner'[t] \in RoomUsers(r)'
    BY <1>0, <2>2, <2>3 DEF SocketsAgree, RoomsOf
  <2> QED
    BY <2>1, <2>4 DEF SocketsAgree
<1>3. ASSUME NEW m \in Messages,
             createMessage(m) \/ \E s \in Sockets, r \in Asks : Send(m, s, r)
      PROVE  SocketsAgree'
  <2>1. UNCHANGED <<owner, connected, phase, identified, clients, roomsRead, early>>
    BY <1>3, MessagesKeepSockets
  <2>2. \A s \in Sockets : \A r \in joined'[s] \cup roomsRead'[s] :
          phase[s] # "away" /\ owner[s] \in RoomUsers(r) /\ r \in rooms
    <3>1. CASE joined' = joined
      BY <2>1, <3>1 DEF SocketsAgree, TypeOK
    <3>2. CASE Announce(m)
      <4>1. m \in rooms
        BY <3>2 DEF Announce, MessagesAgree
      <4>2. \A u \in RoomUsers(m) : u \in Users
        BY <3>2, <4>1, AdminAssumption DEF Announce, RoomUsers, TypeOK
      <4>3. ASSUME NEW s \in Sockets, NEW u \in RoomUsers(m), clients[u] = s
            PROVE  phase[s] # "away" /\ owner[s] \in RoomUsers(m)
        BY <4>2, <4>3, NoneAssumption DEF SocketsAgree
      <4> QED
        BY <2>1, <3>2, <4>1, <4>3 DEF Announce, SocketsAgree, TypeOK
    <3> QED
      BY <1>3, <3>1, <3>2, MessagesKeepSockets
  <2> QED
    BY <1>0, <2>1, <2>2 DEF SocketsAgree
<1>4. CASE Restart
  BY <1>0, <1>4 DEF Restart, SocketsAgree, TypeOK, Present, Handshake
<1> QED
  BY <1>1, <1>2, <1>3, <1>4, StepCases

(* Only a socket that comes can be there with another one for the first    *)
(* time.                                                                   *)
LEMMA SocketsMetStep ==
  ASSUME TypeOK, SocketsAgree, MessagesAgree, SocketsMet, [Next]_vars
  PROVE  SocketsMet'
<1> USE DEF SocketsMet, Present, Handshake
<1>0. \A s \in Sockets : phase[s] # "away" => owner'[s] = owner[s]
  BY OwnersStay
<1>1. CASE UNCHANGED vars
  BY <1>1 DEF vars, socketVars, history
<1>2. ASSUME NEW s \in Sockets, SocketStep(s)
      PROVE  SocketsMet'
  <2>1. CASE \E u \in Brings[s] : Connect(s, u)
    <3>1. PICK u \in Brings[s] : Connect(s, u)
      BY <2>1
    <3>2. ASSUME NEW t \in Sockets, t # s, Present(t), owner[t] = u
          PROVE  {t, s} \subseteq met'
      BY <3>1, <3>2 DEF Connect
    <3>3. \A t \in Sockets : t # s => owner'[t] = owner[t] /\ (Present(t)' <=> Present(t))
      BY <3>1 DEF Connect, TypeOK
    <3>4. met \subseteq met' /\ owner'[s] = u
      BY <3>1 DEF Connect, TypeOK
    <3> QED
      BY <3>2, <3>3, <3>4
  <2>2. CASE phase[s] # "away"
    <3>1. \A t \in Sockets : Present(t)' => Present(t)
      <4>1. CASE Disconnect(s)
        BY <4>1 DEF Disconnect, handleDisconnect, TypeOK
      <4>2. CASE TokenRefused(s) \/ ReadFails(s)
        BY <4>2 DEF TokenRefused, ReadFails, Expel, handleDisconnect, TypeOK
      <4>3. CASE TokenVerified(s) \/ ReadRooms(s) \/ JoinRooms(s)
        BY <4>3 DEF TokenVerified, ReadRooms, JoinRooms, TypeOK
      <4> QED
        BY <1>2, <2>2, <4>1, <4>2, <4>3 DEF SocketStep, Handle, Connect
    <3>2. \A t \in Sockets : Present(t) => phase[t] # "away"
      BY DEF SocketsAgree
    <3> QED
      BY <1>0, <1>2, <3>1, <3>2, SocketFrame
  <2> QED
    BY <1>2, <2>1, <2>2 DEF SocketStep, Handle, Disconnect, TokenRefused, ReadFails, TokenVerified,
                            ReadRooms, JoinRooms, SocketsAgree
<1>3. ASSUME NEW m \in Messages,
             createMessage(m) \/ \E s \in Sockets, r \in Asks : Send(m, s, r)
      PROVE  SocketsMet'
  BY <1>3, MessagesKeepSockets
<1>4. CASE Restart
  BY <1>4 DEF Restart, TypeOK
<1> QED
  BY <1>1, <1>2, <1>3, <1>4, StepCases

-----------------------------------------------------------------------------
(* Who is in the map, and who is missing from it.                          *)
LEMMA StaleEntryStep ==
  ASSUME TypeOK, SocketsAgree, StaleEntryWentEarly, [Next]_vars
  PROVE  StaleEntryWentEarly'
<1> USE DEF StaleEntryWentEarly, SocketsAgree
<1>1. CASE UNCHANGED vars
  BY <1>1 DEF vars, socketVars, history
<1>2. ASSUME NEW s \in Sockets, SocketStep(s)
      PROVE  StaleEntryWentEarly'
  <2> USE DEF TypeOK, handleDisconnect
  <2>1. CASE \E u \in Brings[s] : Connect(s, u)
    BY <2>1 DEF Connect
  <2>2. CASE Disconnect(s)
    BY <2>2 DEF Disconnect
  <2>3. CASE TokenRefused(s) \/ ReadFails(s)
    BY <2>3 DEF TokenRefused, ReadFails, Expel, history
  <2>4. CASE TokenVerified(s)
    BY <2>4 DEF TokenVerified, history
  <2>5. CASE ReadRooms(s) \/ JoinRooms(s)
    BY <2>5 DEF ReadRooms, JoinRooms, history
  <2> QED
    BY <1>2, <2>1, <2>2, <2>3, <2>4, <2>5 DEF SocketStep, Handle
<1>3. ASSUME NEW m \in Messages,
             createMessage(m) \/ \E s \in Sockets, r \in Asks : Send(m, s, r)
      PROVE  StaleEntryWentEarly'
  BY <1>3, MessagesKeepSockets
<1>4. CASE Restart
  BY <1>4 DEF Restart
<1> QED
  BY <1>1, <1>2, <1>3, <1>4, StepCases

(* An entry is written over or taken away by a socket that has met the     *)
(* other.                                                                  *)
LEMMA MissingEntryStep ==
  ASSUME TypeOK, SocketsAgree, SocketsMet, MissingEntryMetAnother, [Next]_vars
  PROVE  MissingEntryMetAnother'
<1> USE DEF MissingEntryMetAnother, SocketsAgree
<1>1. CASE UNCHANGED vars
  BY <1>1 DEF vars, socketVars, history
<1>2. ASSUME NEW s \in Sockets, SocketStep(s)
      PROVE  MissingEntryMetAnother'
  <2> USE DEF TypeOK
  <2>1. ASSUME Present(s), NEW t \in connected, t # s, owner[t] = owner[s]
        PROVE  t \in met
    BY <2>1 DEF SocketsMet, Present
  <2> USE DEF handleDisconnect
  <2>2. CASE \E u \in Brings[s] : Connect(s, u)
    BY <2>2 DEF Connect
  <2>3. CASE Disconnect(s)
    BY <2>1, <2>3 DEF Disconnect, Present
  <2>4. CASE TokenRefused(s) \/ ReadFails(s)
    BY <2>1, <2>4 DEF TokenRefused, ReadFails, Expel, history, Present
  <2>5. CASE TokenVerified(s)
    BY <2>1, <2>5 DEF TokenVerified, history, Present, Handshake
  <2>6. CASE ReadRooms(s) \/ JoinRooms(s)
    BY <2>6 DEF ReadRooms, JoinRooms, history
  <2> QED
    BY <1>2, <2>2, <2>3, <2>4, <2>5, <2>6 DEF SocketStep, Handle
<1>3. ASSUME NEW m \in Messages,
             createMessage(m) \/ \E s \in Sockets, r \in Asks : Send(m, s, r)
      PROVE  MissingEntryMetAnother'
  BY <1>3, MessagesKeepSockets
<1>4. CASE Restart
  BY <1>4 DEF Restart
<1> QED
  BY <1>1, <1>2, <1>3, <1>4, StepCases

(* A room comes into the database before it is announced, and is announced *)
(* to the entry of the map, unless its making was rejected: so the reading *)
(* misses none.                                                            *)
LEMMA EntryKnowsStep ==
  ASSUME TypeOK, SocketsAgree, MessagesAgree, EntryKnows, [Next]_vars
  PROVE  EntryKnows'
<1>0. /\ \A r \in rooms : r \in Messages /\ RoomUsers(r)' = RoomUsers(r)
      /\ \A u \in Users : {r \in rooms : u \in RoomUsers(r)'} = RoomsOf(u)
      /\ \A s \in Sockets : phase[s] # "away" => owner'[s] = owner[s]
  BY OwnersStay DEF TypeOK, RoomsOf
<1>1. CASE UNCHANGED vars
  <2>1. \A u \in Users : RoomsOf(u)' = RoomsOf(u)
    BY <1>0, <1>1 DEF vars, messageVars, RoomsOf
  <2> QED
    BY <1>1, <2>1 DEF vars, socketVars, messageVars, EntryKnows, Knows
<1>2. ASSUME NEW s \in Sockets, SocketStep(s)
      PROVE  EntryKnows'
  <2>1. /\ pc' = pc /\ rooms' = rooms /\ unheard' = unheard
        /\ \A u \in Users : RoomsOf(u)' = RoomsOf(u)
    BY <1>0, <1>2, SocketFrame DEF messageVars, RoomsOf
  <2> SUFFICES ASSUME NEW u \in Users, NEW t \in Sockets, clients'[u] = t
               PROVE  Knows(t, u)'
    <3>1. clients' \in [Users -> Sockets \cup {None}]
      BY TypeStep DEF TypeOK
    <3> QED
      BY <3>1 DEF EntryKnows
  <2>2. CASE t # s
    <3>1. clients[u] = t
      <4> USE DEF handleDisconnect, TypeOK
      <4>1. CASE \E v \in Brings[s] : Connect(s, v)
        BY <4>1 DEF Connect
      <4>2. CASE Disconnect(s) \/ TokenRefused(s) \/ ReadFails(s)
        BY <4>2, NoneAssumption DEF Disconnect, TokenRefused, ReadFails, Expel, SocketsAgree
      <4>3. CASE TokenVerified(s)
        BY <2>2, <4>3, NoneAssumption DEF TokenVerified
      <4>4. CASE ReadRooms(s) \/ JoinRooms(s)
        BY <4>4 DEF ReadRooms, JoinRooms
      <4> QED
        BY <1>2, <4>1, <4>2, <4>3, <4>4 DEF SocketStep, Handle
    <3>2. Knows(t, u)
      BY <3>1, NoneAssumption DEF EntryKnows
    <3> QED
      BY <1>2, <2>1, <2>2, <3>2, SocketFrame DEF Knows
  <2>3. CASE t = s
    <3> SUFFICES ASSUME phase'[s] \in {"joining", "up"}, s \in connected'
                 PROVE  \A r \in RoomsOf(u) : \/ r \in joined'[s] \cup roomsRead'[s] \cup unheard
                                              \/ pc[r] = "announce"
      BY <2>1, <2>3 DEF Knows
    <3> USE DEF handleDisconnect, TypeOK
    <3>1. CASE \E v \in Brings[s] : Connect(s, v)
      BY <3>1 DEF Connect
    <3>2. CASE Disconnect(s)
      <4>1. clients[u] = s /\ s \notin identified
        BY <2>3, <3>2, NoneAssumption DEF Disconnect, SocketsAgree
      <4> QED
        BY <4>1, NoneAssumption DEF SocketsAgree
    <3>3. CASE TokenRefused(s) \/ ReadFails(s) \/ TokenVerified(s)
      BY <3>3 DEF TokenRefused, ReadFails, Expel, TokenVerified
    <3>4. CASE ReadRooms(s)
      BY <2>3, <3>4, NoneAssumption DEF ReadRooms, SocketsAgree
    <3>5. CASE JoinRooms(s)
      BY <2>3, <3>5, NoneAssumption DEF JoinRooms, EntryKnows, Knows
    <3> QED
      BY <1>2, <3>1, <3>2, <3>3, <3>4, <3>5 DEF SocketStep, Handle
  <2> QED
    BY <2>2, <2>3
<1>3. ASSUME NEW m \in Messages,
             createMessage(m) \/ \E s \in Sockets, r \in Asks : Send(m, s, r)
      PROVE  EntryKnows'
  <2>1. UNCHANGED <<clients, phase, connected, roomsRead>>
    BY <1>3, MessagesKeepSockets
  <2>2. /\ unheard \subseteq unheard'
        /\ \A r \in rooms : pc[r] = "announce" => pc'[r] = "announce" \/ Announce(r)
        /\ \A r \in rooms' : r \in rooms \cup unheard' \/ pc'[r] = "announce"
    <3>1. CASE createMessage(m)
      <4>1. \A r \in rooms' : r \in rooms \cup unheard' \/ pc'[r] = "announce"
        BY <3>1, MessageFrame DEF MakeRoom, Go, TypeOK
      <4>2. \A r \in rooms : pc[r] = "announce" => pc'[r] = "announce" \/ Announce(r)
        BY <3>1, MessageFrame DEF Moves, TypeOK
      <4> QED
        BY <3>1, <4>1, <4>2, MessageFrame
    <3>2. CASE \E s \in Sockets, r \in Asks : Send(m, s, r)
      BY <3>2 DEF Send, TypeOK
    <3> QED
      BY <1>3, <3>1, <3>2
  <2>3. \A s \in Sockets : joined[s] \subseteq joined'[s]
    BY <1>3, MessagesKeepSockets DEF Announce, TypeOK
  <2>4. ASSUME NEW u \in Users, clients[u] \in connected, NEW r \in RoomsOf(u), Announce(r)
        PROVE  r \in joined'[clients[u]]
    BY <2>4 DEF Announce, RoomsOf, TypeOK
  <2>5. \A u \in Users : \A r \in RoomsOf(u)' : r \in RoomsOf(u) \cup unheard' \/ pc'[r] = "announce"
    BY <1>0, <2>2 DEF RoomsOf
  <2> QED
    BY <2>1, <2>2, <2>3, <2>4, <2>5 DEF EntryKnows, Knows, RoomsOf, TypeOK
<1>4. CASE Restart
  BY <1>4 DEF Restart, EntryKnows
<1> QED
  BY <1>1, <1>2, <1>3, <1>4, StepCases

-----------------------------------------------------------------------------
(* The parts of the invariant about messages.                              *)
LEMMA MessagesAgreeStep ==
  ASSUME TypeOK, SocketsAgree, MessagesAgree, [Next]_vars
  PROVE  MessagesAgree'
<1>0. /\ \A s \in Sockets : phase[s] # "away" => phase'[s] # "away"
      /\ \A m \in Messages : pc[m] # "unsent" =>
           pc'[m] # "unsent" /\ from'[m] = from[m] /\ author(m)' = author(m)
      /\ \A r \in rooms : r \in Messages /\ RoomUsers(r)' = RoomUsers(r)
      /\ rooms \subseteq rooms'
  BY OwnersStay DEF TypeOK
<1>1. CASE UNCHANGED vars
  BY <1>0, <1>1 DEF vars, socketVars, messageVars, MessagesAgree, TypeOK
<1>2. ASSUME NEW s \in Sockets, SocketStep(s)
      PROVE  MessagesAgree'
  BY <1>0, <1>2, SocketFrame DEF messageVars, MessagesAgree, TypeOK
<1>3. ASSUME NEW m \in Messages, NEW s \in Sockets, NEW r \in Asks, Send(m, s, r)
      PROVE  MessagesAgree'
  <2>1. room[m] = None /\ m \notin rooms /\ shown[m] = {}
    BY <1>3 DEF Send, MessagesAgree, TypeOK
  <2>2. phase[s] # "away"
    BY <1>3 DEF Send, SocketsAgree
  <2> QED
    BY <1>0, <1>3, <2>1, <2>2 DEF Send, socketVars, MessagesAgree, TypeOK, Open
<1>4. ASSUME NEW m \in Messages, createMessage(m)
      PROVE  MessagesAgree'
  <2>0. Moves(m) /\ pc[m] \in Running /\ pc'[m] \in Open \cup Ended
    BY <1>4, MessageFrame, MessageMoves
  <2>1. /\ UNCHANGED <<phase, identified, from>>
        /\ author(m)' = author(m) /\ from[m] \in Sockets
        /\ \A n \in Messages \ {m} : pc'[n] = pc[n] /\ room'[n] = room[n] /\ shown'[n] = shown[n]
        /\ \A n \in Messages \ {m} : n \in rooms' <=> n \in rooms
    <3>1. \A n \in Messages \ {m} : shown'[n] = shown[n] /\ (n \in rooms' <=> n \in rooms)
      BY <1>4, MessageFrame DEF Emit, TypeOK
    <3> QED
      BY <1>0, <1>4, <2>0, <3>1, MessageFrame DEF Moves, TypeOK, Running, Open
  <2>2. pc'[m] \in Open \ {"rollback"} => from[m] \in identified
    <3>1. CASE pc[m] = "begin"
      BY <1>4, <3>1, MessageFrame DEF Begin, Throw, Go, End, Off, TypeOK, Open
    <3>2. CASE pc[m] \in Open
      BY <1>4, <2>1, <3>2, MessageFrame DEF MessagesAgree, Off, Open
    <3> QED
      BY <2>0, <3>1, <3>2 DEF Running
  <2>3. /\ m \in rooms' => pc'[m] \notin {"unsent", "begin", "find", "query", "make"}
        /\ pc'[m] = "announce" => m \in rooms'
    <3>1. CASE pc[m] \in {"begin", "find", "query"}
      BY <1>4, <3>1, MessageFrame DEF FindNoRoom, Off, MessagesAgree, TypeOK
    <3>2. CASE pc[m] \in {"make", "announce", "save"}
      BY <1>4, <3>2, MessageFrame DEF MakeRoom, Off
    <3>3. CASE pc[m] \in {"commit", "rollback"}
      BY <1>4, <3>3, MessageFrame
    <3> QED
      BY <2>0, <3>1, <3>2, <3>3 DEF Running, Open
  <2>4. ASSUME NEW r \in Messages, room'[m] = r
        PROVE  pc'[m] # "unsent" /\ author(m) \in RoomUsers(r)' \cup Admins
    <3> SUFFICES author(m) \in RoomUsers(r)' \cup Admins
      BY <2>0 DEF Open, Ended
    <3>1. CASE room[m] = r
      BY <1>0, <3>1, NoneAssumption DEF MessagesAgree, TypeOK
    <3>2. CASE GoesOff(m)
      BY <2>4, <3>1, <3>2, NoneAssumption DEF GoesOff
    <3>3. CASE pc[m] = "query" /\ ~ GoesOff(m)
      BY <1>0, <1>4, <2>4, <3>3, NoneAssumption, MessageFrame
         DEF FindAskedRoom, FindOwnRoom, FindNoRoom, IsAdmin, RoomsOf, MessagesAgree, TypeOK
    <3>4. CASE pc[m] = "make" /\ ~ GoesOff(m)
      BY <1>4, <2>1, <2>4, <3>4, MessageFrame DEF MakeRoom, RoomUsers, TypeOK
    <3>5. CASE pc[m] = "commit"
      BY <1>4, <2>4, <3>5, NoneAssumption, MessageFrame DEF Commit, End, TypeOK
    <3>6. CASE pc[m] \in {"begin", "find", "announce", "save"} /\ ~ GoesOff(m)
      <4>1. room' = room
        BY <1>4, <3>6, MessageFrame DEF Begin, FindUser, Announce, Emit, Throw, Done, Go, End, TypeOK
      <4> QED
        BY <2>4, <3>1, <4>1
    <3> QED
      BY <1>4, <2>0, <3>2, <3>3, <3>4, <3>5, <3>6, MessageFrame DEF Running, Open
  <2>5. \A s \in shown'[m] : pc'[m] # "unsent" /\ phase[s] # "away"
    <3> SUFFICES \A s \in shown'[m] : s \in shown[m] \/ s \in connected
      BY <2>0 DEF MessagesAgree, SocketsAgree, Open, Ended
    <3> QED
      BY <1>4, MessageFrame DEF Emit, InRoom, TypeOK
  <2>6. room' \in [Messages -> rooms' \cup {None}] /\ rooms' \subseteq Messages
    BY TypeStep DEF TypeOK
  <2>7. ASSUME NEW n \in Messages \ {m}, room'[n] # None
        PROVE  pc'[n] # "unsent" /\ author(n)' \in RoomUsers(room[n])' \cup Admins
    BY <1>0, <2>1, <2>7 DEF MessagesAgree, TypeOK
  <2>8. \A n \in Messages :
          room'[n] # None => pc'[n] # "unsent" /\ (author(n) \in RoomUsers(room[n]) \cup Admins)'
    BY <2>1, <2>4, <2>6, <2>7
  <2>9. \A n \in Messages : pc'[n] # "unsent" => phase'[from'[n]] # "away"
    BY <1>0, <2>0, <2>1 DEF MessagesAgree, TypeOK, Running, Open
  <2> QED
    BY <2>1, <2>2, <2>3, <2>5, <2>8, <2>9 DEF MessagesAgree
<1>5. CASE Restart
  BY <1>0, <1>5 DEF Restart, MessagesAgree, TypeOK, Running, Open
<1> QED
  BY <1>1, <1>2, <1>3, <1>4, <1>5, StepCases

(* A message ends for good, and a socket that has gone stays away.         *)
LEMMA LeaksAgreeStep ==
  ASSUME TypeOK, SocketsAgree, MessagesAgree, LeaksAgree, [Next]_vars
  PROVE  LeaksAgree'
<1> USE DEF LeaksAgree
<1>0. \A m \in leaked : m \in Messages /\ pc[m] # "unsent" /\ from[m] \in Sockets /\ phase[from[m]] # "away"
  BY DEF TypeOK, MessagesAgree
<1>1. CASE UNCHANGED vars
  BY <1>1 DEF vars, socketVars, messageVars
<1>2. ASSUME NEW s \in Sockets, SocketStep(s)
      PROVE  LeaksAgree'
  BY <1>0, <1>2, SocketFrame DEF messageVars
<1>3. ASSUME NEW m \in Messages, NEW s \in Sockets, NEW r \in Asks, Send(m, s, r)
      PROVE  LeaksAgree'
  BY <1>0, <1>3 DEF Send, socketVars, TypeOK
<1>4. ASSUME NEW m \in Messages, createMessage(m)
      PROVE  LeaksAgree'
  <2>1. Moves(m) /\ connected' = connected /\ from' = from
    BY <1>4, MessageFrame
  <2>2. pc[m] \in Running /\ m \notin leaked
    BY <2>1 DEF Moves, Running, Open
  <2>3. pc'[m] = "lost" => from[m] \notin connected
    BY <1>4, MessageFrame DEF GoesOff, Moves, Running, Open
  <2> QED
    BY <1>0, <2>1, <2>2, <2>3 DEF Moves, TypeOK
<1>5. CASE Restart
  BY <1>5 DEF Restart
<1> QED
  BY <1>1, <1>2, <1>3, <1>4, <1>5, StepCases

(* A message begins beside those that run; a room it makes is beside       *)
(* theirs.                                                                 *)
LEMMA MessagesMetStep ==
  ASSUME TypeOK, SocketsAgree, MessagesAgree, MessagesMet, SecondRoomNeedsRace, [Next]_vars
  PROVE  MessagesMet' /\ SecondRoomNeedsRace'
<1> USE DEF MessagesMet, SecondRoomNeedsRace
<1>0. /\ \A m \in Messages : pc[m] # "unsent" => author(m)' = author(m)
      /\ \A r \in rooms : r \in Messages /\ author(r)' = author(r)
  BY OwnersStay DEF TypeOK
<1>1. CASE UNCHANGED vars
  BY <1>0, <1>1 DEF vars, messageVars, history
<1>2. ASSUME NEW s \in Sockets, SocketStep(s)
      PROVE  MessagesMet' /\ SecondRoomNeedsRace'
  BY <1>0, <1>2, SocketFrame DEF messageVars
<1>3. ASSUME NEW m \in Messages, NEW s \in Sockets, NEW r \in Asks, Send(m, s, r)
      PROVE  MessagesMet' /\ SecondRoomNeedsRace'
  <2>1. /\ rooms' = rooms /\ together \subseteq together' /\ pc' = [pc EXCEPT ![m] = "begin"]
        /\ \A n \in Messages : pc[n] \in Running => {m, n} \in together'
    BY <1>3 DEF Send
  <2>2. \A n \in Messages, q \in Messages : {n, q} = {q, n}
    OBVIOUS
  <2>3. MessagesMet'
    BY <1>0, <2>1, <2>2 DEF TypeOK
  <2> QED
    BY <1>0, <2>1, <2>3
<1>4. ASSUME NEW m \in Messages, createMessage(m)
      PROVE  MessagesMet' /\ SecondRoomNeedsRace'
  <2>1. /\ together' = together
        /\ \A n \in Messages : pc'[n] \in Running => pc[n] \in Running
        /\ \A n \in Messages : pc'[n] = "make" => (n # m /\ pc[n] = "make") \/ (n = m /\ FindNoRoom(m))
        /\ rooms' = rooms \/ (rooms' = rooms \cup {m} /\ pc[m] = "make" /\ pc'[m] # "make")
    <3>1. pc[m] \in Running /\ together' = together /\ pc' = [pc EXCEPT ![m] = pc'[m]]
      BY <1>4, MessageFrame DEF history, Moves
    <3>2. pc'[m] = "make" => FindNoRoom(m)
      BY <1>4, <3>1, MessageFrame DEF Off, Running, Open
    <3>3. rooms' = rooms \/ (rooms' = rooms \cup {m} /\ pc[m] = "make" /\ pc'[m] # "make")
      BY <1>4, MessageFrame DEF Off
    <3> QED
      BY <3>1, <3>2, <3>3 DEF TypeOK
  <2>2. FindNoRoom(m) => \A r \in rooms : author(r) # author(m)
    BY DEF FindNoRoom, RoomsOf, RoomUsers
  <2>3. pc[m] # "unsent"
    BY <1>4, MessageMoves DEF Running, Open
  <2>4. \A n, q \in Messages : {n, q} = {q, n}
    OBVIOUS
  <2>5. CASE rooms' = rooms
    BY <1>0, <2>1, <2>2, <2>3, <2>5
  <2>6. CASE rooms' = rooms \cup {m} /\ pc[m] = "make" /\ pc'[m] # "make"
    <3>1. \A n \in Messages : pc'[n] = "make" => n # m /\ pc[n] = "make" /\ {m, n} \in together
      BY <2>1, <2>6 DEF Running, Open
    <3>2. \A r \in rooms : author(r) = author(m) => {r, m} \in together
      BY <2>6
    <3>3. \A n \in Messages : pc[n] = "make" => author(n)' = author(n)
      BY <1>0
    <3> QED
      BY <1>0, <2>1, <2>3, <2>4, <2>6, <3>1, <3>2, <3>3
  <2> QED
    BY <2>1, <2>5, <2>6
<1>5. CASE Restart
  BY <1>0, <1>5 DEF Restart, TypeOK, Running, Open, history
<1> QED
  BY <1>1, <1>2, <1>3, <1>4, <1>5, StepCases

(* What has been met, or was rejected, stays so.                           *)
LEMMA HistoryStays ==
  ASSUME TypeOK, [Next]_vars
  PROVE  met \subseteq met' /\ failed \subseteq failed' /\ premature \subseteq premature'
<1>1. CASE UNCHANGED vars
  BY <1>1 DEF vars, messageVars, history
<1>2. ASSUME NEW s \in Sockets, SocketStep(s)
      PROVE  met \subseteq met' /\ failed \subseteq failed' /\ premature \subseteq premature'
  BY <1>2, SocketFrame DEF messageVars
<1>3. ASSUME NEW m \in Messages, NEW s \in Sockets, NEW r \in Asks, Send(m, s, r)
      PROVE  met \subseteq met' /\ failed \subseteq failed' /\ premature \subseteq premature'
  BY <1>3 DEF Send
<1>4. ASSUME NEW m \in Messages, createMessage(m)
      PROVE  met \subseteq met' /\ failed \subseteq failed' /\ premature \subseteq premature'
  BY <1>4, MessageFrame DEF history
<1>5. CASE Restart
  BY <1>5 DEF Restart, history
<1> QED
  BY <1>1, <1>2, <1>3, <1>4, <1>5, StepCases

(* A handler that comes to roll back a message sent in time has a reason.  *)
LEMMA RollbackHasReason ==
  ASSUME TypeOK, MessagesAgree, MissingEntryMetAnother, Hopeful,
         NEW m \in Messages \ premature, createMessage(m), pc'[m] = "rollback", author(m) \in Accounts
  PROVE  from[m] \in met \/ m \in failed'
<1>1. CASE Fails(m)
  BY <1>1, FailsFrame
<1>2. CASE Works(m)
  <2>1. pc[m] \in {"begin", "find", "save"} /\ from[m] \in connected
    BY <1>2, MessageFrame
       DEF GoesOff, Works, Begin, FindUser, FindAskedRoom, FindOwnRoom, FindNoRoom, MakeRoom, Announce,
           Emit, Commit, Rollback, Go, End, Moves, TypeOK
  <2>2. CASE pc[m] = "begin"
    BY <1>2, <2>1, <2>2 DEF Hopeful, Go, TypeOK, Works, Begin, FindUser, FindAskedRoom, FindOwnRoom,
           FindNoRoom, MakeRoom, Announce, Emit, Commit, Rollback
  <2>3. CASE pc[m] = "find"
    <3>1. FindUser(m) /\ (IsAdmin(m) => asked[m] # None)
      BY <1>2, <2>3, NoneAssumption DEF Hopeful, TypeOK, Works, Begin, FindUser, FindAskedRoom,
           FindOwnRoom, FindNoRoom, MakeRoom, Announce, Emit, Commit, Rollback
    <3> QED
      BY <3>1 DEF FindUser, Go, TypeOK
  <2>4. CASE pc[m] = "save"
    <3>1. Emit(m) /\ room[m] # None /\ from[m] \in identified
      BY <1>2, <2>4 DEF Hopeful, MessagesAgree, Open, Works, Begin, FindUser, FindAskedRoom,
           FindOwnRoom, FindNoRoom, MakeRoom, Announce, Emit, Commit, Rollback
    <3>2. clients[author(m)] = None
      BY <2>1, <3>1 DEF Emit, Done, Go, TypeOK
    <3> QED
      BY <2>1, <3>1, <3>2, NoneAssumption DEF MissingEntryMetAnother, author, TypeOK
  <2> QED
    BY <2>1, <2>2, <2>3, <2>4
<1> QED
  BY <1>1, <1>2 DEF createMessage

(* A message that is under way keeps what it may expect.                   *)
LEMMA HopefulStep ==
  ASSUME TypeOK, SocketsAgree, MessagesAgree, MissingEntryMetAnother, Hopeful, [Next]_vars
  PROVE  Hopeful'
<1> DEFINE Hope(m) ==
      /\ pc[m] = "begin" => from[m] \in identified
      /\ pc[m] \in {"begin", "find", "query"} /\ IsAdmin(m) => asked[m] \in rooms
      /\ pc[m] \in {"announce", "save"} => room[m] # None
      /\ pc[m] = "rollback" /\ author(m) \in Accounts => from[m] \in met \/ m \in failed
<1>0. /\ \A m \in Messages : pc[m] # "unsent" =>
           from[m] \in Sockets /\ from'[m] = from[m] /\ author(m)' = author(m)
      /\ rooms \subseteq rooms'
  BY OwnersStay DEF TypeOK, MessagesAgree
<1>1. met \subseteq met' /\ failed \subseteq failed' /\ premature \subseteq premature'
  BY HistoryStays
<1>2. ASSUME identified \subseteq identified',
             NEW m \in Messages, m \notin premature', pc[m] # "unsent",
             pc'[m] = pc[m], room'[m] = room[m], asked'[m] = asked[m]
      PROVE  Hope(m)'
  BY <1>0, <1>1, <1>2 DEF Hopeful, IsAdmin
<1>3. CASE UNCHANGED vars
  BY <1>0, <1>3 DEF vars, socketVars, messageVars, history, Hopeful, IsAdmin, author
<1>4. ASSUME NEW s \in Sockets, SocketStep(s)
      PROVE  Hopeful'
  BY <1>2, <1>4, SocketFrame DEF messageVars, Hopeful
<1>5. ASSUME NEW m \in Messages, NEW s \in Sockets, NEW r \in Asks, Send(m, s, r)
      PROVE  Hopeful'
  <2>1. /\ UNCHANGED <<rooms, room, identified>>
        /\ pc' = [pc EXCEPT ![m] = "begin"] /\ asked' = [asked EXCEPT ![m] = r]
        /\ from'[m] = s /\ author(m)' = owner[s]
    BY <1>5 DEF Send, socketVars, author, TypeOK
  <2>2. m \notin premature' => s \in identified /\ (owner[s] \in Admins => r \in rooms)
    BY <1>5 DEF Send
  <2>3. m \notin premature' => Hope(m)'
    BY <2>1, <2>2 DEF IsAdmin, TypeOK
  <2>4. \A n \in Messages \ {m} : n \notin premature' => Hope(n)'
    BY <1>2, <2>1 DEF TypeOK
  <2> QED
    BY <2>3, <2>4 DEF Hopeful
<1>6. ASSUME NEW m \in Messages, createMessage(m)
      PROVE  Hopeful'
  <2>1. /\ UNCHANGED <<identified, from, premature, met>> /\ Moves(m)
        /\ pc[m] # "unsent" /\ author(m)' = author(m)
    BY <1>0, <1>6, MessageFrame DEF history, Moves, Running, Open
  <2>2. ASSUME NEW n \in Messages \ {m}, n \notin premature'
        PROVE  Hope(n)'
    <3>1. pc'[n] = pc[n] /\ room'[n] = room[n] /\ asked'[n] = asked[n]
      BY <2>1 DEF Moves, TypeOK
    <3> QED
      BY <1>2, <2>1, <2>2, <3>1
  <2>3. ASSUME m \notin premature
        PROVE  Hope(m)'
    <3>1. pc'[m] # "begin"
      BY <1>6, MessageMoves DEF Open, Ended
    <3>2. pc'[m] \in {"find", "query"} /\ IsAdmin(m) => asked'[m] \in rooms'
      <4>1. pc'[m] \in {"find", "query"} => pc[m] \in {"begin", "find"} /\ asked' = asked
        BY <1>6, <2>1, MessageFrame DEF Moves, Off, Running, Open
      <4> QED
        BY <1>0, <2>3, <4>1 DEF Hopeful
    <3>3. pc'[m] \in {"announce", "save"} => room'[m] # None
      <4>1. None \notin rooms /\ m # None
        BY NoneAssumption DEF TypeOK
      <4>2. CASE pc[m] = "query" /\ pc'[m] = "save"
        BY <1>6, <2>3, <4>1, <4>2, MessageFrame
           DEF Off, FindAskedRoom, FindOwnRoom, RoomsOf, Hopeful, TypeOK
      <4>3. CASE pc[m] = "make" /\ pc'[m] = "announce"
        BY <1>6, <4>1, <4>3, MessageFrame DEF Off, MakeRoom, TypeOK
      <4>4. CASE pc[m] = "announce"
        BY <1>6, <2>3, <4>4, MessageFrame DEF Announce, Hopeful
      <4> QED
        BY <1>6, <2>1, <4>2, <4>3, <4>4, MessageFrame DEF Moves, Off, Running, Open
    <3>4. pc'[m] = "rollback" /\ author(m) \in Accounts => from[m] \in met \/ m \in failed'
      BY <1>6, <2>3, RollbackHasReason
    <3> QED
      BY <2>1, <3>1, <3>2, <3>3, <3>4 DEF IsAdmin
  <2> QED
    BY <2>1, <2>2, <2>3 DEF Hopeful
<1>7. CASE Restart
  BY <1>7 DEF Restart, Hopeful, TypeOK, Running, Open
<1> QED
  BY <1>3, <1>4, <1>5, <1>6, <1>7, StepCases

(* So has one that has refused it.                                         *)
LEMMA RefusalStep ==
  ASSUME TypeOK, SocketsAgree, MessagesAgree, Hopeful, RefusalHasReason, [Next]_vars
  PROVE  RefusalHasReason'
<1>0. \A m \in Messages : pc[m] # "unsent" =>
        /\ from[m] \in Sockets
        /\ pc'[m] # "unsent" /\ from'[m] = from[m] /\ author(m)' = author(m)
  BY OwnersStay DEF TypeOK, MessagesAgree
<1>1. met \subseteq met' /\ failed \subseteq failed' /\ premature \subseteq premature'
  BY HistoryStays
<1>2. ASSUME NEW m \in Messages, pc'[m] = "refused"
      PROVE  pc[m] \in {"refused", "rollback"} \/ (pc[m] # "unsent" /\ m \in failed')
  <2>1. CASE UNCHANGED vars
    BY <1>2, <2>1 DEF vars, messageVars
  <2>2. ASSUME NEW s \in Sockets, SocketStep(s)
        PROVE  pc' = pc
    BY <2>2, SocketFrame DEF messageVars
  <2>3. ASSUME NEW n \in Messages, NEW s \in Sockets, NEW r \in Asks, Send(n, s, r)
        PROVE  pc' = [pc EXCEPT ![n] = "begin"]
    BY <2>3 DEF Send
  <2>4. ASSUME NEW n \in Messages, createMessage(n)
        PROVE  /\ pc' = [pc EXCEPT ![n] = pc'[n]]
               /\ pc'[n] = "refused" => pc[n] = "rollback" \/ (pc[n] # "unsent" /\ n \in failed')
    <3>1. CASE Fails(n)
      BY <2>4, <3>1, FailsFrame DEF Moves, Running, Open
    <3>2. CASE Works(n)
      <4>1. pc' = [pc EXCEPT ![n] = pc'[n]] /\ pc[n] \in Running
        BY <2>4, MessageFrame DEF Moves
      <4>2. pc'[n] = "refused" => Rollback(n)
        BY <3>2, <4>1 DEF Works, Begin, FindUser, FindAskedRoom, FindOwnRoom, FindNoRoom, MakeRoom,
             Announce, Emit, Commit, Throw, Done, Go, End, Running, TypeOK
      <4> QED
        BY <4>1, <4>2 DEF Rollback
    <3> QED
      BY <2>4, <3>1, <3>2 DEF createMessage
  <2>5. CASE Restart
    BY <1>2, <2>5 DEF Restart, TypeOK
  <2> QED
    BY <1>2, <2>1, <2>2, <2>3, <2>4, <2>5, StepCases DEF TypeOK
<1> QED
  BY <1>0, <1>1, <1>2 DEF RefusalHasReason, Hopeful

(* The entry of the author is the socket he sends from, or the two have    *)
(* met.                                                                    *)
LEMMA EchoStep ==
  ASSUME TypeOK, SocketsAgree, MessagesAgree, MissingEntryMetAnother, EchoNeedsSecondSocket,
         [Next]_vars
  PROVE  EchoNeedsSecondSocket'
<1> USE DEF EchoNeedsSecondSocket
<1>1. CASE UNCHANGED vars
  BY <1>1 DEF vars, messageVars, history
<1>2. ASSUME NEW s \in Sockets, SocketStep(s)
      PROVE  EchoNeedsSecondSocket'
  BY <1>2, SocketFrame DEF messageVars
<1>3. ASSUME NEW m \in Messages, NEW s \in Sockets, NEW r \in Asks, Send(m, s, r)
      PROVE  EchoNeedsSecondSocket'
  <2>1. shown[m] = {}
    BY <1>3 DEF Send, MessagesAgree, TypeOK
  <2> QED
    BY <1>3, <2>1 DEF Send, TypeOK
<1>4. ASSUME NEW m \in Messages, createMessage(m)
      PROVE  EchoNeedsSecondSocket'
  <2>1. from' = from /\ met' = met /\ \A n \in Messages \ {m} : shown'[n] = shown[n]
    BY <1>4, MessageFrame DEF Emit, TypeOK, history
  <2>2. from[m] \in shown'[m] => from[m] \in met
    <3>1. CASE shown' = shown
      BY <3>1
    <3>2. CASE Emit(m)
      <4>1. from[m] \in identified
        BY <3>2 DEF Emit, MessagesAgree, Open
      <4> QED
        BY <3>1, <3>2, <4>1 DEF Emit, InRoom, MissingEntryMetAnother, author, TypeOK
    <3> QED
      BY <1>4, <3>1, <3>2, MessageFrame
  <2> QED
    BY <2>1, <2>2
<1>5. CASE Restart
  BY <1>5 DEF Restart, history
<1> QED
  BY <1>1, <1>2, <1>3, <1>4, <1>5, StepCases

-----------------------------------------------------------------------------
(* The invariant holds at first.                                           *)
LEMMA InitInv == Init => IInv
<1> USE DEF Init
<1>1. Init => TypeOK
  BY PoolAssumption, BoundAssumption DEF TypeOK, author
<1> QED
  BY <1>1 DEF IInv, TypeOK, SocketsAgree, SocketsMet, MessagesAgree, LeaksAgree, MessagesMet, Hopeful,
     EntryKnows, StaleEntryWentEarly, MissingEntryMetAnother, SecondRoomNeedsRace, RefusalHasReason,
     EchoNeedsSecondSocket, Present, Handshake, Running, Open, EntryKnowsItsRooms

(* The invariant is kept by every step.                                    *)
LEMMA StepInv == IInv /\ [Next]_vars => IInv'
<1> SUFFICES ASSUME IInv, [Next]_vars
             PROVE  IInv'
  OBVIOUS
<1> USE DEF IInv
<1>1. TypeOK' /\ SocketsAgree' /\ SocketsMet' /\ MessagesAgree' /\ LeaksAgree'
  BY TypeStep, SocketsAgreeStep, SocketsMetStep, MessagesAgreeStep, LeaksAgreeStep
<1>2. MessagesMet' /\ SecondRoomNeedsRace' /\ Hopeful' /\ RefusalHasReason' /\ EchoNeedsSecondSocket'
  BY MessagesMetStep, HopefulStep, RefusalStep, EchoStep
<1>3. StaleEntryWentEarly' /\ MissingEntryMetAnother' /\ EntryKnows'
  BY StaleEntryStep, MissingEntryStep, EntryKnowsStep
<1>4. EntryKnowsItsRooms'
  <2> SUFFICES ASSUME NEW u \in Users, (clients[u] \in connected)', phase'[clients'[u]] = "up",
                      NEW r \in RoomsOf(u)'
               PROVE  r \in joined'[clients'[u]] \cup unheard' \/ pc'[r] = "announce"
    BY DEF EntryKnowsItsRooms
  <2>1. clients'[u] \in Sockets /\ clients'[u] # None
    BY <1>1, NoneAssumption DEF TypeOK
  <2>2. roomsRead'[clients'[u]] = {}
    BY <1>1, <2>1 DEF SocketsAgree
  <2> QED
    BY <1>3, <2>1, <2>2 DEF EntryKnows, Knows
<1> QED
  BY <1>1, <1>2, <1>3, <1>4

(* IInv is kept by the sockets, the messages and the restarts of the chat. *)
THEOREM Invariance == Spec => []IInv
  BY InitInv, StepInv, PTL DEF Spec

(* Every variable stays in its range.                                      *)
THEOREM ChatTypeOK == Spec => []TypeOK
  BY Invariance, PTL DEF IInv

(* An entry of the map whose socket has not gone knows the rooms of its    *)
(* user, however joinUserRooms and the making of rooms interleave, but for *)
(* those whose making was reported as failed.                              *)
THEOREM EntryKnowsItsRoomsHolds == Spec => []EntryKnowsItsRooms
  BY Invariance, PTL DEF IInv

(* What stays in the map after its socket has gone went during the         *)
(* verification of its token.                                              *)
THEOREM StaleEntryWentEarlyHolds == Spec => []StaleEntryWentEarly
  BY Invariance, PTL DEF IInv

(* handleDisconnect takes only entries of sockets whose user had another.  *)
THEOREM MissingEntryMetAnotherHolds == Spec => []MissingEntryMetAnother
  BY Invariance, PTL DEF IInv

(* Two rooms of a user come of two messages handled at the same time.      *)
THEOREM SecondRoomNeedsRaceHolds == Spec => []SecondRoomNeedsRace
  BY Invariance, PTL DEF IInv

(* A message is refused for a reason: its author, when it was sent, what   *)
(* its socket has met, or the database.                                    *)
THEOREM RefusalHasReasonHolds == Spec => []RefusalHasReason
  BY Invariance, PTL DEF IInv

(* The author's own socket is left out of the room, unless there are two.  *)
THEOREM EchoNeedsSecondSocketHolds == Spec => []EchoNeedsSecondSocket
  BY Invariance, PTL DEF IInv

-----------------------------------------------------------------------------
(* No step leads out of a wedged pool but a restart: whoever holds a       *)
(* connection asks for another one first, or has ended without letting go. *)
LEMMA WedgedStep ==
  ASSUME TypeOK, LeaksAgree, Wedged, [Next]_vars
  PROVE  Wedged' \/ restarts' # restarts
<1> USE DEF TypeOK
<1>0. ASSUME pool' = pool, leaked' = leaked,
             \A n \in Messages : pc[n] \in Open \/ pc'[n] \in Open => pc'[n] = pc[n]
      PROVE  Wedged'
  <2>1. Holders' = Holders
    BY <1>0 DEF Holders
  <2> QED
    BY <1>0, <2>1 DEF Wedged, Free, Holders
<1>1. CASE UNCHANGED vars
  BY <1>0, <1>1 DEF vars, messageVars
<1>2. ASSUME NEW s \in Sockets, SocketStep(s), pool' = pool
      PROVE  Wedged'
  BY <1>0, <1>2, SocketFrame DEF messageVars
<1>3. ASSUME NEW m \in Messages, NEW s \in Sockets, NEW r \in Asks, Send(m, s, r), pool' = pool
      PROVE  Wedged'
  BY <1>0, <1>3 DEF Send, Open
<1>4. ASSUME NEW m \in Messages, createMessage(m)
      PROVE  FALSE
  <2>1. pc[m] \in Running \ {"begin", "find", "make"}
    BY <1>4, MessageFrame, MessageMoves DEF Wedged
  <2>2. m \in Holders /\ m \notin leaked
    BY <2>1 DEF Holders, LeaksAgree, Running, Open
  <2> QED
    BY <2>1, <2>2 DEF Wedged
<1>5. CASE Restart
  BY <1>5, PoolAssumption DEF Restart
<1> QED
  BY <1>1, <1>2, <1>3, <1>4, <1>5, StepCases

(* A pool all of whose connections are held by messages that ask for one   *)
(* more, or that have left them held, stays so, unless the process starts  *)
(* again.                                                                  *)
THEOREM WedgedForGoodHolds == Spec => WedgedForGood
<1>1. IInv /\ [Next]_vars => [Wedged => Wedged' \/ restarts' # restarts]_vars
  BY WedgedStep DEF IInv
<1> QED
  BY <1>1, Invariance, PTL DEF Spec, WedgedForGood

-----------------------------------------------------------------------------
(* The desk that SupportDesk sees.                                         *)
StatusOf(m) ==
  CASE pc[m] = "commit" -> "shown"
    [] pc[m] \in Running \ {"commit"} -> "sent"
    [] OTHER -> pc[m]

RoomsBar  == {RoomUsers(r) : r \in rooms}
LeftBar   == {m \in Messages : pc[m] # "unsent" /\ from[m] \notin connected}
SenderBar == [m \in Messages |-> IF pc[m] = "unsent" THEN None ELSE author(m)]
StatusBar == [m \in Messages |-> StatusOf(m)]
ShownBar  == [m \in Messages |-> {owner[s] : s \in shown[m]}]

(* What a step leaves alone stays as the desk sees it.                     *)
LEMMA BarsStay ==
  ASSUME IInv, [Next]_vars
  PROVE  /\ rooms' = rooms => RoomsBar' = RoomsBar
         /\ \A m \in Messages : shown'[m] = shown[m] => ShownBar'[m] = ShownBar[m]
         /\ \A m \in Messages : pc'[m] # "unsent" => pc[m] # "unsent" \/ author(m)' = SenderBar'[m]
         /\ \A m \in Messages : (pc'[m] = "unsent") = (pc[m] = "unsent") => SenderBar'[m] = SenderBar[m]
         /\ \A m \in Messages : pc'[m] = pc[m] => StatusBar'[m] = StatusBar[m]
<1>0. /\ \A s \in Sockets : phase[s] # "away" => owner'[s] = owner[s]
      /\ \A m \in Messages : pc[m] # "unsent" => author(m)' = author(m)
      /\ \A r \in rooms : RoomUsers(r)' = RoomUsers(r)
  BY OwnersStay DEF IInv
<1>1. rooms' = rooms => RoomsBar' = RoomsBar
  BY <1>0 DEF RoomsBar
<1>2. \A m \in Messages : shown'[m] = shown[m] => ShownBar'[m] = ShownBar[m]
  <2>1. \A m \in Messages : \A s \in shown[m] : owner'[s] = owner[s]
    BY <1>0 DEF IInv, TypeOK, MessagesAgree
  <2> QED
    BY <2>1 DEF ShownBar
<1>3. \A m \in Messages : pc'[m] # "unsent" => pc[m] # "unsent" \/ author(m)' = SenderBar'[m]
  BY DEF SenderBar
<1>4. \A m \in Messages : (pc'[m] = "unsent") = (pc[m] = "unsent") => SenderBar'[m] = SenderBar[m]
  BY <1>0 DEF SenderBar
<1>5. \A m \in Messages : pc'[m] = pc[m] => StatusBar'[m] = StatusBar[m]
  BY DEF StatusBar, StatusOf
<1> QED
  BY <1>1, <1>2, <1>3, <1>4, <1>5

(* A step that touches no message touches nothing of the desk.             *)
LEMMA DeskRests ==
  ASSUME IInv, [Next]_vars, rooms' = rooms, pc' = pc, shown' = shown
  PROVE  UNCHANGED <<RoomsBar, SenderBar, StatusBar, ShownBar>>
<1>1. \A m \in Messages : /\ ShownBar'[m] = ShownBar[m] /\ SenderBar'[m] = SenderBar[m]
                          /\ StatusBar'[m] = StatusBar[m]
  BY BarsStay
<1> QED
  BY <1>1, BarsStay DEF ShownBar, SenderBar, StatusBar

(* One message moves on.                                                   *)
LEMMA DeskMoves ==
  ASSUME IInv, [Next]_vars, NEW m \in Messages,
         \A n \in Messages \ {m} : pc'[n] = pc[n] /\ shown'[n] = shown[n]
  PROVE  /\ StatusBar' = [StatusBar EXCEPT ![m] = StatusOf(m)']
         /\ ShownBar' = [ShownBar EXCEPT ![m] = ShownBar'[m]]
         /\ SenderBar' = [SenderBar EXCEPT ![m] = SenderBar'[m]]
<1>1. \A n \in Messages \ {m} : /\ ShownBar'[n] = ShownBar[n] /\ SenderBar'[n] = SenderBar[n]
                                /\ StatusBar'[n] = StatusBar[n]
  BY BarsStay
<1> QED
  BY <1>1 DEF ShownBar, SenderBar, StatusBar

(* The sockets of messages that were sent never come back.                 *)
LEMMA LeftGrows ==
  ASSUME IInv, [Next]_vars
  PROVE  /\ LeftBar \subseteq LeftBar'
         /\ connected' = connected /\ (\A n \in Messages : (pc'[n] = "unsent") = (pc[n] = "unsent"))
              => LeftBar' = LeftBar
         /\ \A m \in LeftBar : StatusBar[m] # "unsent"
<1>0. /\ \A m \in Messages : pc[m] # "unsent" =>
           from[m] \in Sockets /\ phase[from[m]] # "away" /\ pc'[m] # "unsent" /\ from'[m] = from[m]
  BY OwnersStay DEF IInv, TypeOK, MessagesAgree
<1>1. ASSUME NEW t \in Sockets, phase[t] # "away", t \notin connected
      PROVE  t \notin connected'
  <2>1. CASE UNCHANGED vars
    BY <1>1, <2>1 DEF vars, socketVars
  <2>2. ASSUME NEW s \in Sockets, SocketStep(s)
        PROVE  t \notin connected'
    BY <1>1, <2>2, SocketFrame DEF IInv
  <2>3. ASSUME NEW m \in Messages,
               createMessage(m) \/ \E s \in Sockets, r \in Asks : Send(m, s, r)
        PROVE  t \notin connected'
    BY <1>1, <2>3, MessagesKeepSockets DEF IInv
  <2>4. CASE Restart
    BY <2>4 DEF Restart
  <2> QED
    BY <2>1, <2>2, <2>3, <2>4, StepCases
<1>2. \A m \in LeftBar : StatusBar[m] # "unsent"
  BY DEF LeftBar, StatusBar, StatusOf, Running, Open
<1> QED
  BY <1>0, <1>1, <1>2 DEF LeftBar

(* Sending is posting.                                                     *)
LEMMA SendStep ==
  ASSUME IInv, [Next]_vars, NEW m \in Messages, NEW s \in Sockets, NEW r \in Asks, Send(m, s, r)
  PROVE  Desk!Post(m)
<1>1. /\ rooms' = rooms /\ shown' = shown /\ pc[m] = "unsent" /\ pc'[m] = "begin"
      /\ \A n \in Messages \ {m} : pc'[n] = pc[n]
  BY DEF Send, IInv, TypeOK
<1>2. author(m)' = owner[s] /\ owner[s] \in Users
  BY DEF Send, socketVars, IInv, TypeOK, SocketsAgree, author
<1>3. StatusBar[m] = "unsent" /\ StatusOf(m)' = "sent"
  BY <1>1 DEF StatusBar, StatusOf, Running, Open
<1>4. SenderBar'[m] = owner[s]
  BY <1>1, <1>2 DEF SenderBar
<1>5. /\ StatusBar' = [StatusBar EXCEPT ![m] = "sent"]
      /\ SenderBar' = [SenderBar EXCEPT ![m] = owner[s]]
  BY <1>1, <1>3, <1>4, DeskMoves
<1>6. RoomsBar' = RoomsBar /\ ShownBar' = ShownBar
  BY <1>1, BarsStay DEF ShownBar
<1>7. LeftBar' = LeftBar /\ m \notin LeftBar
  BY <1>1 DEF Send, socketVars, LeftBar, IInv, TypeOK
<1> QED
  BY <1>2, <1>3, <1>5, <1>6, <1>7
     DEF Desk!Post, Desk!Move, StatusBar, SenderBar, ShownBar, RoomsBar, LeftBar, StatusOf

(* A socket that goes leaves the messages it has sent.                     *)
LEMMA SocketLeaves ==
  ASSUME IInv, [Next]_vars, NEW s \in Sockets, SocketStep(s)
  PROVE  Desk!Leave
<1>1. rooms' = rooms /\ pc' = pc /\ shown' = shown
  BY SocketFrame DEF IInv, messageVars
<1>2. UNCHANGED <<RoomsBar, SenderBar, StatusBar, ShownBar>>
  BY <1>1, DeskRests
<1>3. LeftBar' = LeftBar \cup LeftBar' /\ LeftBar' \subseteq {m \in Messages : StatusBar[m] # "unsent"}
  <2>1. \A m \in Messages : pc[m] # "unsent" => StatusBar[m] # "unsent"
    BY DEF StatusBar, StatusOf, Running, Open
  <2> QED
    BY <1>1, <2>1, LeftGrows DEF LeftBar
<1> QED
  BY <1>2, <1>3 DEF Desk!Leave, StatusBar, SenderBar, ShownBar, RoomsBar, LeftBar, StatusOf

(* What a step of a message leaves to be told by where it leads.           *)
LEMMA DeskSees ==
  ASSUME IInv, [Next]_vars, NEW m \in Messages, createMessage(m)
  PROVE  /\ StatusBar' = [StatusBar EXCEPT ![m] = StatusOf(m)']
         /\ SenderBar' = SenderBar /\ SenderBar[m] = author(m) /\ LeftBar' = LeftBar
         /\ ShownBar' = [ShownBar EXCEPT ![m] = ShownBar'[m]]
         /\ shown' = shown => ShownBar' = ShownBar
         /\ StatusBar[m] = IF pc[m] = "commit" THEN "shown" ELSE "sent"
         /\ m \in LeftBar <=> from[m] \notin connected
<1>1. /\ \A n \in Messages \ {m} : pc'[n] = pc[n] /\ shown'[n] = shown[n]
      /\ \A n \in Messages : (pc'[n] = "unsent") = (pc[n] = "unsent")
      /\ connected' = connected /\ pc[m] \in Running
  <2>1. Moves(m) /\ connected' = connected /\ pc[m] \in Running /\ pc'[m] \in Open \cup Ended
    BY MessageFrame, MessageMoves DEF IInv
  <2>2. \A n \in Messages \ {m} : shown'[n] = shown[n]
    BY MessageFrame DEF IInv, TypeOK, Emit
  <2> QED
    BY <2>1, <2>2 DEF Moves, IInv, TypeOK, Running, Open, Ended
<1>2. StatusBar[m] = IF pc[m] = "commit" THEN "shown" ELSE "sent"
  BY <1>1 DEF StatusBar, StatusOf, Running, Open
<1>3. \A n \in Messages : SenderBar'[n] = SenderBar[n]
  BY <1>1, BarsStay
<1>4. SenderBar' = SenderBar /\ SenderBar[m] = author(m)
  BY <1>1, <1>3 DEF SenderBar, Running, Open
<1>5. LeftBar' = LeftBar /\ (m \in LeftBar <=> from[m] \notin connected)
  BY <1>1, LeftGrows DEF LeftBar, Running, Open
<1>6. shown' = shown => ShownBar' = ShownBar
  BY BarsStay DEF ShownBar
<1> QED
  BY <1>1, <1>2, <1>4, <1>5, <1>6, DeskMoves

(* A room that is made is opened, for the author and the administrator.    *)
LEMMA RoomOpens ==
  ASSUME IInv, [Next]_vars, NEW m \in Messages, createMessage(m), rooms' = rooms \cup {m}
  PROVE  RoomsBar' = RoomsBar \cup {{SenderBar[m], TheAdmin}}
<1>1. pc[m] # "unsent"
  BY MessageMoves DEF IInv, Running, Open
<1>2. \A r \in rooms : RoomUsers(r)' = RoomUsers(r)
  BY OwnersStay DEF IInv
<1>3. RoomUsers(m)' = RoomUsers(m)
  BY <1>1, OwnersStay DEF IInv, RoomUsers
<1>4. RoomUsers(m) = {SenderBar[m], TheAdmin}
  BY <1>1 DEF RoomUsers, SenderBar
<1> QED
  BY <1>2, <1>3, <1>4 DEF RoomsBar

(* What is emitted is shown to people of one room, and by one of them or   *)
(* an administrator, and is lost when the author's socket has gone.        *)
LEMMA EmitStep ==
  ASSUME IInv, [Next]_vars, NEW m \in Messages, Emit(m), pc'[m] = "commit" \/ shown' # shown
  PROVE  Desk!Show(m)
<1> USE DEF IInv, TypeOK
<1>1. /\ rooms' = rooms /\ owner' = owner /\ from' = from /\ pc[m] = "save"
      /\ room[m] \in rooms /\ author(m) \in RoomUsers(room[m]) \cup Admins
      /\ shown'[m] \subseteq InRoom(room[m])
      /\ pc'[m] = IF from[m] \in connected THEN "commit" ELSE "lost"
  BY DEF Emit, Throw, Done, End, Go, Quiet, Silent, socketVars, MessagesAgree
<1>2. createMessage(m)
  BY DEF createMessage, Works
<1>3. StatusOf(m)' = IF m \in LeftBar THEN "lost" ELSE "shown"
  <2>1. m \in LeftBar <=> from[m] \notin connected
    BY <1>2, DeskSees
  <2> QED
    BY <1>1, <2>1 DEF StatusOf, Running, Open
<1>4. RoomsBar' = RoomsBar
  BY <1>1, BarsStay
<1>5. ShownBar'[m] \subseteq RoomUsers(room[m])
  <2>1. \A s \in shown'[m] : owner[s] \in RoomUsers(room[m])
    BY <1>1 DEF InRoom, SocketsAgree
  <2> QED
    BY <1>1, <2>1 DEF ShownBar
<1>6. RoomUsers(room[m]) \in RoomsBar
  BY <1>1 DEF RoomsBar
<1>7. /\ StatusBar[m] = "sent" /\ SenderBar[m] = author(m) /\ SenderBar' = SenderBar /\ LeftBar' = LeftBar
      /\ StatusBar' = [StatusBar EXCEPT ![m] = StatusOf(m)']
      /\ ShownBar' = [ShownBar EXCEPT ![m] = ShownBar'[m]]
  BY <1>1, <1>2, DeskSees
<1> HIDE DEF IInv, TypeOK
<1>8. \E r \in RoomsBar :
        /\ SenderBar[m] \in r \cup Admins
        /\ \E S \in SUBSET r : ShownBar' = [ShownBar EXCEPT ![m] = S]
  <2>1. SenderBar[m] \in RoomUsers(room[m]) \cup Admins
    BY <1>1, <1>7
  <2>2. \E S \in SUBSET RoomUsers(room[m]) : ShownBar' = [ShownBar EXCEPT ![m] = S]
    BY <1>5, <1>7
  <2> QED
    BY <1>6, <2>1, <2>2
<1> QED
  BY <1>3, <1>4, <1>7, <1>8
     DEF Desk!Show, Desk!Move, StatusBar, SenderBar, ShownBar, RoomsBar, LeftBar, StatusOf

(* Every step of a message is one of the desk, or shows nothing.           *)
LEMMA MessageStep ==
  ASSUME IInv, [Next]_vars, NEW m \in Messages, createMessage(m)
  PROVE  Desk!Next \/ UNCHANGED <<RoomsBar, SenderBar, StatusBar, ShownBar, LeftBar>>
<1>0. /\ pc'[m] \in Open \cup Ended
      /\ rooms' = rooms \/ (pc[m] = "make" /\ rooms' = rooms \cup {m})
      /\ shown' = shown \/ Emit(m)
      /\ pc'[m] = "lost" => from[m] \notin connected
      /\ pc'[m] = "commit" => Emit(m)
      /\ pc'[m] = "stored" => pc[m] = "commit"
      /\ pc[m] = "commit" => pc'[m] = "stored"
      /\ pc'[m] = "refused" => pc[m] \in {"begin", "rollback"}
  BY MessageFrame, MessageMoves DEF IInv, GoesOff, Off, Running, Open, Ended
<1>1. /\ StatusBar' = [StatusBar EXCEPT ![m] = StatusOf(m)']
      /\ SenderBar' = SenderBar /\ LeftBar' = LeftBar
      /\ shown' = shown => ShownBar' = ShownBar
      /\ StatusBar[m] = IF pc[m] = "commit" THEN "shown" ELSE "sent"
      /\ m \in LeftBar <=> from[m] \notin connected
  BY DeskSees
<1>2. /\ rooms' = rooms => RoomsBar' = RoomsBar
      /\ rooms' = rooms \cup {m} => RoomsBar' = RoomsBar \cup {{SenderBar[m], TheAdmin}}
  BY BarsStay, RoomOpens
<1>3. CASE Emit(m) /\ (pc'[m] = "commit" \/ shown' # shown)
  BY <1>3, EmitStep DEF Desk!Next
<1>4. CASE shown' = shown /\ pc'[m] \in Running \ {"commit"}
  <2>1. StatusOf(m)' = "sent" /\ StatusBar[m] = "sent"
    BY <1>0, <1>1, <1>4 DEF StatusOf, Running, Open
  <2>2. StatusBar' = StatusBar /\ ShownBar' = ShownBar
    BY <1>1, <1>4, <2>1 DEF StatusBar
  <2>3. CASE rooms' = rooms
    BY <1>1, <1>2, <2>2, <2>3
  <2>4. CASE rooms' = rooms \cup {m}
    <3>1. Desk!OpenRoom(m)
      BY <1>1, <1>2, <2>1, <2>2, <2>4
         DEF Desk!OpenRoom, Desk!Opened, StatusBar, SenderBar, ShownBar, RoomsBar, LeftBar, StatusOf
    <3> QED
      BY <3>1 DEF Desk!Next
  <2> QED
    BY <1>0, <2>3, <2>4
<1>5. CASE shown' = shown /\ pc'[m] \in Ended
  <2>1. StatusOf(m)' = pc'[m]
    BY <1>5 DEF StatusOf, Running, Open, Ended
  <2>2. CASE pc'[m] = "stored"
    <3>1. Desk!Store(m)
      BY <1>0, <1>1, <1>2, <1>5, <2>1, <2>2
         DEF Desk!Store, Desk!Move, StatusBar, SenderBar, ShownBar, RoomsBar, LeftBar, StatusOf
    <3> QED
      BY <3>1 DEF Desk!Next
  <2>3. CASE pc'[m] = "refused"
    <3>1. Desk!Refuse(m)
      BY <1>0, <1>1, <1>2, <1>5, <2>1, <2>3
         DEF Desk!Refuse, Desk!Move, StatusBar, SenderBar, ShownBar, RoomsBar, LeftBar, StatusOf
    <3> QED
      BY <3>1 DEF Desk!Next
  <2>4. CASE pc'[m] = "lost"
    <3>1. StatusBar[m] = "sent" /\ m \in LeftBar
      BY <1>0, <1>1, <2>4
    <3>2. Desk!Lose(m)
      BY <1>0, <1>1, <1>2, <1>5, <2>1, <2>4, <3>1
         DEF Desk!Lose, Desk!Opened, Desk!Move, StatusBar, SenderBar, ShownBar, RoomsBar, LeftBar, StatusOf
    <3> QED
      BY <3>2 DEF Desk!Next
  <2> QED
    BY <1>5, <2>2, <2>3, <2>4 DEF Ended
<1> QED
  BY <1>0, <1>3, <1>4, <1>5 DEF Running, Open, Ended

(* What is open when the process stops is lost.                            *)
LEMMA RestartStep ==
  ASSUME IInv, [Next]_vars, Restart
  PROVE  Desk!Stop
<1>1. /\ rooms' = rooms /\ shown' = shown
      /\ \A m \in Messages : pc'[m] = IF pc[m] \in Running THEN "lost" ELSE pc[m]
  BY DEF Restart, IInv, TypeOK
<1>2. \A m \in Messages : (pc'[m] = "unsent") = (pc[m] = "unsent")
  BY <1>1 DEF Running, Open
<1>3. \A m \in Messages : SenderBar'[m] = SenderBar[m] /\ ShownBar'[m] = ShownBar[m]
  BY <1>1, <1>2, BarsStay
<1>4. \A m \in Messages :
        StatusBar'[m] = IF StatusBar[m] \in {"sent", "shown"} THEN "lost" ELSE StatusBar[m]
  <2> SUFFICES ASSUME NEW m \in Messages
               PROVE  StatusOf(m)' = IF StatusOf(m) \in {"sent", "shown"} THEN "lost" ELSE StatusOf(m)
    BY DEF StatusBar
  <2>1. pc[m] \in {"unsent"} \cup Running \cup Ended
    BY DEF IInv, TypeOK
  <2> QED
    BY <1>1, <2>1 DEF StatusOf, Running, Open, Ended
<1>5. StatusBar' = [m \in Messages |->
                     IF StatusBar[m] \in {"sent", "shown"} THEN "lost" ELSE StatusBar[m]]
  BY <1>4 DEF StatusBar
<1>6. SenderBar' = SenderBar /\ ShownBar' = ShownBar /\ RoomsBar' = RoomsBar
  BY <1>1, <1>3, BarsStay DEF SenderBar, ShownBar
<1>7. LeftBar' = {m \in Messages : StatusBar[m] # "unsent"}
  <2>1. connected' = {}
    BY DEF Restart
  <2>2. \A m \in Messages : StatusBar[m] # "unsent" <=> pc[m] # "unsent"
    BY DEF StatusBar, StatusOf, Running, Open
  <2> QED
    BY <1>2, <2>1, <2>2 DEF LeftBar
<1> QED
  BY <1>5, <1>6, <1>7 DEF Desk!Stop, StatusBar, SenderBar, ShownBar, RoomsBar, LeftBar, StatusOf

(* Every step of the chat is one of the desk, or shows nothing.            *)
LEMMA RefinementStep ==
  ASSUME IInv, [Next]_vars
  PROVE  [Desk!Next]_(Desk!vars)
<1>0. ASSUME UNCHANGED <<RoomsBar, SenderBar, StatusBar, ShownBar, LeftBar>>
      PROVE  UNCHANGED Desk!vars
  BY <1>0 DEF Desk!vars, StatusBar, SenderBar, ShownBar, RoomsBar, LeftBar, StatusOf
<1>1. CASE UNCHANGED vars
  <2>1. UNCHANGED <<RoomsBar, SenderBar, StatusBar, ShownBar>>
    BY <1>1, DeskRests DEF vars, messageVars
  <2>2. LeftBar' = LeftBar
    BY <1>1, LeftGrows DEF vars, socketVars, messageVars
  <2> QED
    BY <1>0, <2>1, <2>2
<1>2. ASSUME NEW s \in Sockets, SocketStep(s)
      PROVE  Desk!Next
  BY <1>2, SocketLeaves DEF Desk!Next
<1>3. ASSUME NEW m \in Messages, NEW s \in Sockets, NEW r \in Asks, Send(m, s, r)
      PROVE  Desk!Next
  BY <1>3, SendStep DEF Desk!Next
<1>4. ASSUME NEW m \in Messages, createMessage(m)
      PROVE  [Desk!Next]_(Desk!vars)
  BY <1>0, <1>4, MessageStep
<1>5. CASE Restart
  BY <1>5, RestartStep DEF Desk!Next
<1> QED
  BY <1>1, <1>2, <1>3, <1>4, <1>5, StepCases

(* Messages are shown to people of one room and then stored, unless the    *)
(* socket has gone, whose messages are shown and never stored; rooms       *)
(* outlive the refusal or the loss of the message they were made for: the  *)
(* chat keeps what SupportDesk promises.                                   *)
THEOREM ChatImplementsSupportDesk == Spec => ImplementsSupportDesk
<1>1. Init => Desk!Init
  BY DEF Init, Desk!Init, Running, Open
<1>2. IInv /\ [Next]_vars => [Desk!Next]_(Desk!vars)
  BY RefinementStep
<1> QED
  BY <1>1, <1>2, Invariance, PTL DEF Spec, ImplementsSupportDesk, Desk!Spec

-----------------------------------------------------------------------------
(* A connection is held by no more messages than the pool has connections. *)
PoolHolds == IsFiniteSet(Holders) /\ Cardinality(Holders) <= pool

(* A message takes a connection only when one is free.                     *)
LEMMA HoldersStep ==
  ASSUME TypeOK, PoolHolds, [Next]_vars
  PROVE  PoolHolds'
<1>0. pool \in Nat /\ pool' = pool /\ IsFiniteSet(Holders) /\ Cardinality(Holders) \in Nat
  BY PoolAssumption, StepCases, FS_CardinalityType DEF TypeOK, PoolHolds, vars
<1>1. ASSUME Holders' \subseteq Holders
      PROVE  PoolHolds'
  <2>1. IsFiniteSet(Holders') /\ Cardinality(Holders') <= Cardinality(Holders)
    BY <1>0, <1>1, FS_Subset
  <2>2. Cardinality(Holders') \in Nat
    BY <2>1, FS_CardinalityType
  <2> QED
    BY <1>0, <2>1, <2>2 DEF PoolHolds
<1>2. ASSUME NEW s \in Sockets, SocketStep(s)
      PROVE  Holders' \subseteq Holders
  BY <1>2, SocketFrame DEF Holders, messageVars
<1>3. ASSUME NEW m \in Messages, NEW s \in Sockets, NEW r \in Asks, Send(m, s, r)
      PROVE  Holders' \subseteq Holders
  BY <1>3 DEF Send, Holders, Open, TypeOK
<1>4. ASSUME NEW m \in Messages, createMessage(m)
      PROVE  PoolHolds'
  <2>1. Holders' \subseteq Holders \cup {m}
    BY <1>4, MessageFrame DEF Holders, Moves, TypeOK
  <2>2. CASE pc[m] = "begin"
    <3>1. Free
      BY <1>4, <2>2, MessageFrame
    <3>2. /\ IsFiniteSet(Holders \cup {m})
          /\ Cardinality(Holders \cup {m}) <= Cardinality(Holders) + 1
          /\ Cardinality(Holders \cup {m}) \in Nat
      BY <1>0, FS_AddElement, FS_CardinalityType
    <3>3. IsFiniteSet(Holders') /\ Cardinality(Holders') <= Cardinality(Holders \cup {m})
      BY <2>1, <3>2, FS_Subset
    <3>4. Cardinality(Holders') \in Nat
      BY <3>3, FS_CardinalityType
    <3> QED
      BY <1>0, <3>1, <3>2, <3>3, <3>4 DEF PoolHolds, Free
  <2>3. CASE pc[m] # "begin"
    <3>1. m \in Holders
      BY <1>4, <2>3, MessageMoves DEF Holders, Running
    <3> QED
      BY <1>1, <2>1, <3>1
  <2> QED
    BY <2>2, <2>3
<1>5. CASE Restart
  <2>1. Holders' \subseteq Holders
    BY <1>5 DEF Restart, Holders, Running, Open, TypeOK
  <2> QED
    BY <1>1, <2>1
<1>6. CASE UNCHANGED vars
  <2>1. Holders' = Holders
    BY <1>6 DEF vars, messageVars, Holders
  <2> QED
    BY <1>1, <2>1
<1> QED
  BY <1>1, <1>2, <1>3, <1>4, <1>5, <1>6, StepCases

(* connect() is never granted beyond the pool, whatever the numbers of     *)
(* messages and connections (ws-transaction.interceptor.ts 14-36).         *)
THEOREM PoolIsNeverOverdrawn == Spec => []PoolHolds
<1>1. Init => PoolHolds
  <2> SUFFICES ASSUME Init
               PROVE  PoolHolds
    OBVIOUS
  <2>1. Holders = {} /\ pool \in Nat
    BY PoolAssumption DEF Init, Holders, Open
  <2> QED
    BY <2>1, FS_EmptySet DEF PoolHolds
<1>2. TypeOK /\ PoolHolds /\ [Next]_vars => PoolHolds'
  BY HoldersStep
<1> QED
  BY <1>1, <1>2, ChatTypeOK, PTL DEF Spec

(* What a wedge takes: as many messages as the pool has connections, any   *)
(* two of which were handled at the same time, but for those that have     *)
(* left theirs held, which were refused or whose socket has gone.          *)
WedgeTakesPoolful ==
  Wedged =>
    /\ Cardinality(Holders) = pool
    /\ \A m, n \in Holders \ leaked : m # n => {m, n} \in together
    /\ \A m \in leaked : pc[m] = "refused" \/ (pc[m] = "lost" /\ from[m] \notin connected)

(* As long as fewer messages than the pool has connections are handled at  *)
(* the same time or have left one held, the chat does not wedge; one       *)
(* message alone wedges a pool of one (ws-transaction.interceptor.ts       *)
(* 14-35, chat.service.ts 48, 89).                                         *)
THEOREM WedgeTakesAPoolful == Spec => []WedgeTakesPoolful
<1>1. IInv /\ PoolHolds => WedgeTakesPoolful
  <2> SUFFICES ASSUME IInv, PoolHolds, Wedged
               PROVE  /\ Cardinality(Holders) = pool
                      /\ \A m, n \in Holders \ leaked : m # n => {m, n} \in together
                      /\ \A m \in leaked :
                           pc[m] = "refused" \/ (pc[m] = "lost" /\ from[m] \notin connected)
    BY DEF WedgeTakesPoolful
  <2>1. pool \in Nat /\ Cardinality(Holders) \in Nat
    BY PoolAssumption, FS_CardinalityType DEF IInv, TypeOK, PoolHolds
  <2>2. Cardinality(Holders) = pool
    BY <2>1 DEF PoolHolds, Wedged, Free
  <2>3. \A m \in Holders \ leaked : m \in Messages /\ pc[m] \in Running
    BY DEF Holders, Running
  <2> QED
    BY <2>2, <2>3 DEF IInv, MessagesMet, LeaksAgree
<1> QED
  BY <1>1, Invariance, PoolIsNeverOverdrawn, PTL

-----------------------------------------------------------------------------
(* How far the handling of a message and of a connection has come.         *)
MessagePlace(m) ==
  CASE pc[m] = "unsent" -> 0
    [] pc[m] = "begin" -> 1
    [] pc[m] = "find" -> 2
    [] pc[m] = "query" -> 3
    [] pc[m] = "make" -> 4
    [] pc[m] = "announce" -> 5
    [] pc[m] = "save" -> 6
    [] pc[m] \in {"commit", "rollback"} -> 7
    [] OTHER -> 8

SocketPlace(s) ==
  CASE phase[s] = "away" -> 0
    [] phase[s] = "verifying" -> 1
    [] phase[s] = "reading" -> 2
    [] phase[s] = "joining" -> 3
    [] OTHER -> 4

(* Nothing goes back, and whoever steps comes closer to its end.           *)
Advances ==
  /\ \A m \in Messages : MessagePlace(m) <= MessagePlace(m)'
  /\ \A s \in Sockets : SocketPlace(s) <= SocketPlace(s)'
  /\ \A m \in Messages : createMessage(m) => MessagePlace(m) < MessagePlace(m)'
  /\ \A s \in Sockets : Handle(s) => SocketPlace(s) < SocketPlace(s)'

WorkAdvances == [][Advances]_vars

(* A step of a message brings it closer to its end.                        *)
LEMMA MessageAdvances ==
  ASSUME TypeOK, NEW m \in Messages, createMessage(m)
  PROVE  MessagePlace(m) < MessagePlace(m)'
BY MessageFrame DEF MessagePlace, Moves, Off, Running, Open

(* So does a step of handleConnection.                                     *)
LEMMA SocketAdvances ==
  ASSUME TypeOK, NEW s \in Sockets, Handle(s)
  PROVE  SocketPlace(s) < SocketPlace(s)'
<1> USE DEF SocketPlace, TypeOK
<1>1. CASE TokenRefused(s) \/ ReadFails(s)
  BY <1>1 DEF TokenRefused, ReadFails, Expel
<1>2. CASE TokenVerified(s)
  BY <1>2 DEF TokenVerified
<1>3. CASE ReadRooms(s)
  BY <1>3 DEF ReadRooms
<1>4. CASE JoinRooms(s)
  BY <1>4 DEF JoinRooms
<1> QED
  BY <1>1, <1>2, <1>3, <1>4 DEF Handle

(* Places are numbers that depend on nothing but where the handler is.     *)
LEMMA PlacesType ==
  /\ \A m \in Messages : MessagePlace(m) \in 0 .. 8 /\ MessagePlace(m)' \in 0 .. 8
  /\ \A s \in Sockets : SocketPlace(s) \in 0 .. 4 /\ SocketPlace(s)' \in 0 .. 4
  /\ \A m \in Messages : pc'[m] = pc[m] => MessagePlace(m)' = MessagePlace(m)
  /\ \A s \in Sockets : phase'[s] = phase[s] => SocketPlace(s)' = SocketPlace(s)
BY DEF MessagePlace, SocketPlace

(* No step takes a handler back.                                           *)
LEMMA AdvancesStep ==
  ASSUME TypeOK, [Next]_vars
  PROVE  Advances
<1> SUFFICES /\ \A m \in Messages : MessagePlace(m) <= MessagePlace(m)'
             /\ \A s \in Sockets : SocketPlace(s) <= SocketPlace(s)'
  BY MessageAdvances, SocketAdvances DEF Advances
<1>1. CASE UNCHANGED vars
  <2>1. pc' = pc /\ phase' = phase
    BY <1>1 DEF vars, socketVars, messageVars
  <2> QED
    BY <2>1, PlacesType
<1>2. ASSUME NEW s \in Sockets, SocketStep(s)
      PROVE  /\ \A m \in Messages : MessagePlace(m) <= MessagePlace(m)'
             /\ \A t \in Sockets : SocketPlace(t) <= SocketPlace(t)'
  <2>1. pc' = pc /\ \A t \in Sockets \ {s} : phase'[t] = phase[t]
    BY <1>2, SocketFrame DEF messageVars
  <2>2. SocketPlace(s) <= SocketPlace(s)'
    <3>1. CASE Handle(s)
      BY <3>1, SocketAdvances, PlacesType
    <3>2. CASE \E u \in Brings[s] : Connect(s, u)
      BY <3>2 DEF Connect, SocketPlace, TypeOK
    <3>3. CASE Disconnect(s)
      BY <3>3, PlacesType DEF Disconnect
    <3> QED
      BY <1>2, <3>1, <3>2, <3>3 DEF SocketStep
  <2> QED
    BY <2>1, <2>2, PlacesType
<1>3. ASSUME NEW m \in Messages, NEW s \in Sockets, NEW r \in Asks, Send(m, s, r)
      PROVE  /\ \A n \in Messages : MessagePlace(n) <= MessagePlace(n)'
             /\ \A t \in Sockets : SocketPlace(t) <= SocketPlace(t)'
  <2>1. /\ phase' = phase /\ pc[m] = "unsent" /\ \A n \in Messages \ {m} : pc'[n] = pc[n]
    BY <1>3 DEF Send, socketVars, TypeOK
  <2>2. MessagePlace(m) = 0
    BY <2>1 DEF MessagePlace
  <2> QED
    BY <2>1, <2>2, PlacesType
<1>4. ASSUME NEW m \in Messages, createMessage(m)
      PROVE  /\ \A n \in Messages : MessagePlace(n) <= MessagePlace(n)'
             /\ \A t \in Sockets : SocketPlace(t) <= SocketPlace(t)'
  <2>1. phase' = phase /\ \A n \in Messages \ {m} : pc'[n] = pc[n]
    BY <1>4, MessageFrame DEF Moves, TypeOK
  <2> QED
    BY <1>4, <2>1, MessageAdvances, PlacesType
<1>5. CASE Restart
  <2>1. \A m \in Messages : pc'[m] = pc[m] \/ pc'[m] = "lost"
    BY <1>5 DEF Restart, TypeOK
  <2>2. \A s \in Sockets : phase'[s] = phase[s] \/ phase'[s] = "closed"
    BY <1>5 DEF Restart, TypeOK
  <2>3. /\ \A m \in Messages : pc'[m] = "lost" => MessagePlace(m)' = 8
        /\ \A s \in Sockets : phase'[s] = "closed" => SocketPlace(s)' = 4
    BY DEF MessagePlace, SocketPlace
  <2> QED
    BY <2>1, <2>2, <2>3, PlacesType
<1> QED
  BY <1>1, <1>2, <1>3, <1>4, <1>5, StepCases

(* No handler ever goes back and each of its steps brings it closer to its *)
(* end, whatever is rejected or thrown on the way, so a message takes at   *)
(* most seven steps from connect() and a socket three from the token to    *)
(* its rooms: with WorkGoesOn, nothing but a wedge keeps them from ending  *)
(* (ws-transaction.interceptor.ts 11-36, chat.gateway.ts 26-44).           *)
THEOREM WorkIsShort == Spec => WorkAdvances
<1>1. TypeOK /\ [Next]_vars => [Advances]_vars
  BY AdvancesStep
<1> QED
  BY <1>1, ChatTypeOK, PTL DEF Spec, WorkAdvances

-----------------------------------------------------------------------------
(* What each step asks of the state: a connection, or its turn alone.      *)
MessageMay(m) == pc[m] \in Running /\ (pc[m] \in {"begin", "find", "make"} => Free)
SocketMay(s)  == phase[s] \in Handshake /\ (phase[s] = "reading" => Free)

(* No step is made without it.                                             *)
LEMMA StepsMay ==
  ASSUME TypeOK
  PROVE  /\ \A m \in Messages : createMessage(m) => MessageMay(m)
         /\ \A s \in Sockets : Handle(s) => SocketMay(s)
<1>1. ASSUME NEW m \in Messages, createMessage(m)
      PROVE  MessageMay(m)
  BY <1>1, MessageFrame, MessageMoves DEF MessageMay
<1>2. ASSUME NEW s \in Sockets, Handle(s)
      PROVE  SocketMay(s)
  BY <1>2 DEF Handle, TokenRefused, TokenVerified, ReadRooms, ReadFails, JoinRooms, SocketMay,
              Handshake
<1> QED
  BY <1>1, <1>2

(* Work that has begun may go on, unless the pool is wedged.               *)
OnlyWedgesStop ==
  \/ Idle \/ Wedged
  \/ \E s \in Sockets : SocketMay(s)
  \/ \E m \in Messages : MessageMay(m)

(* For every pool and any number of messages, as long as a message or a    *)
(* socket has not come to its end one of them is not waiting for a         *)
(* connection, or there is one, unless every connection is held by a       *)
(* message that asks for another, or by one that has ended and left it     *)
(* held (ws-transaction.interceptor.ts 14-35, chat.service.ts 48 and 89).  *)
(* That its step is then enabled is WorkGoesOn.                            *)
THEOREM NothingElseWaits == Spec => []OnlyWedgesStop
<1>1. TypeOK => OnlyWedgesStop
  <2> SUFFICES ASSUME TypeOK, ~ Idle, ~ Wedged
               PROVE  \/ \E s \in Sockets : SocketMay(s)
                      \/ \E m \in Messages : MessageMay(m)
    BY DEF OnlyWedgesStop
  <2>1. CASE Free
    BY <2>1 DEF Idle, SocketMay, MessageMay
  <2>2. CASE ~ Free
    <3>1. PICK m \in Holders \ leaked : pc[m] \notin {"find", "make"}
      BY <2>2 DEF Wedged
    <3>2. m \in Messages /\ pc[m] \in Running \ {"begin", "find", "make"}
      BY <3>1 DEF Holders, Running, Open
    <3> QED
      BY <3>2 DEF MessageMay
  <2> QED
    BY <2>1, <2>2
<1> QED
  BY <1>1, ChatTypeOK, PTL

=============================================================================

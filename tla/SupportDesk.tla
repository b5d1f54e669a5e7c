---------------------------- MODULE SupportDesk ----------------------------
(***************************************************************************)
(* What the support chat promises of its messages, whatever sockets come   *)
(* and go: a message is shown only to the people of one room, and comes    *)
(* from one of them or from an administrator; one that is shown while its  *)
(* sender is still there is not refused or lost, unless the process stops  *)
(* before it is stored; one whose sender has left may be lost, and is lost *)
(* for certain when it is shown then.                                      *)
(***************************************************************************)
CONSTANTS
  Messages,   \* messages
  Users,      \* users
  Admins,     \* the administrators, who may write to any room
  Admin,      \* the one of them who is in every room that is opened
  None

VARIABLES
  rooms,   \* the rooms there are: the people in each
  sender,  \* who has sent each message
  status,  \* how far it is
  shown,   \* who has been shown it
  left     \* the messages whose sender has left

vars == <<rooms, sender, status, shown, left>>

TypeOK ==
  /\ rooms \subseteq SUBSET Users
  /\ sender \in [Messages -> Users \cup {None}]
  /\ status \in [Messages -> {"unsent", "sent", "shown", "stored", "refused", "lost"}]
  /\ shown \in [Messages -> SUBSET Users]
  /\ left \subseteq Messages

Init ==
  /\ rooms = {}
  /\ sender = [m \in Messages |-> None]
  /\ status = [m \in Messages |-> "unsent"]
  /\ shown = [m \in Messages |-> {}]
  /\ left = {}

Move(m, before, after) ==
  /\ status[m] = before
  /\ status' = [status EXCEPT ![m] = after]

Post(m) ==
  /\ Move(m, "unsent", "sent")
  /\ m \notin left
  /\ \E u \in Users : sender' = [sender EXCEPT ![m] = u]
  /\ UNCHANGED <<rooms, shown, left>>

Opened(m) == rooms \cup {{sender[m], Admin}}

OpenRoom(m) ==
  /\ status[m] = "sent"
  /\ rooms' = Opened(m)
  /\ UNCHANGED <<sender, status, shown, left>>

Show(m) ==
  /\ Move(m, "sent", IF m \in left THEN "lost" ELSE "shown")
  /\ \E r \in rooms :
       /\ sender[m] \in r \cup Admins
       /\ \E S \in SUBSET r : shown' = [shown EXCEPT ![m] = S]
  /\ UNCHANGED <<rooms, sender, left>>

Store(m)  == Move(m, "shown", "stored") /\ UNCHANGED <<rooms, sender, shown, left>>
Refuse(m) == Move(m, "sent", "refused") /\ UNCHANGED <<rooms, sender, shown, left>>

(* It may have opened its room before.                                     *)
Lose(m) ==
  /\ m \in left
  /\ Move(m, "sent", "lost")
  /\ rooms' \in {rooms, Opened(m)}
  /\ UNCHANGED <<sender, shown, left>>

Leave ==
  /\ UNCHANGED <<status, rooms, sender, shown>>
  /\ \E S \in SUBSET {m \in Messages : status[m] # "unsent"} : left' = left \cup S

Stop ==
  /\ status' = [m \in Messages |-> IF status[m] \in {"sent", "shown"} THEN "lost" ELSE status[m]]
  /\ left' = {m \in Messages : status[m] # "unsent"}
  /\ UNCHANGED <<rooms, sender, shown>>

Next ==
  \/ Leave \/ Stop
  \/ \E m \in Messages :
       Post(m) \/ OpenRoom(m) \/ Show(m) \/ Store(m) \/ Refuse(m) \/ Lose(m)

Spec == Init /\ [][Next]_vars
=============================================================================

---------------------------- MODULE LikeButtons ----------------------------
(***************************************************************************)
(* What the like / dislike buttons of a movie promise when presses of one  *)
(* user overlap.  A button is off (Null) or lit: somebody's press lit it,  *)
(* in the colour like (TRUE) or dislike (FALSE).  A press looks at its     *)
(* button once and later acts on what it saw, at most once.  A press that  *)
(* saw the button off lights it, if it still is off.  One that saw it lit  *)
(* turns it off when it saw its own colour and to its own colour if not,   *)
(* but only while the button is lit by the same press as it was then.      *)
(***************************************************************************)

CONSTANTS Requests, Movies, Users, Null

VARIABLES
  like,    \* what each button shows
  plan,    \* per press: its button, what it saw there, its colour
  acted    \* the presses that took effect or never will

vars == <<like, plan, acted>>

Button == Movies \X Users
Lit    == [by : Requests, isLike : BOOLEAN]
Plan   == [button : Button, saw : Lit \cup {Null}, isLike : BOOLEAN]

Init ==
  /\ like = [b \in Button |-> Null]
  /\ plan = [p \in Requests |-> Null]
  /\ acted = {}

Look(p) ==
  /\ plan[p] = Null
  /\ \E b \in Button, v \in BOOLEAN :
       plan' = [plan EXCEPT ![p] = [button |-> b, saw |-> like[b], isLike |-> v]]
  /\ UNCHANGED <<like, acted>>

May(p) == plan[p] # Null /\ p \notin acted

Light(p) ==
  /\ May(p)
  /\ plan[p].saw = Null
  /\ like[plan[p].button] = Null
  /\ like' = [like EXCEPT ![plan[p].button] = [by |-> p, isLike |-> plan[p].isLike]]
  /\ acted' = acted \cup {p}
  /\ UNCHANGED plan

Switch(p) ==
  /\ May(p)
  /\ plan[p].saw # Null
  /\ like[plan[p].button] # Null
  /\ like[plan[p].button].by = plan[p].saw.by
  /\ like' = [like EXCEPT ![plan[p].button] =
                IF plan[p].saw.isLike = plan[p].isLike THEN Null
                ELSE [by |-> plan[p].saw.by, isLike |-> plan[p].isLike]]
  /\ acted' = acted \cup {p}
  /\ UNCHANGED plan

(* Presses that come too late, or whose process is gone, have no effect. *)
Miss(S) ==
  /\ \A p \in S : May(p)
  /\ acted' = acted \cup S
  /\ UNCHANGED <<like, plan>>

Next ==
  \/ \E p \in Requests : Look(p) \/ Light(p) \/ Switch(p)
  \/ \E S \in SUBSET Requests : Miss(S)

Spec == Init /\ [][Next]_vars
=============================================================================

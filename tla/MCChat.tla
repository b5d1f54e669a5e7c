------------------------------- MODULE MCChat -------------------------------
(* Instances of Chat for TLC.  The first socket is u1's; the second is of  *)
(* the same user, of another one, of the administrator, or of somebody who *)
(* has a token and no account.                                             *)
EXTENDS Chat

CONSTANTS u1, u2, adm, ghost

MCUsers    == {u1, u2, adm, ghost}
MCAccounts == {u1, u2, adm}
MCBrings   == [s \in Sockets |-> IF s = 1 THEN {u1} ELSE MCUsers]
MCAsks     == {1, None}

(* Over a pool that no message has to wait for, none is failed.            *)
MCFrail    == [n \in Pools |-> IF n > Cardinality(Messages) THEN {} ELSE {1}]
=============================================================================

----------------------------- MODULE MCRecords -----------------------------
(* Instances of Records for TLC: every operation of the three services,    *)
(* with names two records may want and two passwords.                      *)
EXTENDS Records

CONSTANTS n1, n2, p1, p2, none

Request(s, op, n, p) == [service |-> s, op |-> op, name |-> n, secret |-> p]

MCAsks ==
  {Request("user", "create", n1, p) : p \in {p1, p2}}
  \cup {Request("user", "login", n1, p1),
        Request("user", "create", n2, p1),
        Request("user", "update", n1, p2), Request("user", "update", Null, none)}
  \cup {Request(s, "create", n1, Null) : s \in {"genre", "director"}}
  \cup {Request(s, "update", n2, Null) : s \in {"genre", "director"}}
  \cup {Request("genre", "create", n2, Null)}
  \cup {Request(s, op, Null, Null) : s \in Services, op \in {"remove", "findOne"}}
=============================================================================

----------------------------- MODULE MovieViews -----------------------------
(***************************************************************************)
(* Two routes that remember: the list of recent movies, kept in two        *)
(* entries of the cache, one of the route and one of the service, and the  *)
(* page of a movie, which counts its views in the session.  Every request  *)
(* loads its client's session when it comes and saves it when it ends.  A  *)
(* list is known by the version of the movies it was made from.            *)
(***************************************************************************)
EXTENDS Integers

CONSTANTS
  Requests,     \* requests, numbered as they come
  Clients,      \* clients, each with a session
  MaxVersion,   \* bound: how often the movies change
  MaxRestarts,  \* bound: how often the process starts again
  Null

ASSUME BoundAssumption == Requests \subseteq Nat /\ MaxVersion \in Nat /\ MaxRestarts \in Nat
ASSUME NullAssumption == Null \notin Nat \cup Clients

VARIABLES
  version,    \* the movies, as they are now
  recent,     \* the entry 'MOVIE_RECENT' of the service
  routed,     \* the entry 'getMoviesRecent' of the route
  counts,     \* session.movieCount of the movie, as the store has it
  restarts,   \* bound: restarts so far
  pc,         \* where each request is
  route,      \* the route it asks for
  client,     \* whose it is
  loaded,     \* the count in the session it has loaded
  list,       \* the list it has
  views,      \* history: views that have ended since the session began
  crowded,    \* history: clients that had two requests at a time since then
  raced,      \* history: two requests have held lists at a time, since nothing
              \*   was remembered and nobody was asking
  floor,      \* history: the version when last no list was kept or held
  newest,     \* history: the newest list that has been answered
  latest      \* history: what it was when each request came

asked   == <<route, client, latest>>
noted   == <<views, crowded, newest>>
vars    == <<version, recent, routed, counts, restarts, pc, asked, loaded, list, noted,
             raced, floor>>

Running == {"outer", "inner", "find", "set", "put", "movie", "end"}
Versions == 0 .. MaxVersion
Counts   == Nat

TypeOK ==
  /\ version \in Versions /\ floor \in Versions /\ newest \in Versions
  /\ recent \in Versions \cup {Null} /\ routed \in Versions \cup {Null}
  /\ counts \in [Clients -> Counts] /\ views \in [Clients -> Counts]
  /\ restarts \in 0 .. MaxRestarts
  /\ pc \in [Requests -> {"idle", "done", "lost"} \cup Running]
  /\ route \in [Requests -> {"recent", "movie", Null}]
  /\ client \in [Requests -> Clients \cup {Null}]
  /\ loaded \in [Requests -> Counts]
  /\ list \in [Requests -> Versions \cup {Null}] /\ latest \in [Requests -> Versions]
  /\ crowded \subseteq Clients /\ raced \in BOOLEAN
  /\ \A r \in Requests : pc[r] \in Running => client[r] \in Clients
  /\ \A r \in Requests : pc[r] \in {"set", "put"} => list[r] # Null

Init ==
  /\ version = 0 /\ floor = 0 /\ newest = 0
  /\ recent = Null /\ routed = Null
  /\ counts = [c \in Clients |-> 0] /\ views = [c \in Clients |-> 0]
  /\ restarts = 0
  /\ pc = [r \in Requests |-> "idle"] /\ route = [r \in Requests |-> Null]
  /\ client = [r \in Requests |-> Null] /\ loaded = [r \in Requests |-> 0]
  /\ list = [r \in Requests |-> Null] /\ latest = [r \in Requests |-> 0]
  /\ crowded = {} /\ raced = FALSE

(* The lists requests hold, and whether nothing at all is remembered.      *)
Asking    == {r \in Requests : pc[r] \in Running}
Holding   == {r \in Requests : pc[r] \in {"find", "set", "put"}}
Forgotten == recent = Null /\ routed = Null /\ Holding = {}

(* What every step notes.                                                  *)
Note ==
  /\ raced' = IF Forgotten' /\ Asking' = {} THEN FALSE ELSE raced \/ (\E r, q \in Holding' : r # q)
  /\ floor' = IF Forgotten' THEN version' ELSE floor

Arrive(r, k, c) ==
  /\ pc[r] = "idle"
  /\ \A q \in Requests : q < r => pc[q] # "idle"
  /\ pc' = [pc EXCEPT ![r] = IF k = "recent" THEN "outer" ELSE "movie"]
  /\ route' = [route EXCEPT ![r] = k]
  /\ client' = [client EXCEPT ![r] = c]
  /\ loaded' = [loaded EXCEPT ![r] = counts[c]]
  /\ latest' = [latest EXCEPT ![r] = newest]
  /\ crowded' = IF \E q \in Requests : pc[q] \in Running /\ client[q] = c
                THEN crowded \cup {c} ELSE crowded
  /\ UNCHANGED <<version, recent, routed, counts, restarts, list, views, newest>>

Go(r, step) == pc' = [pc EXCEPT ![r] = step]

Still == UNCHANGED <<version, counts, restarts, asked, loaded, noted>>

(* The interceptor of the route.                                           *)
GetRouted(r) ==
  /\ pc[r] = "outer"
  /\ list' = [list EXCEPT ![r] = routed]
  /\ Go(r, IF routed = Null THEN "inner" ELSE "end")
  /\ UNCHANGED <<recent, routed>> /\ Still

GetRecent(r) ==
  /\ pc[r] = "inner"
  /\ list' = [list EXCEPT ![r] = recent]
  /\ Go(r, IF recent = Null THEN "find" ELSE "put")
  /\ UNCHANGED <<recent, routed>> /\ Still

(* A bug the checks must notice: a secondary that lags is read.            *)
FindLagging(r) ==
  /\ pc[r] = "find"
  /\ \E v \in 0 .. version : list' = [list EXCEPT ![r] = v]
  /\ Go(r, "set")
  /\ UNCHANGED <<recent, routed>> /\ Still

Find(r) ==
  /\ pc[r] = "find"
  /\ list' = [list EXCEPT ![r] = version]
  /\ Go(r, "set")
  /\ UNCHANGED <<recent, routed>> /\ Still

SetRecent(r) ==
  /\ pc[r] = "set"
  /\ recent' = list[r]
  /\ Go(r, "put")
  /\ UNCHANGED <<routed, list>> /\ Still

PutRouted(r) ==
  /\ pc[r] = "put"
  /\ routed' = list[r]
  /\ Go(r, "end")
  /\ UNCHANGED <<recent, list>> /\ Still

(* The query fails: the answer is an error.                                *)
FindFails(r) ==
  /\ pc[r] = "find"
  /\ Go(r, "end")
  /\ UNCHANGED <<recent, routed, list>> /\ Still

(* The handler counts at once, in the session the request has loaded, and  *)
(* the movie is looked up, found or not.                                   *)
ViewMovie(r) ==
  /\ pc[r] = "movie"
  /\ loaded' = [loaded EXCEPT ![r] = @ + 1]
  /\ Go(r, "end")
  /\ UNCHANGED <<version, recent, routed, counts, restarts, asked, list, noted>>

(* A request that has ended, or is lost, takes its variables with it.      *)
Leave(R, how) ==
  /\ pc' = [r \in Requests |-> IF r \in R THEN how ELSE pc[r]]
  /\ route' = [r \in Requests |-> IF r \in R THEN Null ELSE route[r]]
  /\ client' = [r \in Requests |-> IF r \in R THEN Null ELSE client[r]]
  /\ loaded' = [r \in Requests |-> IF r \in R THEN 0 ELSE loaded[r]]
  /\ list' = [r \in Requests |-> IF r \in R THEN Null ELSE list[r]]
  /\ latest' = [r \in Requests |-> IF r \in R THEN 0 ELSE latest[r]]

Ended(r) ==
  /\ views' = [views EXCEPT ![client[r]] = IF route[r] = "movie" THEN @ + 1 ELSE @]
  /\ newest' = IF list[r] # Null /\ list[r] > newest THEN list[r] ELSE newest
  /\ Leave({r}, "done")
  /\ UNCHANGED <<version, recent, routed, restarts, crowded>>

(* A bug the checks must notice: a session is saved once and for all.      *)
EndUnlessViewed(r) ==
  /\ pc[r] = "end"
  /\ counts' = IF counts[client[r]] = 0 THEN [counts EXCEPT ![client[r]] = loaded[r]] ELSE counts
  /\ Ended(r)

(* The session is saved whether the handler changed it or not.             *)
End(r) ==
  /\ pc[r] = "end"
  /\ counts' = [counts EXCEPT ![client[r]] = loaded[r]]
  /\ Ended(r)

(* The movies change, and nobody tells the cache.                          *)
Change ==
  /\ version < MaxVersion
  /\ version' = version + 1
  /\ UNCHANGED <<recent, routed, counts, restarts, pc, asked, loaded, list, noted>>

(* The route's entry lives for a second; either may be evicted from a full *)
(* cache.                                                                  *)
Drop ==
  /\ \/ routed # Null /\ routed' = Null /\ UNCHANGED recent
     \/ recent # Null /\ recent' = Null /\ UNCHANGED routed
  /\ UNCHANGED <<version, counts, restarts, pc, asked, loaded, list, noted>>

(* Cache and sessions are in the process.                                  *)
Restart ==
  /\ restarts < MaxRestarts
  /\ restarts' = restarts + 1
  /\ recent' = Null /\ routed' = Null
  /\ counts' = [c \in Clients |-> 0] /\ views' = [c \in Clients |-> 0]
  /\ Leave(Asking, "lost")
  /\ crowded' = {}
  /\ UNCHANGED <<version, newest>>

Serve(r) == \/ GetRouted(r) \/ GetRecent(r) \/ Find(r) \/ FindFails(r) \/ SetRecent(r)
            \/ PutRouted(r) \/ ViewMovie(r) \/ End(r)

Step ==
  \/ \E r \in Requests : Serve(r) \/ \E k \in {"recent", "movie"}, c \in Clients : Arrive(r, k, c)
  \/ Change \/ Drop \/ Restart

Next == Step /\ Note

Spec == Init /\ [][Next]_vars

(***************************************************************************)
(* Properties.                                                             *)
(***************************************************************************)
(* A list is at least as new as the newest one answered before it was      *)
(* asked for, unless two requests have held lists at the same time: then   *)
(* the older may be kept last (movie.service.ts 67-96, movie.controller.ts *)
(* 57-61).                                                                 *)
ListsGoForward ==
  \A r \in Requests : pc[r] = "end" /\ list[r] # Null /\ ~raced => list[r] >= latest[r]

(* Whatever overlaps, no list is older than the movies were when last no   *)
(* list was kept or held: nothing outlives the two entries                 *)
(* (movie.service.ts 67-96, movie.controller.ts 57-61).                    *)
NothingOutlivesTheCache ==
  /\ recent # Null => recent >= floor
  /\ routed # Null => routed >= floor
  /\ \A r \in Requests : pc[r] \in {"set", "put"} => list[r] >= floor

(* The session counts every view of a client who makes one request at a    *)
(* time, and never more than were made; any two requests of a session at a *)
(* time may lose one, for each saves the session it has loaded             *)
(* (movie.controller.ts 71-78, main.ts 45-49).                             *)
ViewsAreCounted ==
  \A c \in Clients :
    /\ counts[c] <= views[c]
    /\ c \notin crowded => counts[c] = views[c]
=============================================================================

------------------------------ MODULE Throttle ------------------------------
(***************************************************************************)
(* ThrottleInterceptor around one @Throttle handler, GET /movie: the calls *)
(* of a user are counted in the cache under the minute of the hour they    *)
(* came in.  The count is checked before the handler and raised, by a get  *)
(* and a set, after it has answered.                                       *)
(***************************************************************************)
EXTENDS Naturals, FiniteSets

CONSTANTS
  Requests,   \* calls of the handler
  Users,      \* the subs of their tokens
  Limit,      \* throttleOptions.count
  Minute,     \* the length of a minute, and the ttl of a counter
  Hour,       \* minutes in an hour: after so many a key is used again
  Latency,    \* assumption: how long a call may take, its counting included
  MaxTime,    \* bound: the clock stops here
  Null

ASSUME LimitAssumption == Limit \in Nat \ {0}
ASSUME ClockAssumption ==
  /\ Minute \in Nat \ {0} /\ Hour \in Nat \ {0} /\ MaxTime \in Nat
  /\ Latency \in Nat /\ Latency + 2 * Minute <= Hour * Minute
ASSUME NullAssumption == Null \notin Users

VARIABLES
  now,      \* the clock
  count,    \* the value under each key
  until,    \* when the cache drops it
  pc,       \* where each call is, or how it was answered
  call,     \* its user, Null for a token without sub, and when it came
  seen,     \* the count it is about to raise
  served,   \* history: the calls answered, per user and minute
  spoiled   \* history: the users and minutes with overlapping calls or a
            \*   counter the cache has evicted

vars == <<now, count, until, pc, call, seen, served, spoiled>>

Minutes == 0 .. MaxTime \div Minute
Slots   == Users \X Minutes               \* what calls are limited for
Keys    == Users \X (0 .. Hour - 1)       \* getMinutes() wraps

MinuteOf(time) == time \div Minute

Running  == {"handle", "get", "set"}

(* The slot and the key of a call with a user.                             *)
Slot(r) == <<call[r].user, MinuteOf(call[r].at)>>
Key(r)  == <<call[r].user, MinuteOf(call[r].at) % Hour>>

Value(k) == IF until[k] > now THEN count[k] ELSE 0

-----------------------------------------------------------------------------
Init ==
  /\ now = 0
  /\ count = [k \in Keys |-> 0]
  /\ until = [k \in Keys |-> 0]
  /\ pc = [r \in Requests |-> "idle"]
  /\ call = [r \in Requests |-> [user |-> Null, at |-> 0]]
  /\ seen = [r \in Requests |-> 0]
  /\ served = [s \in Slots |-> 0]
  /\ spoiled = {}

(* A call comes in; one whose token has no sub is not throttled.  The      *)
(* minute is taken and the counter is looked up in one turn.               *)
Pass(r, u, passes) ==
  /\ pc[r] = "idle"
  /\ call' = [call EXCEPT ![r] = [user |-> u, at |-> now]]
  /\ pc' = [pc EXCEPT ![r] = IF passes THEN "handle" ELSE "forbidden"]
  /\ spoiled' = IF \E q \in Requests : pc[q] \in Running /\ call[q].user = u /\ u # Null
                THEN spoiled \cup {<<u, MinuteOf(now)>>} ELSE spoiled
  /\ UNCHANGED <<now, count, until, seen, served>>

(* A bug the checks must notice: one call too many passes.                 *)
CallAfter(r, u) ==
  Pass(r, u, u = Null \/ Value(<<u, MinuteOf(now) % Hour>>) <= Limit)

Call(r, u) ==
  Pass(r, u, u = Null \/ Value(<<u, MinuteOf(now) % Hour>>) < Limit)

(* The handler answers, and its answer goes out; or it throws, and tap     *)
(* never sees a value.                                                     *)
Handle(r) ==
  /\ pc[r] = "handle"
  /\ IF call[r].user = Null
     THEN pc' = [pc EXCEPT ![r] = "ok"] /\ UNCHANGED served
     ELSE /\ pc' = [pc EXCEPT ![r] = "get"]
          /\ served' = [served EXCEPT ![Slot(r)] = @ + 1]
  /\ UNCHANGED <<now, count, until, call, seen, spoiled>>

HandleFails(r) ==
  /\ pc[r] = "handle"
  /\ pc' = [pc EXCEPT ![r] = "failed"]
  /\ UNCHANGED <<now, count, until, call, seen, served, spoiled>>

GetCount(r) ==
  /\ pc[r] = "get"
  /\ seen' = [seen EXCEPT ![r] = Value(Key(r))]
  /\ pc' = [pc EXCEPT ![r] = "set"]
  /\ UNCHANGED <<now, count, until, call, served, spoiled>>

SetUntil(r, end) ==
  /\ pc[r] = "set"
  /\ count' = [count EXCEPT ![Key(r)] = seen[r] + 1]
  /\ until' = [until EXCEPT ![Key(r)] = end]
  /\ pc' = [pc EXCEPT ![r] = "ok"]
  /\ UNCHANGED <<now, call, seen, served, spoiled>>

(* A bug the checks must notice: set without a ttl keeps the counter.      *)
SetCountForever(r) == SetUntil(r, MaxTime + 1)

SetCount(r) == SetUntil(r, now + Minute)

(* The bounded cache drops a counter to keep something else, or is emptied *)
(* with the process.                                                       *)
Evict(k) ==
  /\ until[k] > now
  /\ until' = [until EXCEPT ![k] = 0]
  /\ spoiled' = spoiled \cup {s \in Slots : s[1] = k[1] /\ s[2] % Hour = k[2]
                                              /\ s[2] <= MinuteOf(now)}
  /\ UNCHANGED <<now, count, pc, call, seen, served>>

Tick ==
  /\ now < MaxTime
  /\ \A r \in Requests : pc[r] \in Running => now < call[r].at + Latency
  /\ now' = now + 1
  /\ UNCHANGED <<count, until, pc, call, seen, served, spoiled>>

Step(r) ==
  Handle(r) \/ HandleFails(r) \/ GetCount(r) \/ SetCount(r)

Next ==
  \/ \E r \in Requests, u \in Users \cup {Null} : Call(r, u)
  \/ \E r \in Requests : Step(r)
  \/ \E k \in Keys : Evict(k)
  \/ Tick

Spec == Init /\ [][Next]_vars

-----------------------------------------------------------------------------
(* Every variable keeps its range.                                         *)
TypeOK ==
  /\ now \in 0 .. MaxTime
  /\ count \in [Keys -> Nat]
  /\ until \in [Keys -> Nat]
  /\ pc \in [Requests -> Running \cup {"idle", "ok", "failed", "forbidden"}]
  /\ call \in [Requests -> [user : Users \cup {Null}, at : 0 .. MaxTime]]
  /\ seen \in [Requests -> Nat]
  /\ served \in [Slots -> Nat]
  /\ spoiled \in SUBSET Slots

(* A user who sends one call after the other has at most Limit answered in *)
(* a minute, while the cache keeps the counter                             *)
(* (throttle.interceptor.ts:36-56).                                        *)
LimitedWhenSequential ==
  \A s \in Slots \ spoiled : served[s] <= Limit

(* However calls overlap and counters are lost, a call is refused only     *)
(* when Limit calls of its user were answered in the minute it came in:    *)
(* no counter outlives its minute into the next hour's                     *)
(* (throttle.interceptor.ts:42-54).                                        *)
RefusedOverLimitOnly ==
  \A r \in Requests : pc[r] = "forbidden" => served[Slot(r)] >= Limit
=============================================================================

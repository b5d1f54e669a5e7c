--------------------------- MODULE ThrottleProofs ---------------------------
(***************************************************************************)
(* Proofs about Throttle, for any requests, users, limit and clock: types, *)
(* that calls sent one after the other never get more than Limit answers a *)
(* minute, and that none is refused below Limit.  The invariant behind     *)
(* them says which minute a counter belongs to: a key comes round again    *)
(* only after an hour, and neither a counter nor a call lasts that long.   *)
(***************************************************************************)
EXTENDS Throttle, FiniteSetTheorems, TLAPS

(* The calls a slot has had answered, and those of them already counted.   *)
Counted(s) == {r \in Requests : pc[r] \in {"get", "set", "ok"} /\ Slot(r) = s}
Done(s)    == {r \in Requests : pc[r] = "ok" /\ Slot(r) = s}

KeyOf(s) == <<s[1], s[2] % Hour>>

(* A call came in the past, and is over soon; only users are counted.      *)
CallsAreTimely ==
  \A r \in Requests :
    /\ call[r].at <= now
    /\ pc[r] \in Running => now <= call[r].at + Latency
    /\ pc[r] \in {"get", "set", "forbidden"} => call[r].user # Null

ServedIsCounted ==
  \A s \in Slots : IsFiniteSet(Counted(s)) /\ served[s] = Cardinality(Counted(s))

(* A counter that is there is of a minute not long ago, and never counts   *)
(* more than the calls of that minute that have counted themselves.        *)
CounterOf(k, m) ==
  /\ m % Hour = k[2] /\ m * Minute <= now
  /\ until[k] <= m * Minute + (2 * Minute + Latency)
  /\ count[k] <= Cardinality(Done(<<k[1], m>>))

CountersAreRecent ==
  \A k \in Keys : until[k] > now => \E m \in Minutes : CounterOf(k, m)

SeenIsDone ==
  \A r \in Requests : pc[r] = "set" => seen[r] <= Cardinality(Done(Slot(r)))

(* While nothing spoils a slot, its calls run one at a time, its counter   *)
(* lasts through its minute and is exact, and what runs fits the limit.    *)
OneAtATime ==
  \A s \in Slots \ spoiled : \A q, r \in Requests :
    pc[q] \in Running /\ pc[r] \in Running /\ Slot(q) = s /\ Slot(r) = s => q = r

CounterIsExact ==
  \A s \in Slots \ spoiled : s[2] = MinuteOf(now) =>
    /\ until[KeyOf(s)] > now => s[2] * Minute + Minute <= until[KeyOf(s)]
    /\ Value(KeyOf(s)) = Cardinality(Done(s))
    /\ \A r \in Requests : pc[r] = "set" /\ Slot(r) = s => seen[r] = Cardinality(Done(s))

RoomIsLeft ==
  \A s \in Slots \ spoiled :
    /\ served[s] <= Limit
    /\ \A r \in Requests : pc[r] = "handle" /\ Slot(r) = s => served[s] < Limit

CountInv == CallsAreTimely /\ ServedIsCounted /\ CountersAreRecent /\ SeenIsDone
SlotInv  == OneAtATime /\ CounterIsExact /\ RoomIsLeft
IInv     == TypeOK /\ CountInv /\ SlotInv /\ RefusedOverLimitOnly

-----------------------------------------------------------------------------
(* Minutes and keys.                                                       *)
LEMMA Division ==
  ASSUME NEW d \in Nat \ {0}, NEW t \in Nat
  PROVE  /\ t \div d \in Nat /\ t % d \in 0 .. d - 1
         /\ t = (t \div d) * d + (t % d)
OBVIOUS

(* A time is in its minute,                                                *)
LEMMA MinuteBounds ==
  ASSUME NEW t \in Nat
  PROVE  /\ MinuteOf(t) \in Nat
         /\ MinuteOf(t) * Minute <= t /\ t < MinuteOf(t) * Minute + Minute
BY ClockAssumption, Division DEF MinuteOf

(* and in no other;                                                        *)
LEMMA MinuteUnique ==
  ASSUME NEW t \in Nat, NEW m \in Nat, m * Minute <= t, t < m * Minute + Minute
  PROVE  MinuteOf(t) = m
BY ClockAssumption DEF MinuteOf

(* minutes come in the order of time,                                      *)
LEMMA MinutesInOrder ==
  ASSUME NEW t \in Nat, NEW q \in Nat, t <= q
  PROVE  MinuteOf(t) <= MinuteOf(q)
BY ClockAssumption DEF MinuteOf

(* and those of the clock are the Minutes.                                 *)
LEMMA MinuteType ==
  ASSUME NEW t \in 0 .. MaxTime
  PROVE  MinuteOf(t) \in Minutes /\ MinuteOf(t) \in Nat /\ Minutes \subseteq Nat
<1>1. t \in Nat /\ MaxTime \in Nat /\ t <= MaxTime
  BY ClockAssumption
<1>2. MinuteOf(t) <= MinuteOf(MaxTime) /\ MinuteOf(t) \in Nat /\ MinuteOf(MaxTime) \in Nat
  BY <1>1, MinutesInOrder, MinuteBounds
<1> QED
  BY <1>2 DEF Minutes, MinuteOf

(* Minutes under one key are at least an hour apart.                       *)
LEMMA KeysWrap ==
  ASSUME NEW a \in Nat, NEW b \in Nat, a % Hour = b % Hour, a < b
  PROVE  a * Minute + Hour * Minute <= b * Minute
<1> USE ClockAssumption
<1> PICK x \in Nat : x = a \div Hour
  BY Division
<1> PICK y \in Nat : y = b \div Hour
  BY Division
<1> PICK c \in Nat : c = a % Hour
  BY Division
<1>1. a = x * Hour + c /\ b = y * Hour + c
  BY Division
<1>2. x < y
  BY <1>1
<1>3. x * Hour + Hour <= y * Hour
  BY <1>2
<1>4. a + Hour <= b
  BY <1>1, <1>3
<1> QED
  BY <1>4

(* At t, calls of minute m may run and their counter may still be there.   *)
Alive(m, t) == m * Minute <= t /\ t < m * Minute + (2 * Minute + Latency)

(* Two such minutes have different keys: here the clock assumption, that   *)
(* calls are short for an hour, is needed.                                 *)
LEMMA OneAlive ==
  ASSUME NEW t \in Nat, NEW a \in Nat, NEW b \in Nat, a % Hour = b % Hour,
         Alive(a, t), Alive(b, t)
  PROVE  a = b
<1> PICK x \in Nat : x = a * Minute
  BY ClockAssumption
<1> PICK y \in Nat : y = b * Minute
  BY ClockAssumption
<1> PICK h \in Nat : h = Hour * Minute
  BY ClockAssumption
<1>1. Latency + 2 * Minute <= h /\ Latency \in Nat /\ Minute \in Nat
  BY ClockAssumption
<1>2. x <= t /\ t < x + (2 * Minute + Latency) /\ y <= t /\ t < y + (2 * Minute + Latency)
  BY DEF Alive
<1>3. ~ (a < b)
  <2>1. a < b => x + h <= y
    BY KeysWrap
  <2> QED
    BY <1>1, <1>2, <2>1
<1>4. ~ (b < a)
  <2>1. b < a => y + h <= x
    BY KeysWrap
  <2> QED
    BY <1>1, <1>2, <2>1
<1> QED
  BY <1>3, <1>4

(* The minute of now is alive.                                             *)
LEMMA NowIsAlive ==
  ASSUME NEW t \in Nat
  PROVE  Alive(MinuteOf(t), t)
<1> PICK x \in Nat : x = MinuteOf(t) * Minute
  BY MinuteBounds, ClockAssumption
<1>1. x <= t /\ t < x + Minute
  BY MinuteBounds
<1> QED
  BY <1>1, ClockAssumption DEF Alive

(* The slot and the key of a call.                                         *)
LEMMA CallType ==
  ASSUME TypeOK, NEW r \in Requests
  PROVE  /\ now \in Nat /\ call[r].at \in 0 .. MaxTime /\ call[r].at \in Nat
         /\ call[r].user \in Users \cup {Null}
         /\ Slot(r)[1] = call[r].user /\ Slot(r)[2] = MinuteOf(call[r].at)
         /\ Key(r) = KeyOf(Slot(r))
         /\ call[r].user # Null => Slot(r) \in Slots /\ Key(r) \in Keys
         /\ Slot(r) \in Slots => call[r].user # Null
<1>1. now \in Nat /\ call[r].at \in 0 .. MaxTime /\ call[r].user \in Users \cup {Null}
  BY ClockAssumption DEF TypeOK
<1>2. MinuteOf(call[r].at) \in Minutes /\ MinuteOf(call[r].at) \in Nat
  BY <1>1, MinuteType
<1>3. MinuteOf(call[r].at) % Hour \in 0 .. Hour - 1
  BY <1>2, ClockAssumption, Division
<1> QED
  BY <1>1, <1>2, <1>3, NullAssumption DEF Slot, Key, KeyOf, Slots, Keys

(* The types of a slot and its key.                                        *)
LEMMA SlotType ==
  ASSUME NEW s \in Slots
  PROVE  /\ s[1] \in Users /\ s[2] \in Minutes /\ s[2] \in Nat /\ s = <<s[1], s[2]>>
         /\ KeyOf(s) \in Keys /\ KeyOf(s)[1] = s[1] /\ KeyOf(s)[2] = s[2] % Hour
<1>1. s[1] \in Users /\ s[2] \in Minutes /\ s = <<s[1], s[2]>>
  BY DEF Slots
<1>2. MaxTime \div Minute \in Nat
  BY ClockAssumption, Division
<1>3. s[2] \in Nat
  BY <1>1, <1>2 DEF Minutes
<1>4. s[2] % Hour \in 0 .. Hour - 1
  BY <1>3, ClockAssumption, Division
<1> QED
  BY <1>1, <1>3, <1>4 DEF KeyOf, Keys

-----------------------------------------------------------------------------
(* Every variable keeps its range: one step per action.                    *)
LEMMA TypeStep ==
  ASSUME TypeOK, CallsAreTimely, [Next]_vars
  PROVE  TypeOK'
<1> USE ClockAssumption DEF TypeOK, Running
<1>1. CASE UNCHANGED vars
  BY <1>1 DEF vars
<1>2. ASSUME NEW r \in Requests, NEW u \in Users \cup {Null}, Call(r, u)
      PROVE  TypeOK'
  <2>1. <<u, MinuteOf(now)>> \in Slots \/ u = Null
    BY MinuteType DEF Slots
  <2>2. call' \in [Requests -> [user : Users \cup {Null}, at : 0 .. MaxTime]]
    BY <1>2 DEF Call, Pass
  <2>3. spoiled' \in SUBSET Slots
    BY <1>2, <2>1 DEF Call, Pass
  <2>4. pc' \in [Requests -> Running \cup {"idle", "ok", "failed", "forbidden"}]
    BY <1>2 DEF Call, Pass
  <2> QED
    BY <1>2, <2>2, <2>3, <2>4 DEF Call, Pass
<1>3. ASSUME NEW r \in Requests, Step(r)
      PROVE  TypeOK'
  <2>1. CASE Handle(r)
    BY <2>1 DEF Handle
  <2>2. CASE HandleFails(r)
    BY <2>2 DEF HandleFails
  <2>3. CASE GetCount(r)
    <3>1. Key(r) \in Keys
      BY <2>3, CallType DEF GetCount, CallsAreTimely
    <3>2. Value(Key(r)) \in Nat
      BY <3>1 DEF Value
    <3> QED
      BY <2>3, <3>2 DEF GetCount
  <2>4. CASE SetCount(r)
    <3>1. /\ count' = [count EXCEPT ![Key(r)] = seen[r] + 1]
          /\ until' = [until EXCEPT ![Key(r)] = now + Minute]
          /\ pc' = [pc EXCEPT ![r] = "ok"] /\ UNCHANGED <<now, call, seen, served, spoiled>>
      BY <2>4 DEF SetCount, SetUntil
    <3>2. seen[r] + 1 \in Nat /\ now + Minute \in Nat
      OBVIOUS
    <3>3. count' \in [Keys -> Nat] /\ until' \in [Keys -> Nat]
      BY <3>1, <3>2
    <3>4. pc' \in [Requests -> Running \cup {"idle", "ok", "failed", "forbidden"}]
      BY <3>1
    <3> QED
      BY <3>1, <3>3, <3>4
  <2> QED
    BY <1>3, <2>1, <2>2, <2>3, <2>4 DEF Step
<1>4. ASSUME NEW k \in Keys, Evict(k)
      PROVE  TypeOK'
  BY <1>4 DEF Evict
<1>5. CASE Tick
  BY <1>5 DEF Tick
<1> QED
  BY <1>1, <1>2, <1>3, <1>4, <1>5 DEF Next

(* What each action does to the calls that are answered and counted.       *)
LEMMA CallCounts ==
  ASSUME TypeOK, NEW r \in Requests, NEW u \in Users \cup {Null}, Call(r, u)
  PROVE  /\ call'[r].user = u /\ call'[r].at = now /\ Slot(r)' = <<u, MinuteOf(now)>>
         /\ pc[r] = "idle" /\ pc'[r] \in {"handle", "forbidden"}
         /\ \A q \in Requests \ {r} : /\ pc'[q] = pc[q] /\ call'[q] = call[q]
                                      /\ Slot(q)' = Slot(q)
         /\ UNCHANGED <<now, count, until, seen, served>>
         /\ \A s : Counted(s)' = Counted(s) /\ Done(s)' = Done(s)
<1>1. /\ call' = [call EXCEPT ![r] = [user |-> u, at |-> now]] /\ pc[r] = "idle"
      /\ UNCHANGED <<now, count, until, seen, served>>
      /\ pc'[r] \in {"handle", "forbidden"} /\ \A q \in Requests \ {r} : pc'[q] = pc[q]
  BY DEF Call, Pass, TypeOK
<1>2. call'[r].user = u /\ call'[r].at = now
  BY <1>1 DEF TypeOK
<1>3. Slot(r)' = <<u, MinuteOf(now)>>
  BY <1>2 DEF Slot, MinuteOf
<1>4. \A q \in Requests \ {r} : call'[q] = call[q] /\ Slot(q)' = Slot(q)
  BY <1>1 DEF Slot, MinuteOf, TypeOK
<1>5. \A s : Counted(s)' = Counted(s) /\ Done(s)' = Done(s)
  BY <1>1, <1>4 DEF Counted, Done
<1> QED
  BY <1>1, <1>2, <1>3, <1>4, <1>5

(* An answered call is counted in its slot, and has not counted itself     *)
(* yet.                                                                    *)
LEMMA HandleCounts ==
  ASSUME TypeOK, NEW r \in Requests, Handle(r)
  PROVE  /\ UNCHANGED <<now, count, until, call, seen, spoiled>>
         /\ pc[r] = "handle" /\ pc'[r] \in {"ok", "get"}
         /\ \A q \in Requests \ {r} : pc'[q] = pc[q]
         /\ \A q \in Requests : Slot(q)' = Slot(q)
         /\ call[r].user # Null => /\ pc'[r] = "get"
                                   /\ Counted(Slot(r))' = Counted(Slot(r)) \cup {r}
                                   /\ r \notin Counted(Slot(r))
                                   /\ served' = [served EXCEPT ![Slot(r)] = @ + 1]
         /\ call[r].user = Null => served' = served
         /\ \A s \in Slots : s # Slot(r) => Counted(s)' = Counted(s)
         /\ \A s \in Slots : Done(s)' = Done(s)
<1>1. /\ UNCHANGED <<now, count, until, call, seen, spoiled>>
      /\ pc[r] = "handle" /\ pc'[r] \in {"ok", "get"}
      /\ \A q \in Requests \ {r} : pc'[q] = pc[q]
      /\ call[r].user # Null => pc'[r] = "get" /\ served' = [served EXCEPT ![Slot(r)] = @ + 1]
      /\ call[r].user = Null => served' = served
  BY DEF Handle, TypeOK
<1>2. \A q \in Requests : Slot(q)' = Slot(q)
  BY <1>1 DEF Slot, MinuteOf
<1>3. call[r].user # Null => /\ Counted(Slot(r))' = Counted(Slot(r)) \cup {r}
                             /\ r \notin Counted(Slot(r))
  BY <1>1, <1>2 DEF Counted
<1>4. \A s \in Slots : s # Slot(r) => Counted(s)' = Counted(s)
  BY <1>1, <1>2 DEF Counted
<1>5. \A s \in Slots : Done(s)' = Done(s)
  BY <1>1, <1>2, CallType DEF Done
<1> QED
  BY <1>1, <1>2, <1>3, <1>4, <1>5

(* A call that has written its counter has counted itself, and changes one *)
(* counter only.                                                           *)
LEMMA SetCounts ==
  ASSUME TypeOK, NEW r \in Requests, SetCount(r)
  PROVE  /\ UNCHANGED <<now, call, seen, served, spoiled>>
         /\ pc[r] = "set" /\ pc'[r] = "ok"
         /\ \A q \in Requests \ {r} : pc'[q] = pc[q]
         /\ \A q \in Requests : Slot(q)' = Slot(q)
         /\ count' = [count EXCEPT ![Key(r)] = seen[r] + 1]
         /\ until' = [until EXCEPT ![Key(r)] = now + Minute]
         /\ \A s : Counted(s)' = Counted(s)
         /\ Done(Slot(r))' = Done(Slot(r)) \cup {r} /\ r \notin Done(Slot(r))
         /\ \A s : s # Slot(r) => Done(s)' = Done(s)
<1>1. /\ UNCHANGED <<now, call, seen, served, spoiled>>
      /\ pc[r] = "set" /\ pc'[r] = "ok"
      /\ \A q \in Requests \ {r} : pc'[q] = pc[q]
      /\ count' = [count EXCEPT ![Key(r)] = seen[r] + 1]
      /\ until' = [until EXCEPT ![Key(r)] = now + Minute]
  BY DEF SetCount, SetUntil, TypeOK
<1>2. \A q \in Requests : Slot(q)' = Slot(q)
  BY <1>1 DEF Slot, MinuteOf
<1>3. \A s : Counted(s)' = Counted(s)
  BY <1>1, <1>2 DEF Counted
<1>4. Done(Slot(r))' = Done(Slot(r)) \cup {r} /\ r \notin Done(Slot(r))
  BY <1>1, <1>2 DEF Done
<1>5. \A s : s # Slot(r) => Done(s)' = Done(s)
  BY <1>1, <1>2 DEF Done
<1> QED
  BY <1>1, <1>2, <1>3, <1>4, <1>5

(* Other steps change neither what is counted nor who is.                  *)
LEMMA QuietCounts ==
  ASSUME TypeOK,
         \/ UNCHANGED vars \/ Tick \/ \E k \in Keys : Evict(k)
         \/ \E r \in Requests : HandleFails(r) \/ GetCount(r)
  PROVE  /\ UNCHANGED <<call, count, served>>
         /\ \A q \in Requests : Slot(q)' = Slot(q)
         /\ \A s : Counted(s)' = Counted(s) /\ Done(s)' = Done(s)
<1>1. /\ UNCHANGED <<call, count, served>>
      /\ \A q \in Requests : \/ pc'[q] = pc[q]
                             \/ pc[q] = "handle" /\ pc'[q] = "failed"
                             \/ pc[q] = "get" /\ pc'[q] = "set"
  BY DEF vars, Tick, Evict, HandleFails, GetCount, TypeOK
<1>2. \A q \in Requests : Slot(q)' = Slot(q)
  BY <1>1 DEF Slot, MinuteOf
<1> QED
  BY <1>1, <1>2 DEF Counted, Done

(* The counters and their calls are finite, and who is done is counted.    *)
LEMMA DoneFinite ==
  ASSUME ServedIsCounted, NEW s \in Slots
  PROVE  /\ IsFiniteSet(Counted(s)) /\ Cardinality(Counted(s)) \in Nat
         /\ IsFiniteSet(Done(s)) /\ Cardinality(Done(s)) \in Nat
         /\ Cardinality(Done(s)) <= served[s] /\ served[s] = Cardinality(Counted(s))
<1>1. IsFiniteSet(Counted(s)) /\ served[s] = Cardinality(Counted(s))
  BY DEF ServedIsCounted
<1>2. Done(s) \in SUBSET Counted(s)
  BY DEF Done, Counted
<1>3. IsFiniteSet(Done(s)) /\ Cardinality(Done(s)) <= Cardinality(Counted(s))
  BY <1>1, <1>2, FS_Subset
<1> QED
  BY <1>1, <1>3, FS_CardinalityType

(* Writing a counter adds one call to those that have counted themselves.  *)
LEMMA SetRaisesDone ==
  ASSUME TypeOK, ServedIsCounted, NEW r \in Requests, SetCount(r), call[r].user # Null
  PROVE  Cardinality(Done(Slot(r)))' = Cardinality(Done(Slot(r))) + 1
<1>1. IsFiniteSet(Done(Slot(r)))
  BY CallType, DoneFinite
<1>2. Done(Slot(r))' = Done(Slot(r)) \cup {r} /\ r \notin Done(Slot(r))
  BY SetCounts
<1>3. Cardinality(Done(Slot(r)) \cup {r}) = Cardinality(Done(Slot(r))) + 1
  BY <1>1, <1>2, FS_AddElement
<1> QED
  BY <1>2, <1>3

-----------------------------------------------------------------------------
(* Calls stay short of their latency: the clock waits for them.            *)
LEMMA TimelyStep ==
  ASSUME TypeOK, CallsAreTimely, [Next]_vars
  PROVE  CallsAreTimely'
<1> USE ClockAssumption DEF TypeOK, CallsAreTimely, Running
<1>1. CASE UNCHANGED vars
  BY <1>1 DEF vars
<1>2. ASSUME NEW r \in Requests, NEW u \in Users \cup {Null}, Call(r, u)
      PROVE  CallsAreTimely'
  <2>1. /\ call' = [call EXCEPT ![r] = [user |-> u, at |-> now]] /\ now' = now
        /\ pc' = [pc EXCEPT ![r] = pc'[r]] /\ pc'[r] \in {"handle", "forbidden"}
        /\ pc'[r] = "forbidden" => u # Null
    BY <1>2 DEF Call, Pass
  <2>2. \A q \in Requests \ {r} : call'[q] = call[q] /\ pc'[q] = pc[q]
    BY <2>1
  <2>3. call'[r].user = u /\ call'[r].at = now
    BY <2>1
  <2> QED
    BY <2>1, <2>2, <2>3
<1>3. ASSUME NEW r \in Requests, Step(r)
      PROVE  CallsAreTimely'
  BY <1>3 DEF Step, Handle, HandleFails, GetCount, SetCount, SetUntil
<1>4. ASSUME NEW k \in Keys, Evict(k)
      PROVE  CallsAreTimely'
  BY <1>4 DEF Evict
<1>5. CASE Tick
  BY <1>5 DEF Tick
<1> QED
  BY <1>1, <1>2, <1>3, <1>4, <1>5 DEF Next

(* served goes on counting the calls that were answered.                   *)
LEMMA ServedStep ==
  ASSUME TypeOK, ServedIsCounted, [Next]_vars
  PROVE  ServedIsCounted'
<1> SUFFICES ASSUME NEW s \in Slots
             PROVE  IsFiniteSet(Counted(s)') /\ served'[s] = Cardinality(Counted(s)')
  BY DEF ServedIsCounted
<1>1. IsFiniteSet(Counted(s)) /\ served[s] = Cardinality(Counted(s))
  BY DEF ServedIsCounted
<1>2. CASE UNCHANGED served /\ Counted(s)' = Counted(s)
  BY <1>1, <1>2
<1>3. ASSUME NEW r \in Requests, NEW u \in Users \cup {Null}, Call(r, u)
      PROVE  UNCHANGED served /\ Counted(s)' = Counted(s)
  BY <1>3, CallCounts
<1>4. ASSUME NEW r \in Requests, Handle(r)
      PROVE  IsFiniteSet(Counted(s)') /\ served'[s] = Cardinality(Counted(s)')
  <2>1. CASE s = Slot(r)
    <3>1. call[r].user # Null
      BY <2>1, CallType
    <3>2. /\ Counted(s)' = Counted(s) \cup {r} /\ r \notin Counted(s)
          /\ served' = [served EXCEPT ![s] = @ + 1]
      BY <1>4, <2>1, <3>1, HandleCounts
    <3>3. served'[s] = served[s] + 1
      BY <3>2 DEF TypeOK
    <3> QED
      BY <1>1, <3>2, <3>3, FS_AddElement
  <2>2. CASE s # Slot(r)
    <3>1. Counted(s)' = Counted(s)
          /\ (served' = served \/ served' = [served EXCEPT ![Slot(r)] = @ + 1])
      BY <1>4, <2>2, HandleCounts
    <3>2. served'[s] = served[s]
      BY <2>2, <3>1 DEF TypeOK
    <3> QED
      BY <1>1, <3>1, <3>2
  <2> QED
    BY <2>1, <2>2
<1>5. ASSUME NEW r \in Requests, SetCount(r)
      PROVE  UNCHANGED served /\ Counted(s)' = Counted(s)
  BY <1>5, SetCounts
<1> QED
  BY <1>2, <1>3, <1>4, <1>5, QuietCounts DEF Next, Step

(* A counter that is there, and what a call has seen of it, never exceed   *)
(* the calls done in the minute they are of.                               *)
LEMMA RunningIsAlive ==
  ASSUME TypeOK, CallsAreTimely, NEW r \in Requests, pc[r] \in Running
  PROVE  Alive(MinuteOf(call[r].at), now)
<1> PICK a \in Nat : a = call[r].at
  BY CallType
<1> PICK x \in Nat : x = MinuteOf(a) * Minute
  BY MinuteBounds, ClockAssumption
<1>1. a <= now /\ now <= a + Latency /\ now \in Nat
  BY CallType DEF CallsAreTimely
<1>2. x <= a /\ a < x + Minute
  BY MinuteBounds
<1> QED
  BY <1>1, <1>2, ClockAssumption DEF Alive

(* A counter that is there belongs to a minute that is alive.              *)
LEMMA CounterIsAlive ==
  ASSUME TypeOK, NEW k \in Keys, NEW m \in Minutes, CounterOf(k, m), until[k] > now
  PROVE  Alive(m, now) /\ m \in Nat /\ m % Hour = k[2]
<1>1. now \in Nat /\ until[k] \in Nat
  BY ClockAssumption DEF TypeOK
<1>2. m \in Nat
  BY ClockAssumption, Division DEF Minutes
<1> PICK x \in Nat : x = m * Minute
  BY <1>2, ClockAssumption
<1>3. x <= now /\ until[k] <= x + (2 * Minute + Latency)
  BY DEF CounterOf
<1> QED
  BY <1>1, <1>2, <1>3, ClockAssumption DEF Alive, CounterOf

(* Whose minute a call and a counter under its key are: the call's.        *)
LEMMA CounterIsMine ==
  ASSUME TypeOK, CountInv, NEW r \in Requests, pc[r] \in Running, call[r].user # Null
  PROVE  Value(Key(r)) <= Cardinality(Done(Slot(r)))
<1> PICK s \in Slots : s = Slot(r)
  BY CallType
<1> PICK k \in Keys : k = Key(r)
  BY CallType
<1>1. s[2] = MinuteOf(call[r].at) /\ k = KeyOf(s)
  BY CallType
<1>2. s[2] \in Nat /\ k[1] = s[1] /\ k[2] = s[2] % Hour /\ s = <<s[1], s[2]>>
  BY <1>1, SlotType
<1>3. Cardinality(Done(s)) \in Nat
  BY DoneFinite DEF CountInv
<1>4. CASE until[k] > now
  <2>1. PICK m \in Minutes : CounterOf(k, m)
    BY <1>4 DEF CountInv, CountersAreRecent
  <2>2. Alive(m, now) /\ m \in Nat /\ m % Hour = k[2]
    BY <1>4, <2>1, CounterIsAlive
  <2>3. Alive(s[2], now)
    BY <1>1, RunningIsAlive DEF CountInv
  <2>4. m = s[2]
    BY <1>2, <2>2, <2>3, OneAlive, CallType
  <2>5. count[k] <= Cardinality(Done(s))
    BY <1>2, <2>1, <2>4 DEF CounterOf
  <2> QED
    BY <1>4, <2>5 DEF Value
<1>5. CASE ~ (until[k] > now)
  BY <1>3, <1>5 DEF Value
<1> QED
  BY <1>4, <1>5

(* A counter that was not touched still belongs to its minute.             *)
LEMMA RecentKept ==
  ASSUME TypeOK, TypeOK', CountersAreRecent, now <= now', NEW k \in Keys,
         until'[k] > now', until'[k] = until[k], count'[k] = count[k],
         \A s \in Slots : Cardinality(Done(s))' = Cardinality(Done(s))
  PROVE  \E m \in Minutes : CounterOf(k, m)'
<1>1. now \in Nat /\ now' \in Nat /\ until[k] \in Nat
  BY ClockAssumption DEF TypeOK
<1>2. until[k] > now
  BY <1>1
<1>3. PICK m \in Minutes : CounterOf(k, m)
  BY <1>2 DEF CountersAreRecent
<1>4. m \in Nat /\ m * Minute \in Nat
  BY ClockAssumption, Division DEF Minutes
<1>5. <<k[1], m>> \in Slots
  BY DEF Slots, Keys
<1> QED
  BY <1>1, <1>3, <1>4, <1>5 DEF CounterOf

(* Counters belong to a minute of late and count no more than it had: a    *)
(* counter is written within Latency of the minute of its call.            *)
LEMMA RecentStep ==
  ASSUME TypeOK, TypeOK', CountInv, [Next]_vars
  PROVE  CountersAreRecent'
<1> SUFFICES ASSUME NEW k \in Keys, until'[k] > now'
             PROVE  \E m \in Minutes : CounterOf(k, m)'
  BY DEF CountersAreRecent
<1> USE DEF CountInv
<1>1. now \in Nat /\ until[k] \in Nat /\ count[k] \in Nat
  BY ClockAssumption DEF TypeOK
<1>2. ASSUME NEW r \in Requests, NEW u \in Users \cup {Null}, Call(r, u)
      PROVE  \E m \in Minutes : CounterOf(k, m)'
  <2>1. /\ UNCHANGED <<now, until, count>>
        /\ \A s \in Slots : Cardinality(Done(s))' = Cardinality(Done(s))
    BY <1>2, CallCounts
  <2> QED
    BY <1>1, <2>1, RecentKept
<1>3. ASSUME NEW r \in Requests, Handle(r)
      PROVE  \E m \in Minutes : CounterOf(k, m)'
  <2>1. /\ UNCHANGED <<now, until, count>>
        /\ \A s \in Slots : Cardinality(Done(s))' = Cardinality(Done(s))
    BY <1>3, HandleCounts
  <2> QED
    BY <1>1, <2>1, RecentKept
<1>4. ASSUME \/ UNCHANGED vars \/ Tick \/ \E j \in Keys : Evict(j)
             \/ \E r \in Requests : HandleFails(r) \/ GetCount(r)
      PROVE  \E m \in Minutes : CounterOf(k, m)'
  <2>1. now <= now' /\ until'[k] = until[k]
    BY <1>1, <1>4 DEF vars, Tick, Evict, HandleFails, GetCount, TypeOK
  <2>2. count' = count /\ \A s \in Slots : Cardinality(Done(s))' = Cardinality(Done(s))
    BY <1>4, QuietCounts
  <2> QED
    BY <2>1, <2>2, RecentKept
<1>5. ASSUME NEW r \in Requests, SetCount(r)
      PROVE  \E m \in Minutes : CounterOf(k, m)'
  <2>1. /\ now' = now /\ pc[r] = "set" /\ call[r].user # Null
        /\ count' = [count EXCEPT ![Key(r)] = seen[r] + 1]
        /\ until' = [until EXCEPT ![Key(r)] = now + Minute]
    BY <1>5, SetCounts DEF CallsAreTimely
  <2>2. /\ Slot(r) \in Slots /\ Key(r) = KeyOf(Slot(r))
        /\ Slot(r)[2] = MinuteOf(call[r].at)
    BY <2>1, CallType
  <2>3. CASE k # Key(r)
    <3>1. until'[k] = until[k] /\ count'[k] = count[k]
      BY <2>1, <2>3 DEF TypeOK
    <3>2. PICK m \in Minutes : CounterOf(k, m)
      BY <1>1, <2>1, <3>1 DEF CountersAreRecent
    <3>3. <<k[1], m>> \in Slots /\ m \in Nat
      BY ClockAssumption, Division DEF Slots, Keys, Minutes
    <3>4. k = <<k[1], k[2]>>
      BY DEF Keys
    <3>5. <<k[1], m>> # Slot(r)
      BY <2>2, <2>3, <3>2, <3>3, <3>4, SlotType DEF CounterOf, KeyOf
    <3>6. Done(<<k[1], m>>)' = Done(<<k[1], m>>)
      BY <1>5, <3>5, SetCounts
    <3> QED
      BY <2>1, <3>1, <3>2, <3>6 DEF CounterOf
  <2>4. CASE k = Key(r)
    <3> PICK m \in Minutes : m = MinuteOf(call[r].at)
      BY CallType, MinuteType
    <3> PICK x \in Nat : x = m * Minute
      BY CallType, MinuteBounds, ClockAssumption
    <3>1. Slot(r) = <<k[1], m>> /\ m % Hour = k[2]
      BY <2>2, <2>4, SlotType
    <3>2. /\ call[r].at \in Nat /\ call[r].at <= now /\ now <= call[r].at + Latency
          /\ x <= call[r].at /\ call[r].at < x + Minute
      BY <2>1, CallType, MinuteBounds DEF CallsAreTimely, Running
    <3>3. count'[k] = seen[r] + 1 /\ until'[k] = now + Minute
      BY <2>1, <2>4 DEF TypeOK
    <3>4. /\ seen[r] \in Nat /\ seen[r] <= Cardinality(Done(Slot(r)))
          /\ Cardinality(Done(Slot(r))) \in Nat
          /\ Cardinality(Done(Slot(r)))' = Cardinality(Done(Slot(r))) + 1
      BY <1>5, <2>1, <2>2, DoneFinite, SetRaisesDone DEF SeenIsDone, TypeOK
    <3>5. count'[k] <= Cardinality(Done(<<k[1], m>>))'
      <4>1. Slot(r)' = Slot(r)
        BY <1>5, SetCounts
      <4> QED
        BY <3>1, <3>3, <3>4, <4>1
    <3>6. x <= now' /\ until'[k] <= x + (2 * Minute + Latency)
      BY <1>1, <2>1, <3>2, <3>3, ClockAssumption
    <3> QED
      BY <3>1, <3>5, <3>6 DEF CounterOf
  <2> QED
    BY <2>3, <2>4
<1> QED
  BY <1>2, <1>3, <1>4, <1>5 DEF Next, Step

(* A call about to write has seen no more than its minute had.             *)
LEMMA SeenStep ==
  ASSUME TypeOK, CountInv, [Next]_vars
  PROVE  SeenIsDone'
<1> SUFFICES ASSUME NEW q \in Requests, pc'[q] = "set"
             PROVE  seen'[q] <= Cardinality(Done(Slot(q)))'
  BY DEF SeenIsDone
<1> USE DEF CountInv
<1>1. ASSUME NEW r \in Requests, NEW u \in Users \cup {Null}, Call(r, u)
      PROVE  seen'[q] <= Cardinality(Done(Slot(q)))'
  <2>1. /\ q # r /\ pc[q] = "set" /\ Slot(q)' = Slot(q) /\ seen' = seen
        /\ Done(Slot(q))' = Done(Slot(q))
    BY <1>1, CallCounts
  <2> QED
    BY <2>1 DEF SeenIsDone
<1>2. ASSUME NEW r \in Requests, Handle(r)
      PROVE  seen'[q] <= Cardinality(Done(Slot(q)))'
  <2>1. pc[q] = "set" /\ Slot(q)' = Slot(q) /\ seen' = seen
    BY <1>2, HandleCounts
  <2>2. Slot(q) \in Slots
    BY <2>1, CallType DEF CallsAreTimely
  <2>3. Done(Slot(q))' = Done(Slot(q))
    BY <1>2, <2>1, <2>2, HandleCounts
  <2> QED
    BY <2>1, <2>3 DEF SeenIsDone
<1>3. ASSUME NEW r \in Requests, GetCount(r)
      PROVE  seen'[q] <= Cardinality(Done(Slot(q)))'
  <2>1. Slot(q)' = Slot(q) /\ Done(Slot(q))' = Done(Slot(q))
    BY <1>3, QuietCounts
  <2>2. CASE q # r
    BY <1>3, <2>1, <2>2 DEF GetCount, SeenIsDone, TypeOK
  <2>3. CASE q = r
    <3>1. pc[r] = "get" /\ seen'[r] = Value(Key(r)) /\ call[r].user # Null
      BY <1>3 DEF GetCount, TypeOK, CallsAreTimely
    <3>2. Value(Key(r)) <= Cardinality(Done(Slot(r)))
      BY <3>1, CounterIsMine DEF Running
    <3> QED
      BY <2>1, <2>3, <3>1, <3>2
  <2> QED
    BY <2>2, <2>3
<1>4. ASSUME \/ UNCHANGED vars \/ Tick \/ \E k \in Keys : Evict(k)
             \/ \E r \in Requests : HandleFails(r)
      PROVE  seen'[q] <= Cardinality(Done(Slot(q)))'
  <2>1. Slot(q)' = Slot(q) /\ Done(Slot(q))' = Done(Slot(q))
    BY <1>4, QuietCounts
  <2>2. pc[q] = "set" /\ seen' = seen
    BY <1>4 DEF vars, Tick, Evict, HandleFails, TypeOK
  <2> QED
    BY <2>1, <2>2 DEF SeenIsDone
<1>5. ASSUME NEW r \in Requests, SetCount(r)
      PROVE  seen'[q] <= Cardinality(Done(Slot(q)))'
  <2>1. q # r /\ pc[q] = "set" /\ Slot(q)' = Slot(q) /\ seen' = seen
    BY <1>5, SetCounts
  <2>2. /\ seen[q] <= Cardinality(Done(Slot(q))) /\ Slot(q) \in Slots /\ seen[q] \in Nat
        /\ call[r].user # Null /\ Cardinality(Done(Slot(q))) \in Nat
    BY <1>5, <2>1, CallType, DoneFinite, SetCounts DEF SeenIsDone, CallsAreTimely, TypeOK
  <2>3. CASE Slot(q) = Slot(r)
    <3>1. Done(Slot(q))' = Done(Slot(r))'
      BY <1>5, <2>1, <2>3, SetCounts
    <3> QED
      BY <1>5, <2>1, <2>2, <2>3, <3>1, SetRaisesDone
  <2>4. CASE Slot(q) # Slot(r)
    <3>1. Done(Slot(q))' = Done(Slot(q))
      BY <1>5, <2>1, <2>4, SetCounts
    <3> QED
      BY <2>1, <2>2, <3>1
  <2> QED
    BY <2>3, <2>4
<1> QED
  BY <1>1, <1>2, <1>3, <1>4, <1>5 DEF Next, Step

(* However calls overlap, a refusal means Limit answers in the minute.     *)
LEMMA RefusedStep ==
  ASSUME TypeOK, CountInv, RefusedOverLimitOnly, [Next]_vars
  PROVE  RefusedOverLimitOnly'
<1> SUFFICES ASSUME NEW q \in Requests, pc'[q] = "forbidden"
             PROVE  served'[Slot(q)'] >= Limit
  BY DEF RefusedOverLimitOnly
<1> USE DEF CountInv
<1>1. CASE pc[q] = "forbidden"
  <2>1. served[Slot(q)] >= Limit /\ Slot(q) \in Slots
    BY <1>1, CallType DEF RefusedOverLimitOnly, CallsAreTimely
  <2>2. Slot(q)' = Slot(q)
    BY <1>1, CallCounts, HandleCounts, SetCounts, QuietCounts DEF Next, Step
  <2>3. served' = served \/ \E r \in Requests : Slot(r) \in Slots
                                /\ served' = [served EXCEPT ![Slot(r)] = @ + 1]
    BY CallCounts, HandleCounts, SetCounts, QuietCounts, CallType DEF Next, Step
  <2>4. served'[Slot(q)] >= served[Slot(q)] /\ served[Slot(q)] \in Nat
        /\ served'[Slot(q)] \in Nat
    BY <2>1, <2>3 DEF TypeOK
  <2> QED
    BY <2>1, <2>2, <2>4, LimitAssumption
<1>2. CASE pc[q] # "forbidden"
  <2>1. PICK u \in Users \cup {Null} : Call(q, u)
    BY <1>2
    DEF Next, vars, Step, Call, Pass, Handle, HandleFails, GetCount, SetCount, SetUntil,
        Evict, Tick, TypeOK
  <2>2. u # Null /\ ~ (Value(<<u, MinuteOf(now) % Hour>>) < Limit)
    BY <2>1 DEF Call, Pass, TypeOK
  <2>3. now \in 0 .. MaxTime /\ now \in Nat
    BY ClockAssumption DEF TypeOK
  <2> PICK s \in Slots : s = <<u, MinuteOf(now)>>
    BY <2>2, <2>3, MinuteType DEF Slots
  <2> PICK k \in Keys : k = KeyOf(s)
    BY SlotType
  <2>4. k = <<u, MinuteOf(now) % Hour>> /\ s[2] = MinuteOf(now)
    BY DEF KeyOf
  <2>5. Value(k) >= Limit /\ until[k] > now /\ Value(k) = count[k]
    BY <2>2, <2>4, LimitAssumption DEF Value, TypeOK
  <2>6. PICK m \in Minutes : CounterOf(k, m)
    BY <2>5 DEF CountersAreRecent
  <2>7. m = s[2]
    BY <2>3, <2>4, <2>5, <2>6, CounterIsAlive, NowIsAlive, OneAlive, SlotType
  <2>8. count[k] <= Cardinality(Done(s))
    BY <2>6, <2>7, SlotType DEF CounterOf
  <2>9. Cardinality(Done(s)) <= served[s] /\ Cardinality(Done(s)) \in Nat
        /\ served[s] \in Nat /\ count[k] \in Nat
    BY DoneFinite DEF TypeOK
  <2>10. Slot(q)' = s /\ served' = served
    BY <2>1, CallCounts
  <2> QED
    BY <2>5, <2>8, <2>9, <2>10, LimitAssumption
<1> QED
  BY <1>1, <1>2

-----------------------------------------------------------------------------
(* A second call of a minute spoils it before it can run.                  *)
LEMMA OneStep ==
  ASSUME TypeOK, OneAtATime, [Next]_vars
  PROVE  OneAtATime' /\ spoiled \subseteq spoiled'
<1>1. spoiled \subseteq spoiled'
  BY CallCounts, HandleCounts, SetCounts
  DEF Next, vars, Step, Call, Pass, HandleFails, GetCount, Evict, Tick
<1> SUFFICES ASSUME NEW s \in Slots \ spoiled', NEW q \in Requests, NEW p \in Requests,
                    pc'[q] \in Running, pc'[p] \in Running, Slot(q)' = s, Slot(p)' = s,
                    q # p
             PROVE  FALSE
  BY <1>1 DEF OneAtATime
<1>2. ASSUME NEW r \in Requests, NEW u \in Users \cup {Null}, Call(r, u)
      PROVE  FALSE
  <2>1. ASSUME NEW x \in Requests, pc'[r] \in Running, pc'[x] \in Running, x # r,
               Slot(r)' = s, Slot(x)' = s
        PROVE  FALSE
    <3>1. /\ pc[x] \in Running /\ Slot(x) = s /\ s = <<u, MinuteOf(now)>>
      BY <1>2, <2>1, CallCounts
    <3>2. call[x].user = u /\ u # Null
      BY <3>1, CallType
    <3> QED
      BY <1>2, <3>1, <3>2 DEF Call, Pass
  <2>2. CASE q # r /\ p # r
    <3>1. /\ pc[q] \in Running /\ pc[p] \in Running /\ Slot(q) = s /\ Slot(p) = s
      BY <1>2, <2>2, CallCounts
    <3> QED
      BY <1>1, <3>1 DEF OneAtATime
  <2> QED
    BY <2>1, <2>2
<1>3. CASE \A x \in Requests : /\ Slot(x)' = Slot(x)
                               /\ pc'[x] \in Running => pc[x] \in Running
  BY <1>1, <1>3 DEF OneAtATime
<1>4. ASSUME NEW r \in Requests, Handle(r)
      PROVE  \A x \in Requests : /\ Slot(x)' = Slot(x)
                                 /\ pc'[x] \in Running => pc[x] \in Running
  BY <1>4, HandleCounts DEF Running
<1>5. ASSUME NEW r \in Requests, SetCount(r)
      PROVE  \A x \in Requests : /\ Slot(x)' = Slot(x)
                                 /\ pc'[x] \in Running => pc[x] \in Running
  BY <1>5, SetCounts DEF Running
<1>6. ASSUME \/ UNCHANGED vars \/ Tick \/ \E k \in Keys : Evict(k)
             \/ \E r \in Requests : HandleFails(r) \/ GetCount(r)
      PROVE  \A x \in Requests : /\ Slot(x)' = Slot(x)
                                 /\ pc'[x] \in Running => pc[x] \in Running
  <2>1. \A x \in Requests : pc'[x] \in Running => pc[x] \in Running
    BY <1>6 DEF vars, Tick, Evict, HandleFails, GetCount, TypeOK, Running
  <2> QED
    BY <1>6, <2>1, QuietCounts
<1> QED
  BY <1>2, <1>3, <1>4, <1>5, <1>6 DEF Next, Step

(* The clock enters a minute with no counter and no call of it.            *)
LEMMA MinuteBegins ==
  ASSUME TypeOK, TypeOK', CountInv, Tick, NEW s \in Slots,
         s[2] = MinuteOf(now'), s[2] # MinuteOf(now)
  PROVE  /\ ~ (until[KeyOf(s)] > now')
         /\ \A r \in Requests : Slot(r) # s
<1> PICK k \in Keys : k = KeyOf(s)
  BY SlotType
<1>1. now \in Nat /\ now' \in Nat /\ now < now' /\ until[k] \in Nat
  BY ClockAssumption DEF TypeOK, Tick
<1>2. ASSUME until[k] > now'
      PROVE  FALSE
  <2>1. until[k] > now
    BY <1>1, <1>2
  <2>2. PICK m \in Minutes : CounterOf(k, m)
    BY <2>1 DEF CountInv, CountersAreRecent
  <2>3. m \in Nat /\ m % Hour = k[2]
    BY <2>1, <2>2, CounterIsAlive
  <2> PICK x \in Nat : x = m * Minute
    BY <2>3, ClockAssumption
  <2>4. x <= now /\ until[k] <= x + (2 * Minute + Latency)
    BY <2>2 DEF CounterOf
  <2>5. Alive(m, now')
    BY <1>1, <1>2, <2>4, ClockAssumption DEF Alive
  <2>6. m = s[2]
    BY <1>1, <2>3, <2>5, NowIsAlive, OneAlive, SlotType
  <2>7. now' < x + Minute
    BY <1>1, <2>6, MinuteBounds
  <2>8. MinuteOf(now) = m
    BY <1>1, <2>3, <2>4, <2>7, MinuteUnique, ClockAssumption
  <2> QED
    BY <2>6, <2>8
<1>3. ASSUME NEW r \in Requests, Slot(r) = s
      PROVE  FALSE
  <2>1. call[r].at \in Nat /\ call[r].at <= now /\ s[2] = MinuteOf(call[r].at)
    BY <1>3, CallType DEF CountInv, CallsAreTimely
  <2> PICK a \in Nat, b \in Nat, c \in Nat : a = call[r].at /\ b = now /\ c = now'
    BY <1>1, <2>1
  <2>2. MinuteOf(a) <= MinuteOf(b) /\ MinuteOf(b) <= MinuteOf(c)
    <3>1. a <= b /\ b <= c
      BY <1>1, <2>1
    <3> QED
      BY <3>1, MinutesInOrder
  <2>3. MinuteOf(now) \in Nat /\ MinuteOf(now') \in Nat
    BY <1>1, MinuteBounds
  <2> QED
    BY <2>1, <2>2, <2>3
<1> QED
  BY <1>2, <1>3

(* The parts of an exact counter, for one slot and its key.                *)
ExactFor(s, k) ==
  /\ until[k] > now => s[2] * Minute + Minute <= until[k]
  /\ Value(k) = Cardinality(Done(s))
  /\ \A r \in Requests : pc[r] = "set" /\ Slot(r) = s => seen[r] = Cardinality(Done(s))

(* An exact counter stays exact when no call of its slot moves.            *)
LEMMA ExactKept ==
  ASSUME NEW s \in Slots, NEW k \in Keys, ExactFor(s, k),
         now' = now, until'[k] = until[k], count'[k] = count[k], Done(s)' = Done(s),
         \A r \in Requests : pc'[r] = "set" /\ Slot(r)' = s =>
           pc[r] = "set" /\ Slot(r) = s /\ seen'[r] = seen[r]
  PROVE  ExactFor(s, k)'
BY DEF ExactFor, Value

(* The counter of the current minute is exact in a slot nothing spoils:    *)
(* one call at a time reads it and writes it, and it lasts to the end of   *)
(* the minute.                                                             *)
LEMMA ExactStep ==
  ASSUME TypeOK, TypeOK', CountInv, SlotInv, [Next]_vars
  PROVE  CounterIsExact'
<1> SUFFICES ASSUME NEW s \in Slots \ spoiled', s[2] = MinuteOf(now')
             PROVE  ExactFor(s, KeyOf(s))'
  BY DEF CounterIsExact, ExactFor, KeyOf
<1> PICK k \in Keys : k = KeyOf(s)
  BY SlotType
<1>1. s \in Slots \ spoiled
  BY OneStep DEF SlotInv
<1>2. s[2] = MinuteOf(now) => ExactFor(s, k)
  BY <1>1 DEF SlotInv, CounterIsExact, ExactFor
<1>3. /\ now \in Nat /\ until[k] \in Nat /\ count[k] \in Nat
      /\ Cardinality(Done(s)) \in Nat
  BY ClockAssumption, DoneFinite DEF TypeOK, CountInv
<1>4. ASSUME NEW r \in Requests, NEW u \in Users \cup {Null}, Call(r, u)
      PROVE  ExactFor(s, k)'
  <2>1. /\ UNCHANGED <<now, count, until, seen>> /\ Done(s)' = Done(s)
        /\ \A q \in Requests : pc'[q] = "set" => pc[q] = "set" /\ Slot(q)' = Slot(q)
    BY <1>4, CallCounts
  <2> QED
    BY <1>2, <2>1, ExactKept
<1>5. ASSUME NEW r \in Requests, Handle(r)
      PROVE  ExactFor(s, k)'
  <2>1. /\ UNCHANGED <<now, count, until, seen>> /\ Done(s)' = Done(s)
        /\ \A q \in Requests : pc'[q] = "set" => pc[q] = "set" /\ Slot(q)' = Slot(q)
    BY <1>5, HandleCounts
  <2> QED
    BY <1>2, <2>1, ExactKept
<1>6. ASSUME UNCHANGED vars \/ \E r \in Requests : HandleFails(r)
      PROVE  ExactFor(s, k)'
  <2>1. Done(s)' = Done(s) /\ count' = count /\ \A q \in Requests : Slot(q)' = Slot(q)
    BY <1>6, QuietCounts
  <2>2. /\ UNCHANGED <<now, until, seen>>
        /\ \A q \in Requests : pc'[q] = "set" => pc[q] = "set"
    BY <1>6 DEF vars, HandleFails, TypeOK
  <2> QED
    BY <1>2, <2>1, <2>2, ExactKept
<1>7. ASSUME NEW r \in Requests, GetCount(r)
      PROVE  ExactFor(s, k)'
  <2>1. Done(s)' = Done(s) /\ count' = count /\ \A q \in Requests : Slot(q)' = Slot(q)
    BY <1>7, QuietCounts
  <2>2. /\ UNCHANGED <<now, until>> /\ seen'[r] = Value(Key(r))
        /\ \A q \in Requests \ {r} : pc'[q] = pc[q] /\ seen'[q] = seen[q]
    BY <1>7 DEF GetCount, TypeOK
  <2>3. ExactFor(s, k)
    BY <1>2, <2>2
  <2>4. Slot(r) = s => Key(r) = k
    BY CallType
  <2>5. Value(k)' = Value(k)
    BY <2>1, <2>2 DEF Value
  <2>6. \A q \in Requests : pc'[q] = "set" /\ Slot(q)' = s => seen'[q] = Cardinality(Done(s))
    BY <2>1, <2>2, <2>3, <2>4 DEF ExactFor
  <2> QED
    BY <2>1, <2>2, <2>3, <2>5, <2>6 DEF ExactFor
<1>8. ASSUME NEW r \in Requests, SetCount(r)
      PROVE  ExactFor(s, k)'
  <2>1. /\ UNCHANGED <<now, call, seen>> /\ pc[r] = "set" /\ pc'[r] = "ok"
        /\ \A q \in Requests : Slot(q)' = Slot(q)
        /\ \A q \in Requests \ {r} : pc'[q] = pc[q]
        /\ count' = [count EXCEPT ![Key(r)] = seen[r] + 1]
        /\ until' = [until EXCEPT ![Key(r)] = now + Minute]
    BY <1>8, SetCounts
  <2>2. ExactFor(s, k) /\ s[2] = MinuteOf(now)
    BY <1>2, <2>1
  <2>3. call[r].user # Null /\ Slot(r) \in Slots /\ Key(r) = KeyOf(Slot(r))
    BY <2>1, CallType DEF CountInv, CallsAreTimely
  <2>4. CASE Slot(r) = s
    <3>1. /\ count'[k] = seen[r] + 1 /\ until'[k] = now + Minute
          /\ seen[r] = Cardinality(Done(s))
      BY <2>1, <2>2, <2>3, <2>4 DEF TypeOK, ExactFor
    <3>2. Cardinality(Done(s))' = Cardinality(Done(s)) + 1
      <4>1. Done(s)' = Done(Slot(r))'
        BY <2>1, <2>4
      <4> QED
        BY <1>8, <2>3, <2>4, <4>1, SetRaisesDone DEF CountInv
    <3>3. Value(k)' = Cardinality(Done(s))'
      BY <1>3, <2>1, <3>1, <3>2, ClockAssumption DEF Value
    <3> PICK x \in Nat : x = s[2] * Minute
      BY SlotType, ClockAssumption
    <3>4. x + Minute <= until'[k]
      BY <1>3, <2>2, <3>1, MinuteBounds, ClockAssumption
    <3>5. \A q \in Requests : ~ (pc'[q] = "set" /\ Slot(q)' = s)
      <4> SUFFICES ASSUME NEW q \in Requests, pc'[q] = "set", Slot(q)' = s
                   PROVE  FALSE
        OBVIOUS
      <4>1. q # r /\ pc[q] = "set" /\ Slot(q) = s
        BY <2>1
      <4> QED
        BY <1>1, <2>1, <2>4, <4>1 DEF SlotInv, OneAtATime, Running
    <3> QED
      BY <3>3, <3>4, <3>5 DEF ExactFor
  <2>5. CASE Slot(r) # s
    <3>1. Key(r) # k
      <4> SUFFICES ASSUME Key(r) = k PROVE FALSE
        OBVIOUS
      <4>1. /\ Slot(r)[1] = s[1] /\ Slot(r)[2] % Hour = s[2] % Hour
            /\ Slot(r)[2] \in Nat /\ s[2] \in Nat
        BY <2>3, SlotType DEF KeyOf
      <4>2. Alive(Slot(r)[2], now)
        BY <2>1, RunningIsAlive, CallType DEF CountInv, Running
      <4>3. Slot(r)[2] = s[2]
        BY <1>3, <2>2, <4>1, <4>2, NowIsAlive, OneAlive
      <4> QED
        BY <2>3, <2>5, <4>1, <4>3, SlotType
    <3>2. until'[k] = until[k] /\ count'[k] = count[k]
      BY <2>1, <3>1 DEF TypeOK
    <3>3. Done(s)' = Done(s)
      BY <1>8, <2>5, SetCounts
    <3>4. \A q \in Requests : pc'[q] = "set" /\ Slot(q)' = s =>
            pc[q] = "set" /\ Slot(q) = s /\ seen'[q] = seen[q]
      BY <2>1
    <3> QED
      BY <2>1, <2>2, <3>2, <3>3, <3>4, ExactKept
  <2> QED
    BY <2>4, <2>5
<1>9. ASSUME NEW j \in Keys, Evict(j)
      PROVE  ExactFor(s, k)'
  <2>1. Done(s)' = Done(s) /\ count' = count /\ \A q \in Requests : Slot(q)' = Slot(q)
    BY <1>9, QuietCounts
  <2>2. UNCHANGED <<now, seen, pc>> /\ until' = [until EXCEPT ![j] = 0]
    BY <1>9 DEF Evict
  <2>3. k # j
    <3> SUFFICES ASSUME k = j PROVE FALSE
      OBVIOUS
    <3>1. s[1] = j[1] /\ s[2] % Hour = j[2]
      <4>1. s \in Slots
        OBVIOUS
      <4>2. KeyOf(s)[1] = s[1] /\ KeyOf(s)[2] = s[2] % Hour
        BY <4>1, SlotType
      <4> QED
        BY <4>2
    <3>2. s[2] = MinuteOf(now) /\ s[2] \in Nat
      BY <1>3, <2>2, SlotType DEF MinuteOf
    <3>3. s[2] <= MinuteOf(now)
      BY <3>2
    <3> QED
      BY <1>9, <3>1, <3>3 DEF Evict
  <2>4. until'[k] = until[k]
    BY <2>2, <2>3 DEF TypeOK
  <2> QED
    BY <1>2, <2>1, <2>2, <2>4, ExactKept
<1>10. ASSUME Tick
       PROVE  ExactFor(s, k)'
  <2>1. /\ Done(s)' = Done(s) /\ count' = count /\ \A q \in Requests : Slot(q)' = Slot(q)
    BY <1>10, QuietCounts
  <2>2. UNCHANGED <<until, seen, pc>> /\ now' = now + 1
    BY <1>10 DEF Tick
  <2>3. CASE s[2] = MinuteOf(now)
    <3> PICK x \in Nat : x = s[2] * Minute
      BY SlotType, ClockAssumption
    <3>1. now' < x + Minute /\ now' \in Nat
      BY <1>3, <2>2, MinuteBounds
    <3>2. ExactFor(s, k) /\ (until[k] > now => x + Minute <= until[k])
      BY <1>2, <2>3 DEF ExactFor
    <3>3. until[k] > now <=> until[k] > now'
      BY <1>3, <2>2, <3>1, <3>2, ClockAssumption
    <3>4. Value(k)' = Value(k)
      BY <2>1, <2>2, <3>3 DEF Value
    <3> QED
      BY <2>1, <2>2, <3>2, <3>3, <3>4 DEF ExactFor
  <2>4. CASE s[2] # MinuteOf(now)
    <3>1. ~ (until[k] > now') /\ \A r \in Requests : Slot(r) # s
      BY <1>10, <2>4, MinuteBegins
    <3>2. Done(s) = {}
      BY <3>1 DEF Done
    <3>3. Cardinality(Done(s))' = 0
      BY <2>1, <3>2, FS_EmptySet
    <3>4. Value(k)' = 0
      BY <2>2, <3>1 DEF Value
    <3> QED
      BY <2>1, <2>2, <3>1, <3>3, <3>4 DEF ExactFor
  <2> QED
    BY <2>3, <2>4
<1> QED
  BY <1>4, <1>5, <1>6, <1>7, <1>8, <1>9, <1>10 DEF Next, Step, KeyOf

(* A call passes when its counter says there is room; alone, it says so    *)
(* exactly.                                                                *)
LEMMA RoomStep ==
  ASSUME TypeOK, CountInv, SlotInv, [Next]_vars
  PROVE  RoomIsLeft'
<1> SUFFICES ASSUME NEW s \in Slots \ spoiled'
             PROVE  /\ served'[s] <= Limit
                    /\ \A q \in Requests :
                         pc'[q] = "handle" /\ Slot(q)' = s => served'[s] < Limit
  BY DEF RoomIsLeft
<1>1. s \in Slots \ spoiled
  BY OneStep DEF SlotInv
<1>2. /\ served[s] <= Limit /\ served[s] \in Nat
      /\ \A q \in Requests : pc[q] = "handle" /\ Slot(q) = s => served[s] < Limit
  BY <1>1 DEF SlotInv, RoomIsLeft, TypeOK
<1>3. ASSUME NEW r \in Requests, NEW u \in Users \cup {Null}, Call(r, u)
      PROVE  /\ served'[s] <= Limit
             /\ \A q \in Requests :
                  pc'[q] = "handle" /\ Slot(q)' = s => served'[s] < Limit
  <2>1. /\ served' = served /\ Slot(r)' = <<u, MinuteOf(now)>>
        /\ \A q \in Requests \ {r} : pc'[q] = pc[q] /\ Slot(q)' = Slot(q)
    BY <1>3, CallCounts
  <2>2. ASSUME pc'[r] = "handle", Slot(r)' = s
        PROVE  served[s] < Limit
    <3>1. s = <<u, MinuteOf(now)>> /\ u \in Users /\ u # Null
      BY <2>1, <2>2, SlotType, NullAssumption
    <3>2. Value(KeyOf(s)) < Limit
      BY <1>3, <2>2, <3>1 DEF Call, Pass, KeyOf, TypeOK
    <3>3. Value(KeyOf(s)) = Cardinality(Done(s))
      BY <1>1, <3>1 DEF SlotInv, CounterIsExact
    <3>4. \A q \in Requests : Slot(q) = s => pc[q] \notin Running
      <4> SUFFICES ASSUME NEW q \in Requests, Slot(q) = s, pc[q] \in Running
                   PROVE  FALSE
        OBVIOUS
      <4>1. call[q].user = u
        BY <3>1, CallType
      <4> QED
        BY <1>3, <3>1, <4>1 DEF Call, Pass
    <3>5. Done(s) = Counted(s)
      BY <3>4 DEF Done, Counted, Running
    <3> QED
      BY <3>2, <3>3, <3>5, DoneFinite DEF CountInv
  <2> QED
    BY <1>2, <2>1, <2>2
<1>4. ASSUME NEW r \in Requests, Handle(r)
      PROVE  /\ served'[s] <= Limit
             /\ \A q \in Requests :
                  pc'[q] = "handle" /\ Slot(q)' = s => served'[s] < Limit
  <2>1. /\ pc[r] = "handle" /\ pc'[r] # "handle"
        /\ \A q \in Requests \ {r} : pc'[q] = pc[q]
        /\ \A q \in Requests : Slot(q)' = Slot(q)
        /\ served' = served \/ served' = [served EXCEPT ![Slot(r)] = @ + 1]
    BY <1>4, HandleCounts
  <2>2. CASE Slot(r) = s
    <3>1. served[s] < Limit /\ served'[s] <= served[s] + 1 /\ served'[s] \in Nat
      BY <1>2, <2>1, <2>2 DEF TypeOK
    <3>2. \A q \in Requests : ~ (pc'[q] = "handle" /\ Slot(q)' = s)
      <4> SUFFICES ASSUME NEW q \in Requests, pc'[q] = "handle", Slot(q)' = s
                   PROVE  FALSE
        OBVIOUS
      <4>1. q # r /\ pc[q] = "handle" /\ Slot(q) = s
        BY <2>1
      <4> QED
        BY <1>1, <2>1, <2>2, <4>1 DEF SlotInv, OneAtATime, Running
    <3> QED
      BY <1>2, <3>1, <3>2, LimitAssumption
  <2>3. CASE Slot(r) # s
    <3>1. served'[s] = served[s]
      BY <2>1, <2>3 DEF TypeOK
    <3> QED
      BY <1>2, <2>1, <3>1
  <2> QED
    BY <2>2, <2>3
<1>5. ASSUME NEW r \in Requests, SetCount(r)
      PROVE  /\ served'[s] <= Limit
             /\ \A q \in Requests :
                  pc'[q] = "handle" /\ Slot(q)' = s => served'[s] < Limit
  <2>1. /\ served' = served /\ \A q \in Requests : Slot(q)' = Slot(q)
        /\ \A q \in Requests : pc'[q] = "handle" => pc[q] = "handle"
    BY <1>5, SetCounts
  <2> QED
    BY <1>2, <2>1
<1>6. ASSUME \/ UNCHANGED vars \/ Tick \/ \E k \in Keys : Evict(k)
             \/ \E r \in Requests : HandleFails(r) \/ GetCount(r)
      PROVE  /\ served'[s] <= Limit
             /\ \A q \in Requests :
                  pc'[q] = "handle" /\ Slot(q)' = s => served'[s] < Limit
  <2>1. \A q \in Requests : pc'[q] = "handle" => pc[q] = "handle"
    BY <1>6 DEF vars, Tick, Evict, HandleFails, GetCount, TypeOK
  <2>2. served' = served /\ \A q \in Requests : Slot(q)' = Slot(q)
    BY <1>6, QuietCounts
  <2> QED
    BY <1>2, <2>1, <2>2
<1> QED
  BY <1>3, <1>4, <1>5, <1>6 DEF Next, Step

-----------------------------------------------------------------------------
(* The invariant is inductive.                                             *)
LEMMA Invariance == Spec => []IInv
<1>1. Init => IInv
  <2> SUFFICES ASSUME Init PROVE IInv
    OBVIOUS
  <2>1. /\ now = 0 /\ spoiled = {}
        /\ count = [k \in Keys |-> 0] /\ until = [k \in Keys |-> 0]
        /\ pc = [r \in Requests |-> "idle"]
        /\ call = [r \in Requests |-> [user |-> Null, at |-> 0]]
        /\ seen = [r \in Requests |-> 0] /\ served = [s \in Slots |-> 0]
    BY DEF Init
  <2>2. \A s : Counted(s) = {} /\ Done(s) = {}
    BY <2>1 DEF Counted, Done
  <2>3. TypeOK
    BY <2>1, ClockAssumption DEF TypeOK
  <2>4. CallsAreTimely
    BY <2>1, ClockAssumption DEF CallsAreTimely, Running
  <2>5. ServedIsCounted
    BY <2>1, <2>2, FS_EmptySet DEF ServedIsCounted
  <2>6. CountersAreRecent /\ SeenIsDone
    BY <2>1 DEF CountersAreRecent, SeenIsDone
  <2>7. OneAtATime /\ RoomIsLeft /\ RefusedOverLimitOnly
    BY <2>1, LimitAssumption DEF OneAtATime, RoomIsLeft, RefusedOverLimitOnly, Running
  <2>8. CounterIsExact
    <3> SUFFICES ASSUME NEW s \in Slots PROVE ExactFor(s, KeyOf(s))
      BY DEF CounterIsExact, ExactFor
    <3>1. KeyOf(s) \in Keys
      BY SlotType
    <3>2. Value(KeyOf(s)) = 0 /\ until[KeyOf(s)] = 0
      BY <2>1, <3>1 DEF Value
    <3> QED
      BY <2>1, <2>2, <3>2, FS_EmptySet DEF ExactFor
  <2> QED
    BY <2>3, <2>4, <2>5, <2>6, <2>7, <2>8 DEF IInv, CountInv, SlotInv
<1>2. IInv /\ [Next]_vars => IInv'
  BY TypeStep, TimelyStep, ServedStep, RecentStep, SeenStep, OneStep, ExactStep, RoomStep,
     RefusedStep DEF IInv, CountInv, SlotInv
<1> QED
  BY <1>1, <1>2, PTL DEF Spec

(* Every variable of the throttle keeps its range                          *)
(* (throttle.interceptor.ts:16-60).                                        *)
THEOREM TypeCorrect == Spec => []TypeOK
BY Invariance, PTL DEF IInv

(* For any limit and any clock, a user whose calls do not overlap has at   *)
(* most Limit of them answered in a minute (throttle.interceptor.ts:36-56). *)
THEOREM SequentialCallsAreLimited == Spec => []LimitedWhenSequential
<1>1. IInv => LimitedWhenSequential
  BY DEF IInv, SlotInv, RoomIsLeft, LimitedWhenSequential
<1> QED
  BY <1>1, Invariance, PTL

(* However many calls overlap and whatever the cache drops, none is        *)
(* refused before Limit calls of its user and minute were answered         *)
(* (throttle.interceptor.ts:42-54).                                        *)
THEOREM RefusalsMeanTheLimit == Spec => []RefusedOverLimitOnly
BY Invariance, PTL DEF IInv

=============================================================================

------------------------------ MODULE RateLimit ------------------------------
(***************************************************************************)
(* The in-process rate limiter of a route (security/rate.limit.go): token  *)
(* buckets, one per client network, one per route, one global, in one map  *)
(* under one mutex.  A request                                             *)
(*                                                                         *)
(*   1. reads the clock and computes its keys, before it has the mutex;    *)
(*   2. takes the mutex, perhaps sweeps the map;                           *)
(*   3. charges its buckets one after the other, in memory of its own, and *)
(*      may have to evict another bucket to make room for a new one;       *)
(*   4. writes all of them back, or none if one of them is short.          *)
(*                                                                         *)
(* Tokens are counted in units, Unit of them to a token, so that a refill  *)
(* may be a fraction of a token.  Times are relative to the present: an    *)
(* age is how long ago, and saturates where it makes no difference.        *)
(***************************************************************************)
EXTENDS Integers, Sequences, FiniteSets

CONSTANTS Requests,
          Clients,
          Limits,      \* the limits with a positive rate: a sequence of
                       \* [rate |-> units per tick, burst |-> tokens]
          KeysOf,      \* KeysOf[c]: the sequence of bucket keys of client c
          NoKey,       \* "", the keys[i] of a limit that is not configured
          Unit,        \* units in a token
          MaxBuckets,  \* maxBuckets
          Second, Minute, \* in ticks: the least and the usual time between sweeps
          MaxLag,      \* bound: ticks a request may wait between clock and mutex
          None

Keys     == {KeysOf[c][i] : c \in Clients, i \in DOMAIN Limits}

\* The keys of different limits differ in their prefix: "ip:", "route:" and "global".
ASSUME RateLimitAssumption ==
  /\ Limits \in Seq([rate : Nat \ {0}, burst : Nat \ {0}]) /\ Len(Limits) \in 1..3
  /\ \A c \in Clients : DOMAIN KeysOf[c] = DOMAIN Limits
  /\ \A c, d \in Clients : \A i, j \in DOMAIN Limits : KeysOf[c][i] = KeysOf[d][j] => i = j
  /\ NoKey \notin Keys /\ None \notin Requests
  /\ Unit \in Nat \ {0} /\ Second \in Nat /\ Minute \in Nat /\ MaxLag \in Nat

AllKeys  == Keys \cup {NoKey}
LimitOf(k) == Limits[CHOOSE i \in DOMAIN Limits : \E c \in Clients : KeysOf[c][i] = k]
Least(a, b) == IF a <= b THEN a ELSE b

\* Ages beyond these make no difference: the bucket is full, a sweep is due.
MaxAge(k) == IF k = NoKey THEN 0
             ELSE (LimitOf(k).burst * Unit) \div LimitOf(k).rate + 1 + MaxLag
MaxSwept  == Minute + MaxLag

VARIABLES state,    \* the map: key -> [tokens, age], the age being that of `updated'
          swept,    \* time since lastSweep
          holder,   \* the request that has the mutex, or None
          charged,  \* the holder's `updated': the buckets charged so far, in order
          pc, client,
          lag,      \* lag[r]: time since r read the clock
          slack,    \* what lag is bounded by: 0 where requests are never overtaken, or MaxLag
          ideal     \* history: ideal[k], the units of a reference bucket of key k

vars == <<state, swept, holder, charged, pc, client, lag, slack, ideal>>

\* The reference bucket is charged when a request is let in and refilled with real
\* time; it holds the burst and what slack ticks refill.  A sweep grants those slack ticks
\* again: a bucket that is full by the sweeper's clock is made anew, and full, by a request
\* whose clock is older, and so counts the ticks between the two clocks twice.
IdealCap(k) == LimitOf(k).burst * Unit + LimitOf(k).rate * slack

Init == /\ state = <<>> /\ swept = 0
        /\ holder = None /\ charged = <<>>
        /\ pc = [r \in Requests |-> "idle"]
        /\ client = [r \in Requests |-> None]
        /\ lag = [r \in Requests |-> 0]
        /\ slack \in {0, MaxLag}
        /\ ideal = [k \in Keys |-> IdealCap(k)]

Without(f, S) == [k \in DOMAIN f \ S |-> f[k]]
-----------------------------------------------------------------------------
\* now := time.Now() and the keys; the request then waits for the mutex.
ReadClock(r, c) == /\ pc[r] \in {"idle", "allowed", "denied"}
                   /\ pc' = [pc EXCEPT ![r] = "waiting"]
                   /\ client' = [client EXCEPT ![r] = c]
                   /\ lag' = [lag EXCEPT ![r] = 0]
                   /\ UNCHANGED <<state, swept, holder, charged, ideal>>

FullTooSoon(r, k) == \* mutant of Full: the time to fill is taken twice as short
  \/ k = NoKey
  \/ state[k].age - lag[r] >
       (LimitOf(k).burst * Unit - state[k].tokens) \div (2 * LimitOf(k).rate)

\* Now.After(current.fullAt), where fullAt = updated + (burst - tokens) / rate, rounded
\* down; the bucket of NoKey has the zero time.
Full(r, k) == \/ k = NoKey
              \/ state[k].age - lag[r] >
                   (LimitOf(k).burst * Unit - state[k].tokens) \div LimitOf(k).rate

SweepDue(r) == /\ swept - lag[r] >= Second
               /\ swept - lag[r] >= Minute \/ Cardinality(DOMAIN state) >= MaxBuckets

Lock(r) == /\ holder = None /\ pc[r] = "waiting"
           /\ holder' = r /\ charged' = <<>>
           /\ \/ /\ SweepDue(r)
                 /\ state' = Without(state, {k \in DOMAIN state : Full(r, k)})
                 /\ swept' = lag[r]
                 /\ ideal' = [k \in Keys |-> IF k \in DOMAIN state /\ Full(r, k)
                                             THEN Least(ideal[k] + LimitOf(k).rate * slack, IdealCap(k))
                                             ELSE ideal[k]]
              \/ /\ ~SweepDue(r)
                 /\ UNCHANGED <<state, swept, ideal>>
           /\ UNCHANGED <<pc, client, lag>>

\* The limit the holder comes to next, its key, and what its bucket has for it.
This    == Len(charged) + 1
ThisKey == KeysOf[client[holder]][This]
AvailableUncapped == \* mutant of Available: the minimum with the burst is left out
  LET l == Limits[This]
  IN  IF ThisKey \in DOMAIN state
      THEN state[ThisKey].tokens + (state[ThisKey].age - lag[holder]) * l.rate
      ELSE l.burst * Unit
AvailableNoRefill == \* mutant of Available: the time since the last charge is not counted
  IF ThisKey \in DOMAIN state THEN state[ThisKey].tokens ELSE Limits[This].burst * Unit
Available == LET l == Limits[This]
             IN  IF ThisKey \in DOMAIN state
                 THEN Least(l.burst * Unit,
                            state[ThisKey].tokens + (state[ThisKey].age - lag[holder]) * l.rate)
                 ELSE l.burst * Unit
MustEvict == ThisKey \notin DOMAIN state /\ Cardinality(DOMAIN state) >= MaxBuckets

\* Whatever becomes of the request, a bucket evicted for it is forgotten: some key the
\* range over the map comes to first.  One the request has charged comes back, unless the
\* request is refused.
Charged == {KeysOf[client[holder]][i] : i \in DOMAIN charged}
Evict == \/ /\ ~MustEvict
            /\ UNCHANGED <<state, ideal>>
         \/ /\ MustEvict
            /\ \E k \in DOMAIN state :
                 /\ state' = Without(state, {k})
                 /\ ideal' = IF k \in Charged \cup {NoKey} THEN ideal
                             ELSE [ideal EXCEPT ![k] = IdealCap(k)]

Charge(r) == /\ holder = r /\ This <= Len(Limits)
             /\ Available >= Unit
             /\ Evict
             /\ charged' = Append(charged, [tokens |-> Available - Unit, age |-> lag[r]])
             /\ UNCHANGED <<swept, holder, pc, client, lag>>

Leaves(r, verdict) == /\ pc' = [pc EXCEPT ![r] = verdict]
                      /\ lag' = [lag EXCEPT ![r] = 0]
                      /\ client' = [client EXCEPT ![r] = None]
                      /\ holder' = None /\ charged' = <<>>

DenyChargesToo(r) == \* mutant of Deny: each bucket is written back as it is charged
  /\ holder = r /\ This <= Len(Limits)
  /\ Available < Unit
  /\ LET ks == KeysOf[client[r]]
     IN state' = [k \in DOMAIN state \cup {ks[i] : i \in DOMAIN charged} |->
                    IF \E i \in DOMAIN charged : ks[i] = k
                    THEN charged[CHOOSE i \in DOMAIN charged : ks[i] = k] ELSE state[k]]
  /\ Leaves(r, "denied")
  /\ UNCHANGED <<swept, ideal>>
\* Nothing is evicted for the bucket that is short: it is in the map, as a new one is full.
Deny(r) == /\ holder = r /\ This <= Len(Limits)
           /\ Available < Unit
           /\ ideal' = [k \in Keys |-> IF k \in Charged \ DOMAIN state THEN IdealCap(k) ELSE ideal[k]]
           /\ Leaves(r, "denied")
           /\ UNCHANGED <<state, swept>>

WriteBackKept(r) == \* mutant of WriteBack: a bucket evicted meanwhile stays forgotten
  LET ks == KeysOf[client[r]]
      mine == {i \in DOMAIN Limits : Cardinality(DOMAIN state) < MaxBuckets \/ ks[i] \in DOMAIN state}
  IN state' = [k \in DOMAIN state \cup {ks[i] : i \in mine} |->
                 IF \E i \in mine : ks[i] = k THEN charged[CHOOSE i \in mine : ks[i] = k]
                 ELSE state[k]]
\* All three keys are written back; those of limits that are not there are NoKey.
WriteBack(r) ==
  LET ks == KeysOf[client[r]]
      written == {ks[i] : i \in DOMAIN Limits} \cup (IF Len(Limits) < 3 THEN {NoKey} ELSE {})
  IN state' = [k \in DOMAIN state \cup written |->
                 IF k = NoKey THEN [tokens |-> 0, age |-> 0]
                 ELSE IF k \in written THEN charged[CHOOSE i \in DOMAIN Limits : ks[i] = k]
                 ELSE state[k]]

Allow(r) == /\ holder = r /\ This > Len(Limits)
            /\ WriteBack(r)
            /\ ideal' = [k \in Keys |-> IF \E i \in DOMAIN Limits : KeysOf[client[r]][i] = k
                                        THEN ideal[k] - Unit ELSE ideal[k]]
            /\ Leaves(r, "allowed")
            /\ UNCHANGED swept

\* Time passes while nobody has the mutex: the section does not look at the clock.
Tick == /\ holder = None
        /\ \A r \in Requests : pc[r] = "waiting" => lag[r] < slack
        /\ state' = [k \in DOMAIN state |->
                       [state[k] EXCEPT !.age = Least(@ + 1, MaxAge(k))]]
        /\ swept' = Least(swept + 1, MaxSwept)
        /\ lag' = [r \in Requests |-> IF pc[r] = "waiting" THEN lag[r] + 1 ELSE lag[r]]
        /\ ideal' = [k \in Keys |-> Least(ideal[k] + LimitOf(k).rate, IdealCap(k))]
        /\ UNCHANGED <<holder, charged, pc, client>>

Next == /\ \/ \E r \in Requests : \/ \E c \in Clients : ReadClock(r, c)
                                  \/ Lock(r) \/ Charge(r) \/ Deny(r) \/ Allow(r)
           \/ Tick
        /\ UNCHANGED slack

Spec == Init /\ [][Next]_vars
-----------------------------------------------------------------------------
TypeOK ==
  /\ DOMAIN state \subseteq AllKeys
  /\ \A k \in DOMAIN state :
       state[k] \in [tokens : 0..(IF k = NoKey THEN 0 ELSE LimitOf(k).burst * Unit),
                     age : 0..MaxAge(k)]
  /\ swept \in 0..MaxSwept
  /\ holder \in Requests \cup {None} /\ Len(charged) <= Len(Limits)
  /\ pc \in [Requests -> {"idle", "waiting", "allowed", "denied"}]
  /\ client \in [Requests -> Clients \cup {None}] /\ lag \in [Requests -> 0..slack]
  /\ slack \in {0, MaxLag}
  /\ DOMAIN ideal = Keys
  /\ holder # None => pc[holder] = "waiting"

\* No window of time lets in more than the burst and the refill of that window (and of
\* slack ticks, where requests may wait that long for the mutex, once and once a sweep):
\* whatever order the requests get the mutex in, and whatever the sweeps forget.  An
\* eviction at the map's capacity is the one other way for a bucket to be filled early.
NeverOverAdmits == \A k \in Keys : ideal[k] >= 0

\* No bucket, real or reference, is ever below zero or above its burst.
BucketsBounded == TypeOK /\ NeverOverAdmits

\* README: "A rejection inside the route policy does not consume tokens from its other
\* per-IP or per-route buckets" - in all the steps of a request that ends denied, a
\* bucket that stays in the map keeps its tokens until the request is let in.
ConsumesOnlyWhenAllowed ==
  [][\A k \in DOMAIN state \cap DOMAIN state' :
       state'[k].tokens < state[k].tokens =>
         \E r \in Requests : holder = r /\ pc'[r] = "allowed"
                             /\ \E i \in DOMAIN Limits : KeysOf[client[r]][i] = k]_vars

\* Where no request is overtaken between its clock and the mutex, one is refused only if
\* one of its reference buckets has no token left.
DeniedOnlyWhenEmpty ==
  [][\A r \in Requests :
       (slack = 0 /\ holder = r /\ pc'[r] = "denied") =>
         \E i \in DOMAIN Limits : ideal[KeysOf[client[r]][i]] < Unit]_vars

\* A refusal takes nothing from the client's buckets, and has a reason.
RefusalsFair == ConsumesOnlyWhenAllowed /\ DeniedOnlyWhenEmpty

\* README: "Rate limits are enforced per-minute with burst capacity" - a request is
\* refused only if a bucket of its had less than a token when it was last charged: what
\* remains of the burst is there to be used, and refilling never takes from it.  False:
\* a request whose clock is older than the last charge finds a negative refill.
BurstIsUsable ==
  [][\A r \in Requests :
       (holder = r /\ pc'[r] = "denied") =>
         \E i \in DOMAIN Limits : LET k == KeysOf[client[r]][i]
                                  IN  k \in DOMAIN state /\ state[k].tokens < Unit]_vars
=============================================================================

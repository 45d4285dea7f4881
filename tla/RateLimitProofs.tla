--------------------------- MODULE RateLimitProofs ---------------------------
(***************************************************************************)
(* RateLimit proved for any requests, clients, limits, capacity of the map *)
(* and age of the clocks: no bucket admits more than its reference, and a  *)
(* refusal takes nothing and has a reason.                                 *)
(***************************************************************************)
EXTENDS RateLimit, TLAPS

-----------------------------------------------------------------------------
(* The invariant *)

Cap(k)  == LimitOf(k).burst * Unit
Rate(k) == LimitOf(k).rate

\* What a request with a clock of now would find in bucket b of key k, but for the burst.
Level(b, k) == b.tokens + b.age * Rate(k)

\* A reference that holds x, where clocks are up to s old, is not below the bucket; it is
\* the same if they never are.
Top(k, s) == Cap(k) + s * Rate(k)
Tracks(b, k, x, s) == /\ Least(Top(k, s), Level(b, k)) <= x
                      /\ s = 0 => x = Least(Top(k, s), Level(b, k))

Bucket(k) == [tokens : 0..Cap(k), age : 0..MaxAge(k)]

Shape ==
  /\ DOMAIN state \subseteq AllKeys
  /\ \A k \in DOMAIN state : IF k = NoKey THEN state[k] = [tokens |-> 0, age |-> 0]
                                          ELSE state[k] \in Bucket(k)
  /\ swept \in 0..MaxSwept
  /\ pc \in [Requests -> {"idle", "waiting", "allowed", "denied"}]
  /\ client \in [Requests -> Clients \cup {None}] /\ lag \in [Requests -> 0..slack]
  /\ \A r \in Requests : pc[r] = "waiting" => client[r] \in Clients
  /\ holder \in Requests \cup {None}
  /\ IF holder = None THEN charged = <<>>
                      ELSE pc[holder] = "waiting" /\ charged \in Seq([tokens : Nat, age : Nat])
  /\ Len(charged) <= Len(Limits) /\ slack \in {0, MaxLag}
  /\ ideal \in [Keys -> Int]

\* What the holder has charged so far: the references are a token ahead of it.
InHand(i) == LET k == KeysOf[client[holder]][i]
             IN  charged[i] \in Bucket(k) /\ Tracks(charged[i], k, ideal[k] - Unit, slack)

\* A bucket that is in the map tracks its reference; a reference is full without one.
Known(k) == /\ k \in DOMAIN state => Tracks(state[k], k, ideal[k], slack)
            /\ k \notin DOMAIN state /\ (holder = None \/ k \notin Charged) => ideal[k] = Top(k, slack)
            /\ ideal[k] <= Top(k, slack)

IInv == /\ Shape
        /\ \A i \in DOMAIN charged : InHand(i)
        /\ \A k \in Keys : Known(k)
-----------------------------------------------------------------------------
(* Buckets and their references *)

LEMMA Units == Unit \in Int /\ Unit > 0 /\ MaxLag \in Nat
BY RateLimitAssumption

LEMMA Times ==
  ASSUME NEW a \in Int, NEW b \in Int, NEW r \in Int
  PROVE  /\ a * r \in Int /\ (a - b) * r = a * r - b * r /\ (a + b) * r = a * r + b * r
         /\ a * r = r * a /\ (a + 1) * r = a * r + r /\ 0 * r = 0
         /\ a <= b /\ r >= 0 => a * r <= b * r
BY SMT

LEMMA Division ==
  ASSUME NEW n \in Nat, NEW d \in Nat, d > 0
  PROVE  n \div d \in Nat /\ n < (n \div d) * d + d
<1>1. n \div d \in Nat /\ n = d * (n \div d) + (n % d) /\ n % d \in 0..d - 1
  BY SMT
<1>2. d * (n \div d) = (n \div d) * d
  BY <1>1, SMT
<1> QED BY <1>1, <1>2, SMT

\* The limit of a key is the one at its place in the keys of any client.
LEMMA Limit ==
  ASSUME NEW c \in Clients, NEW i \in DOMAIN Limits
  PROVE  /\ KeysOf[c][i] \in Keys /\ LimitOf(KeysOf[c][i]) = Limits[i]
         /\ Limits[i] \in [rate : Nat \ {0}, burst : Nat \ {0}]
<1> DEFINE P(j) == \E d \in Clients : KeysOf[d][j] = KeysOf[c][i]
<1>1. \A j \in DOMAIN Limits : P(j) => j = i
  BY RateLimitAssumption
<1>2. (CHOOSE j \in DOMAIN Limits : P(j)) = i
  BY <1>1
<1>3. Limits[i] \in [rate : Nat \ {0}, burst : Nat \ {0}]
  <2>1. Limits \in Seq([rate : Nat \ {0}, burst : Nat \ {0}])
    BY RateLimitAssumption
  <2>2. ASSUME NEW T, NEW s \in Seq(T), NEW j \in DOMAIN s PROVE s[j] \in T
    OBVIOUS
  <2> QED BY <2>1, <2>2, Zenon
<1>4. KeysOf[c][i] \in Keys
  BY DEF Keys
<1>5. LimitOf(KeysOf[c][i]) = Limits[CHOOSE j \in DOMAIN Limits : P(j)]
  BY DEF LimitOf
<1> QED BY <1>2, <1>3, <1>4, <1>5

LEMMA Sizes ==
  ASSUME NEW k \in Keys, NEW s \in {0, MaxLag}
  PROVE  /\ k # NoKey /\ Rate(k) \in Nat /\ Rate(k) > 0 /\ Cap(k) \in Nat /\ Unit <= Cap(k)
         /\ s \in Nat /\ s * Rate(k) \in Nat
         /\ Top(k, s) = Cap(k) + s * Rate(k) /\ Top(k, s) \in Nat
         /\ MaxAge(k) \in Nat /\ s <= MaxAge(k) /\ Top(k, s) <= MaxAge(k) * Rate(k)
<1>1. PICK c \in Clients, i \in DOMAIN Limits : k = KeysOf[c][i]
  BY DEF Keys
<1>2. LimitOf(k) \in [rate : Nat \ {0}, burst : Nat \ {0}]
  BY <1>1, Limit
<1>3. /\ Rate(k) \in Nat /\ Rate(k) > 0 /\ LimitOf(k).burst \in Nat \ {0}
      /\ k # NoKey
  BY <1>2, RateLimitAssumption DEF Rate
<1>4. Cap(k) \in Nat /\ Unit <= Cap(k)
  <2>1. \A n, u \in Nat \ {0} : n * u \in Nat /\ u <= n * u
    BY SMT
  <2>2. Unit \in Nat \ {0}
    BY Units
  <2> QED BY <1>3, <2>1, <2>2 DEF Cap
<1>5. /\ s \in Nat /\ s <= MaxLag /\ MaxLag \in Nat
      /\ s * Rate(k) \in Nat /\ Rate(k) * s = s * Rate(k)
  <2>1. s \in Nat /\ s <= MaxLag /\ MaxLag \in Nat
    BY Units
  <2>2. \A n, m \in Nat : n * m \in Nat /\ n * m = m * n
    BY SMT
  <2> QED BY <1>3, <2>1, <2>2
<1> DEFINE q == Cap(k) \div Rate(k)
<1>6. q \in Nat /\ Cap(k) < q * Rate(k) + Rate(k)
  BY <1>3, <1>4, Division
<1>7. MaxAge(k) = q + 1 + MaxLag
  BY <1>3 DEF MaxAge, Cap, Rate
<1> HIDE DEF q
<1>8. /\ MaxAge(k) \in Nat /\ s <= MaxAge(k)
      /\ MaxAge(k) * Rate(k) = q * Rate(k) + Rate(k) + MaxLag * Rate(k)
  <2>1. MaxAge(k) = (q + 1) + MaxLag /\ q + 1 \in Int
    BY <1>6, <1>7
  <2>2. (q + 1) * Rate(k) = q * Rate(k) + Rate(k)
    BY <1>3, <1>6, Times
  <2>3. ((q + 1) + MaxLag) * Rate(k) = (q + 1) * Rate(k) + MaxLag * Rate(k)
    BY <1>3, <1>5, <2>1, Times
  <2> QED BY <1>5, <1>6, <2>1, <2>2, <2>3
<1>9. s * Rate(k) <= MaxLag * Rate(k) /\ MaxLag * Rate(k) \in Int /\ q * Rate(k) \in Int
  BY <1>3, <1>5, <1>6, Times
<1>10. Top(k, s) = Cap(k) + s * Rate(k) /\ Top(k, s) \in Nat
  BY <1>4, <1>5 DEF Top
<1>11. Top(k, s) <= MaxAge(k) * Rate(k)
  BY <1>3, <1>4, <1>5, <1>6, <1>8, <1>9, <1>10
<1> QED BY <1>3, <1>4, <1>5, <1>8, <1>10, <1>11

\* What a request finds in a bucket, and what it leaves there.
LEMMA ChargeTracks ==
  ASSUME NEW k \in Keys, NEW s \in {0, MaxLag}, NEW b \in Bucket(k), NEW x \in Int,
         Tracks(b, k, x, s), NEW l \in 0..s, NEW a,
         a = Least(Cap(k), b.tokens + (b.age - l) * Rate(k))
  PROVE  /\ a \in Int /\ (s = 0 => a = x)
         /\ a >= Unit => LET n == [tokens |-> a - Unit, age |-> l]
                         IN  n \in Bucket(k) /\ Tracks(n, k, x - Unit, s)
<1>1. Rate(k) \in Nat /\ Cap(k) \in Nat /\ s \in Nat /\ MaxAge(k) \in Nat /\ s <= MaxAge(k)
  BY Sizes
<1>2. b.tokens \in Int /\ b.age \in Int /\ l \in Int
  BY <1>1 DEF Bucket
<1> DEFINE A == b.age * Rate(k)
           L == l * Rate(k)
           S == s * Rate(k)
           n == [tokens |-> a - Unit, age |-> l]
<1>3. /\ (b.age - l) * Rate(k) = A - L /\ A \in Int /\ L \in Int /\ S \in Int
      /\ L <= S /\ (s = 0 => L = 0 /\ S = 0)
  BY <1>1, <1>2, Times
<1>4. Level(b, k) = b.tokens + A /\ Top(k, s) = Cap(k) + S
  BY Sizes DEF Level
<1> HIDE DEF A, L, S
<1>5. a = Least(Cap(k), b.tokens + A - L) /\ a \in Int /\ a <= Cap(k)
  BY <1>1, <1>2, <1>3 DEF Least
<1>6. s = 0 => a = x
  BY <1>1, <1>2, <1>3, <1>4, <1>5 DEF Least, Tracks
<1>7. a >= Unit => n \in Bucket(k)
  BY <1>1, <1>5, Units DEF Bucket
<1>8. Level(n, k) = a - Unit + L
  BY DEF Level, L
<1> HIDE DEF n
<1>9. Least(Top(k, s), Level(n, k)) <= x - Unit
  BY <1>1, <1>2, <1>3, <1>4, <1>5, <1>8, Units DEF Least, Tracks
<1>10. s = 0 => x - Unit = Least(Top(k, s), Level(n, k))
  BY <1>1, <1>3, <1>4, <1>5, <1>6, <1>8, Units DEF Least
<1> QED BY <1>5, <1>6, <1>7, <1>9, <1>10 DEF Tracks, n

\* A bucket made anew, for a reference that is full.
LEMMA FreshTracks ==
  ASSUME NEW k \in Keys, NEW s \in {0, MaxLag}, NEW l \in 0..s
  PROVE  LET n == [tokens |-> Cap(k) - Unit, age |-> l]
         IN  n \in Bucket(k) /\ Tracks(n, k, Top(k, s) - Unit, s)
<1> DEFINE n == [tokens |-> Cap(k) - Unit, age |-> l]
           L == l * Rate(k)
           S == s * Rate(k)
<1>1. /\ Rate(k) \in Nat /\ Cap(k) \in Nat /\ s \in Nat /\ MaxAge(k) \in Nat
      /\ s <= MaxAge(k) /\ Unit <= Cap(k) /\ Top(k, s) = Cap(k) + S /\ l \in Int
  BY Sizes
<1>2. L \in Int /\ S \in Int /\ L <= S /\ (s = 0 => L = 0 /\ S = 0)
  <2>1. l \in Int /\ s \in Int /\ Rate(k) \in Int /\ l <= s /\ Rate(k) >= 0
    BY <1>1
  <2>2. L \in Int /\ S \in Int /\ L <= S
    BY <2>1, Times
  <2>3. s = 0 => l = 0 /\ 0 * Rate(k) = 0
    BY <1>1, <2>1, Times
  <2> QED BY <2>2, <2>3
<1>3. Level(n, k) = Cap(k) - Unit + L /\ n \in Bucket(k)
  BY <1>1, Units DEF Level, Bucket
<1> HIDE DEF n, L, S
<1>4. Tracks(n, k, Top(k, s) - Unit, s)
  BY <1>1, <1>2, <1>3, Units DEF Tracks, Least
<1> QED BY <1>3, <1>4 DEF n

\* A tick refills the reference by as much as the bucket, whose age is no longer counted
\* once it is full.
LEMMA TickTracks ==
  ASSUME NEW k \in Keys, NEW s \in {0, MaxLag}, NEW b \in Bucket(k), NEW x \in Int,
         Tracks(b, k, x, s), x <= Top(k, s)
  PROVE  LET n == [b EXCEPT !.age = Least(b.age + 1, MaxAge(k))]
         IN  n \in Bucket(k) /\ Tracks(n, k, Least(x + Rate(k), Top(k, s)), s)
<1> DEFINE n == [b EXCEPT !.age = Least(b.age + 1, MaxAge(k))]
           A == b.age * Rate(k)
           M == MaxAge(k) * Rate(k)
<1>1. /\ Rate(k) \in Nat /\ MaxAge(k) \in Nat /\ Top(k, s) \in Nat
      /\ Top(k, s) <= M
  BY Sizes
<1>2. b.tokens \in Nat /\ b.age \in Nat /\ b.age <= MaxAge(k)
  BY <1>1 DEF Bucket
<1>3. n \in Bucket(k) /\ n.tokens = b.tokens /\ n.age = Least(b.age + 1, MaxAge(k))
  BY <1>1, <1>2 DEF Bucket, Least
<1>4. A \in Int /\ M \in Int
  BY <1>1, <1>2, Times
<1>5. Level(b, k) = b.tokens + A
  BY DEF Level
<1> HIDE DEF n
<1>6. CASE b.age < MaxAge(k)
  <2>1. n.age = b.age + 1
    BY <1>1, <1>2, <1>3, <1>6 DEF Least
  <2>2. Level(n, k) = b.tokens + A + Rate(k)
    <3>1. (b.age + 1) * Rate(k) = A + Rate(k)
      BY <1>1, <1>2, Times
    <3> QED BY <1>1, <1>2, <1>3, <1>4, <2>1, <3>1 DEF Level
  <2> HIDE DEF A, M
  <2>3. Tracks(n, k, Least(x + Rate(k), Top(k, s)), s)
    BY <1>1, <1>2, <1>4, <1>5, <2>2 DEF Tracks, Least
  <2> QED BY <1>3, <2>3 DEF n
<1>7. CASE b.age = MaxAge(k)
  <2>1. n.age = MaxAge(k)
    BY <1>1, <1>2, <1>3, <1>7 DEF Least
  <2>2. Level(n, k) = b.tokens + M /\ Level(b, k) = b.tokens + M
    BY <1>3, <1>7, <2>1 DEF Level
  <2> HIDE DEF A, M
  <2>3. Tracks(n, k, Least(x + Rate(k), Top(k, s)), s)
    BY <1>1, <1>2, <1>4, <2>2 DEF Tracks, Least
  <2> QED BY <1>3, <2>3 DEF n
<1>8. b.age < MaxAge(k) \/ b.age = MaxAge(k)
  BY <1>1, <1>2
<1> QED BY <1>6, <1>7, <1>8

\* A bucket that is full by the sweeper's clock was full, but for the slack.
LEMMA FullTracks ==
  ASSUME NEW k \in Keys, NEW s \in {0, MaxLag}, NEW r \in Requests, lag[r] \in 0..s,
         state[k] \in Bucket(k), NEW x \in Int, Tracks(state[k], k, x, s), Full(r, k),
         x <= Top(k, s)
  PROVE  Least(x + Rate(k) * s, Top(k, s)) = Top(k, s)
<1> DEFINE b == state[k]
           l == lag[r]
           A == b.age * Rate(k)
           L == l * Rate(k)
           S == s * Rate(k)
           d == Cap(k) - b.tokens
           D == (d \div Rate(k)) * Rate(k)
<1>1. /\ Rate(k) \in Nat /\ Rate(k) > 0 /\ Cap(k) \in Nat /\ s \in Nat /\ k # NoKey
      /\ Top(k, s) = Cap(k) + S /\ S \in Nat /\ S = Rate(k) * s
  BY Sizes, Times
<1>2. b.tokens \in Nat /\ b.age \in Int /\ l \in Int /\ l >= 0 /\ d \in Nat
  <2>1. MaxAge(k) \in Nat /\ Cap(k) \in Nat /\ s \in Nat
    BY Sizes
  <2>2. b.tokens \in 0..Cap(k) /\ b.age \in 0..MaxAge(k)
    BY DEF Bucket
  <2> QED BY <2>1, <2>2
<1>3. d \div Rate(k) \in Nat /\ d < D + Rate(k)
  BY <1>1, <1>2, Division
<1>4. b.age - l > d \div Rate(k)
  BY <1>1 DEF Full, Cap, Rate
<1>5. d \div Rate(k) + 1 <= b.age - l
  BY <1>2, <1>3, <1>4
<1>6. D + Rate(k) <= A - L /\ A \in Int /\ L \in Nat /\ D \in Int
  <2>1. /\ (d \div Rate(k) + 1) * Rate(k) = D + Rate(k) /\ (b.age - l) * Rate(k) = A - L
        /\ A \in Int /\ L \in Int /\ D \in Int
    BY <1>1, <1>2, <1>3, Times
  <2>2. (d \div Rate(k) + 1) * Rate(k) <= (b.age - l) * Rate(k)
    BY <1>1, <1>2, <1>3, <1>5, Times
  <2>3. 0 * Rate(k) <= L /\ 0 * Rate(k) = 0
    BY <1>1, <1>2, Times
  <2> QED BY <2>1, <2>2, <2>3
<1>7. Level(b, k) = b.tokens + A
  BY DEF Level
<1> HIDE DEF A, L, S, D
<1>8. Level(b, k) >= Cap(k)
  BY <1>1, <1>2, <1>3, <1>6, <1>7
<1>9. x >= Cap(k)
  BY <1>1, <1>2, <1>6, <1>7, <1>8 DEF Tracks, Least
<1> QED BY <1>1, <1>9 DEF Least
-----------------------------------------------------------------------------
(* Every step keeps the invariant *)

Place == [tokens : Nat, age : Nat]

LEMMA Domains ==
  /\ DOMAIN Limits = 1..Len(Limits) /\ Len(Limits) \in Nat /\ None \notin Requests
  /\ \A c \in Clients : \A i, j \in DOMAIN Limits : KeysOf[c][i] = KeysOf[c][j] => i = j
<1>1. \A T : \A s \in Seq(T) : DOMAIN s = 1..Len(s) /\ Len(s) \in Nat
  OBVIOUS
<1> QED BY <1>1, RateLimitAssumption, Zenon

LEMMA Tops ==
  ASSUME slack \in {0, MaxLag}, NEW k \in Keys
  PROVE  IdealCap(k) = Top(k, slack) /\ Top(k, slack) \in Int /\ k # NoKey
<1>1. k # NoKey /\ Rate(k) \in Int /\ Top(k, slack) \in Int /\ slack \in Int
  BY Sizes
<1>2. Rate(k) * slack = slack * Rate(k)
  BY <1>1, Times
<1> QED BY <1>1, <1>2 DEF IdealCap, Top, Cap, Rate

LEMMA Holder ==
  ASSUME Shape, NEW r \in Requests, holder = r
  PROVE  /\ client[r] \in Clients /\ pc[r] = "waiting" /\ lag[r] \in 0..slack
         /\ slack \in {0, MaxLag} /\ slack \in Nat
         /\ charged \in Seq(Place) /\ DOMAIN charged = 1..Len(charged) /\ Len(charged) \in Nat
         /\ DOMAIN charged \subseteq DOMAIN Limits
         /\ holder # None /\ Charged = {KeysOf[client[r]][i] : i \in DOMAIN charged}
         /\ \A i \in DOMAIN charged : KeysOf[client[r]][i] \in Keys
<1>1. charged \in Seq(Place) /\ Len(charged) <= Len(Limits) /\ holder # None
  BY Domains DEF Shape, Place
<1>2. DOMAIN charged = 1..Len(charged) /\ Len(charged) \in Nat
  BY <1>1
<1>3. DOMAIN charged \subseteq DOMAIN Limits
  BY <1>1, <1>2, Domains
<1>4. client[r] \in Clients /\ pc[r] = "waiting" /\ lag[r] \in 0..slack
      /\ slack \in {0, MaxLag} /\ slack \in Nat
  BY <1>1, Units DEF Shape
<1> QED BY <1>1, <1>2, <1>3, <1>4, Limit DEF Charged

\* What is none of the map's business.
LEMMA ReadClockStep ==
  ASSUME IInv, NEW r \in Requests, NEW c \in Clients, ReadClock(r, c), UNCHANGED slack
  PROVE  IInv'
<1>1. /\ pc' = [pc EXCEPT ![r] = "waiting"] /\ client' = [client EXCEPT ![r] = c]
      /\ lag' = [lag EXCEPT ![r] = 0] /\ pc[r] # "waiting"
      /\ UNCHANGED <<state, swept, holder, charged, ideal, slack>>
  BY DEF ReadClock
<1>2. holder # None => holder \in Requests /\ client'[holder] = client[holder]
  BY <1>1 DEF IInv, Shape
<1>3. Shape'
  <2>1. Shape /\ slack \in Nat
    BY Units DEF IInv, Shape
  <2>2. 0 \in 0..slack
    BY <2>1
  <2> QED BY <1>1, <1>2, <2>1, <2>2 DEF Shape
<1>4. \A i \in DOMAIN charged' : InHand(i)'
  <2>1. holder = None => DOMAIN charged = {}
    BY DEF IInv, Shape
  <2> QED BY <1>1, <1>2, <2>1 DEF IInv, InHand
<1>5. \A k \in Keys : Known(k)'
  BY <1>1, <1>2 DEF IInv, Known, Charged
<1> QED BY <1>3, <1>4, <1>5 DEF IInv

LEMMA LockStep ==
  ASSUME IInv, NEW r \in Requests, Lock(r), UNCHANGED slack
  PROVE  IInv'
<1>1. /\ holder = None /\ pc[r] = "waiting" /\ holder' = r /\ charged' = <<>>
      /\ UNCHANGED <<pc, client, lag, slack>>
  BY DEF Lock
<1>2. Shape /\ r # None /\ slack \in {0, MaxLag} /\ slack \in Nat /\ lag[r] \in 0..slack
  BY Units, Domains DEF IInv, Shape
<1>3. DOMAIN charged' = {} /\ Len(charged') = 0 /\ charged' \in Seq(Place)
  BY <1>1
<1>4. Charged' = {}
  BY <1>3 DEF Charged
<1>5. CASE SweepDue(r)
  <2>1. /\ state' = Without(state, {k \in DOMAIN state : Full(r, k)}) /\ swept' = lag[r]
        /\ ideal' = [k \in Keys |-> IF k \in DOMAIN state /\ Full(r, k)
                                    THEN Least(ideal[k] + Rate(k) * slack, IdealCap(k))
                                    ELSE ideal[k]]
    BY <1>5 DEF Lock, Rate
  <2>2. /\ DOMAIN state' = {k \in DOMAIN state : ~Full(r, k)}
        /\ \A k \in DOMAIN state' : state'[k] = state[k]
    BY <2>1 DEF Without
  <2>3. ASSUME NEW k \in Keys
        PROVE  /\ ideal[k] \in Int /\ Top(k, slack) \in Int /\ IdealCap(k) = Top(k, slack)
               /\ k \in DOMAIN state => state[k] \in Bucket(k)
               /\ Known(k)
    BY <1>2, Tops DEF Shape, IInv
  <2>4. ASSUME NEW k \in Keys, k \in DOMAIN state, Full(r, k) PROVE ideal'[k] = Top(k, slack)
    <3>1. Tracks(state[k], k, ideal[k], slack) /\ ideal[k] <= Top(k, slack)
      BY <2>3, <2>4 DEF Known
    <3>2. Least(ideal[k] + Rate(k) * slack, Top(k, slack)) = Top(k, slack)
      BY <1>2, <2>3, <2>4, <3>1, FullTracks
    <3> QED BY <2>1, <2>3, <2>4, <3>2
  <2>5. ASSUME NEW k \in Keys, ~(k \in DOMAIN state /\ Full(r, k)) PROVE ideal'[k] = ideal[k]
    BY <2>1, <2>5
  <2>6. Shape'
    <3>1. ideal' \in [Keys -> Int]
      <4>1. \A k \in Keys : ideal'[k] \in Int
        BY <2>3, <2>4, <2>5
      <4> QED BY <2>1, <4>1
    <3>2. swept' \in 0..MaxSwept
      <4>1. MaxSwept \in Nat /\ MaxLag <= MaxSwept
        BY RateLimitAssumption DEF MaxSwept
      <4> QED BY <1>2, <2>1, <4>1, Units
    <3> QED BY <1>1, <1>2, <1>3, <2>2, <3>1, <3>2, Domains DEF Shape, Place
  <2>7. \A k \in Keys : Known(k)'
    <3> SUFFICES ASSUME NEW k \in Keys PROVE Known(k)'
      OBVIOUS
    <3>1. CASE k \in DOMAIN state /\ Full(r, k)
      BY <1>1, <1>4, <2>2, <2>3, <2>4, <3>1 DEF Known
    <3>2. CASE ~(k \in DOMAIN state /\ Full(r, k))
      BY <1>1, <1>4, <2>2, <2>3, <2>5, <3>2 DEF Known
    <3> QED BY <3>1, <3>2
  <2> QED BY <1>3, <2>6, <2>7 DEF IInv
<1>6. CASE ~SweepDue(r)
  <2>1. UNCHANGED <<state, swept, ideal>>
    BY <1>6 DEF Lock
  <2>2. Shape'
    BY <1>1, <1>2, <1>3, <2>1, Domains DEF Shape, Place
  <2>3. \A k \in Keys : Known(k)'
    BY <1>1, <1>4, <2>1 DEF Known, IInv
  <2> QED BY <1>3, <2>2, <2>3 DEF IInv
<1> QED BY <1>5, <1>6

\* The bucket charged has not been charged yet, and may be made in place of another.
LEMMA ChargeStep ==
  ASSUME IInv, NEW r \in Requests, Charge(r), UNCHANGED slack
  PROVE  IInv'
<1> DEFINE c == client[r]
           i == Len(charged) + 1
           k == KeysOf[c][i]
           n == [tokens |-> Available - Unit, age |-> lag[r]]
<1>1. /\ holder = r /\ i <= Len(Limits) /\ Available >= Unit /\ Evict /\ charged' = Append(charged, n)
      /\ UNCHANGED <<swept, holder, pc, client, lag, slack>>
  BY DEF Charge, This
<1>2. /\ Shape /\ c \in Clients /\ pc[r] = "waiting" /\ lag[r] \in 0..slack
      /\ slack \in {0, MaxLag} /\ slack \in Nat /\ holder # None
      /\ charged \in Seq(Place) /\ DOMAIN charged = 1..Len(charged) /\ Len(charged) \in Nat
      /\ DOMAIN charged \subseteq DOMAIN Limits
      /\ Charged = {KeysOf[c][j] : j \in DOMAIN charged}
      /\ \A j \in DOMAIN charged : KeysOf[c][j] \in Keys
  BY <1>1, Holder DEF IInv
<1>3. i \in DOMAIN Limits /\ k = ThisKey /\ This = i
  BY <1>1, <1>2, Domains DEF ThisKey, This
<1>4. k \in Keys /\ LimitOf(k) = Limits[i] /\ k # NoKey
  BY <1>2, <1>3, Limit, RateLimitAssumption
<1>5. k \notin Charged
  BY <1>2, <1>3, Domains
<1>6. /\ ideal[k] \in Int /\ Top(k, slack) \in Int /\ Cap(k) \in Int /\ Unit <= Cap(k) /\ Known(k)
      /\ k \in DOMAIN state => state[k] \in Bucket(k)
  <2>1. Top(k, slack) \in Int /\ Cap(k) \in Int /\ Unit <= Cap(k)
    <3>1. k \in Keys /\ slack \in {0, MaxLag}
      BY <1>2, <1>4
    <3> QED BY <3>1, Sizes
  <2> QED BY <1>2, <1>4, <2>1 DEF IInv, Shape
<1>7. Available \in Int /\ n \in Bucket(k) /\ Tracks(n, k, ideal[k] - Unit, slack)
  <2>1. CASE k \in DOMAIN state
    <3>1. Available = Least(Cap(k), state[k].tokens + (state[k].age - lag[r]) * Rate(k))
      BY <1>1, <1>3, <1>4, <2>1 DEF Available, Cap, Rate
    <3>2. Tracks(state[k], k, ideal[k], slack)
      BY <1>6, <2>1 DEF Known
    <3>3. /\ k \in Keys /\ slack \in {0, MaxLag} /\ lag[r] \in 0..slack
          /\ state[k] \in Bucket(k) /\ ideal[k] \in Int
      BY <1>2, <1>4, <1>6, <2>1
    <3>4. /\ Available \in Int
          /\ Available >= Unit => n \in Bucket(k) /\ Tracks(n, k, ideal[k] - Unit, slack)
      BY <3>1, <3>2, <3>3, ChargeTracks
    <3> QED BY <1>1, <3>4
  <2>2. CASE k \notin DOMAIN state
    <3>1. Available = Cap(k)
      BY <1>3, <1>4, <2>2 DEF Available, Cap
    <3>2. ideal[k] = Top(k, slack)
      BY <1>5, <1>6, <2>2 DEF Known
    <3>3. k \in Keys /\ slack \in {0, MaxLag} /\ lag[r] \in 0..slack /\ Available \in Int
      BY <1>2, <1>4, <1>6, <3>1
    <3>4. n = [tokens |-> Cap(k) - Unit, age |-> lag[r]]
      BY <3>1
    <3>5. n \in Bucket(k) /\ Tracks(n, k, Top(k, slack) - Unit, slack)
      BY <3>3, <3>4, FreshTracks
    <3> QED BY <3>2, <3>3, <3>5
  <2> QED BY <2>1, <2>2
<1>8. PICK S \in SUBSET DOMAIN state :
        /\ k \notin S /\ DOMAIN state' = DOMAIN state \ S /\ \A m \in DOMAIN state' : state'[m] = state[m]
        /\ \A m \in Keys : ideal'[m] = IF m \in S /\ m \notin Charged THEN Top(m, slack) ELSE ideal[m]
        /\ ideal' \in [Keys -> Int]
  <2>1. CASE ~MustEvict
    <3>1. state' = state /\ ideal' = ideal
      BY <1>1, <2>1 DEF Evict
    <3>2. {} \in SUBSET DOMAIN state /\ k \notin {}
      OBVIOUS
    <3> QED BY <1>2, <3>1, <3>2 DEF Shape
  <2>2. CASE MustEvict
    <3>1. PICK e \in DOMAIN state :
            /\ state' = Without(state, {e})
            /\ ideal' = IF e \in Charged \cup {NoKey} THEN ideal
                        ELSE [ideal EXCEPT ![e] = IdealCap(e)]
      BY <1>1, <2>2 DEF Evict
    <3>2. k \notin {e}
      BY <1>3, <2>2, <3>1 DEF MustEvict
    <3>3. \A m \in Keys : m # NoKey /\ IdealCap(m) = Top(m, slack) /\ Top(m, slack) \in Int
      <4> SUFFICES ASSUME NEW m \in Keys
                   PROVE  m # NoKey /\ IdealCap(m) = Top(m, slack) /\ Top(m, slack) \in Int
        OBVIOUS
      <4>1. m # NoKey /\ Rate(m) \in Int /\ Top(m, slack) \in Int
        BY <1>2, Sizes
      <4>2. Rate(m) * slack = slack * Rate(m)
        BY <1>2, <4>1, Times
      <4> QED BY <4>1, <4>2 DEF IdealCap, Top, Cap, Rate
    <3>4. ideal \in [Keys -> Int] /\ (e \in Keys \/ e = NoKey)
      BY <1>2 DEF Shape, AllKeys
    <3>5. DOMAIN state' = DOMAIN state \ {e} /\ \A m \in DOMAIN state' : state'[m] = state[m]
      BY <3>1 DEF Without
    <3>6. {e} \in SUBSET DOMAIN state
      BY <3>1
    <3>7. ideal' \in [Keys -> Int]
      BY <3>1, <3>3, <3>4
    <3>8. \A m \in Keys : ideal'[m] = IF m \in {e} /\ m \notin Charged THEN Top(m, slack) ELSE ideal[m]
      BY <3>1, <3>3, <3>4
    <3> QED BY <3>2, <3>5, <3>6, <3>7, <3>8
  <2> QED BY <2>1, <2>2
<1>9. /\ DOMAIN state' = DOMAIN state \ S /\ \A m \in DOMAIN state' : state'[m] = state[m]
  BY <1>8
<1>10. /\ charged' \in Seq(Place) /\ Len(charged') = i /\ DOMAIN charged' = DOMAIN charged \cup {i}
       /\ charged'[i] = n /\ \A j \in DOMAIN charged : charged'[j] = charged[j]
  <2>1. n \in Place
    BY <1>2, <1>4, <1>7, Sizes DEF Bucket, Place
  <2> HIDE DEF n
  <2> QED BY <1>1, <1>2, <2>1
<1>11. Charged' = Charged \cup {k}
  BY <1>1, <1>2, <1>10 DEF Charged
<1> HIDE DEF n, k
<1>12. Shape'
  BY <1>1, <1>2, <1>8, <1>9, <1>10 DEF Shape, Place
<1>13. \A j \in DOMAIN charged' : InHand(j)'
  <2> SUFFICES ASSUME NEW j \in DOMAIN charged' PROVE InHand(j)'
    OBVIOUS
  <2>1. CASE j = i
    <3>1. ideal'[k] = ideal[k] /\ KeysOf[client'[holder']][j] = k
      BY <1>1, <1>4, <1>8, <2>1 DEF k
    <3> QED BY <1>1, <1>7, <1>10, <2>1, <3>1 DEF InHand
  <2>2. CASE j \in DOMAIN charged
    <3>1. KeysOf[c][j] \in Charged /\ KeysOf[c][j] \in Keys /\ InHand(j)
      BY <1>2, <2>2 DEF IInv
    <3>2. ideal'[KeysOf[c][j]] = ideal[KeysOf[c][j]]
      BY <1>8, <3>1
    <3> QED BY <1>1, <1>10, <2>2, <3>1, <3>2 DEF InHand
  <2> QED BY <1>10, <2>1, <2>2
<1>14. \A m \in Keys : Known(m)'
  <2> SUFFICES ASSUME NEW m \in Keys PROVE Known(m)'
    OBVIOUS
  <2>1. Known(m) /\ Top(m, slack) \in Int
    BY <1>2, Sizes DEF IInv
  <2>2. ideal'[m] = IF m \in S /\ m \notin Charged THEN Top(m, slack) ELSE ideal[m]
    BY <1>8
  <2> QED BY <1>1, <1>2, <1>9, <1>11, <2>1, <2>2 DEF Known
<1> QED BY <1>12, <1>13, <1>14 DEF IInv

\* A refusal forgets what it has charged; a bucket evicted under it is gone for good.
LEMMA DenyStep ==
  ASSUME IInv, NEW r \in Requests, Deny(r), UNCHANGED slack
  PROVE  IInv'
<1>1. /\ holder = r /\ pc' = [pc EXCEPT ![r] = "denied"] /\ lag' = [lag EXCEPT ![r] = 0]
      /\ client' = [client EXCEPT ![r] = None] /\ holder' = None /\ charged' = <<>>
      /\ ideal' = [k \in Keys |-> IF k \in Charged \ DOMAIN state THEN IdealCap(k) ELSE ideal[k]]
      /\ UNCHANGED <<state, swept, slack>>
  BY DEF Deny, Leaves
<1>2. Shape /\ slack \in {0, MaxLag} /\ slack \in Nat /\ holder # None
  BY <1>1, Holder DEF IInv
<1>3. DOMAIN charged' = {} /\ Len(charged') = 0
  BY <1>1
<1>4. \A k \in Keys : /\ Known(k) /\ ideal[k] \in Int /\ Top(k, slack) \in Int
                      /\ IdealCap(k) = Top(k, slack)
  BY <1>2, Tops DEF IInv, Shape
<1>5. \A k \in Keys : ideal'[k] = IF k \in Charged \ DOMAIN state THEN Top(k, slack) ELSE ideal[k]
  BY <1>1, <1>4
<1>6. Shape'
  <2>1. \A k \in Keys : ideal'[k] \in Int
    BY <1>4, <1>5
  <2>2. ideal' \in [Keys -> Int]
    BY <1>1, <2>1
  <2> QED BY <1>1, <1>2, <1>3, <2>2, Domains DEF Shape
<1>7. \A k \in Keys : Known(k)'
  BY <1>1, <1>2, <1>4, <1>5 DEF Known
<1> QED BY <1>3, <1>6, <1>7 DEF IInv

\* Every bucket is written back to where the references, a token less, were ahead of it.
LEMMA AllowStep ==
  ASSUME IInv, NEW r \in Requests, Allow(r), UNCHANGED slack
  PROVE  IInv'
<1> DEFINE ks == KeysOf[client[r]]
           mine == {ks[i] : i \in DOMAIN Limits}
           written == mine \cup (IF Len(Limits) < 3 THEN {NoKey} ELSE {})
<1>1. /\ holder = r /\ pc' = [pc EXCEPT ![r] = "allowed"] /\ lag' = [lag EXCEPT ![r] = 0]
      /\ client' = [client EXCEPT ![r] = None] /\ holder' = None /\ charged' = <<>>
      /\ ideal' = [k \in Keys |-> IF k \in mine THEN ideal[k] - Unit ELSE ideal[k]]
      /\ Len(charged) + 1 > Len(Limits) /\ UNCHANGED <<swept, slack>>
  BY DEF Allow, Leaves, This
<1>2. /\ Shape /\ slack \in {0, MaxLag} /\ slack \in Nat /\ holder # None /\ client[r] \in Clients
      /\ DOMAIN charged = 1..Len(charged) /\ Len(charged) \in Nat
      /\ Charged = {ks[i] : i \in DOMAIN charged}
  BY <1>1, Holder DEF IInv
<1>3. DOMAIN charged = DOMAIN Limits /\ Charged = mine
  <2>1. Len(charged) <= Len(Limits) /\ Len(charged) + 1 > Len(Limits)
    BY <1>1, <1>2 DEF Shape
  <2>2. \A m, n \in Nat : m <= n /\ m + 1 > n => m = n
    OBVIOUS
  <2>3. Len(charged) = Len(Limits)
    BY <1>2, <2>1, <2>2, Domains
  <2> QED BY <1>2, <2>3, Domains
<1>4. /\ DOMAIN state' = DOMAIN state \cup written
      /\ \A k \in DOMAIN state' :
           state'[k] = IF k = NoKey THEN [tokens |-> 0, age |-> 0]
                       ELSE IF k \in written THEN charged[CHOOSE i \in DOMAIN Limits : ks[i] = k]
                       ELSE state[k]
  BY DEF Allow, WriteBack
<1>5. ASSUME NEW i \in DOMAIN Limits
      PROVE  /\ ks[i] \in Keys /\ ks[i] # NoKey /\ ks[i] \in DOMAIN state' /\ state'[ks[i]] = charged[i]
             /\ InHand(i) /\ ideal'[ks[i]] = ideal[ks[i]] - Unit
  <2>1. ks[i] \in Keys /\ ks[i] # NoKey /\ InHand(i)
    <3>1. ks[i] \in Keys
      BY <1>2, Limit
    <3>2. InHand(i)
      BY <1>3 DEF IInv
    <3> QED BY <3>1, <3>2, RateLimitAssumption
  <2>2. (CHOOSE j \in DOMAIN Limits : ks[j] = ks[i]) = i
    <3>1. \A j \in DOMAIN Limits : ks[j] = ks[i] => j = i
      BY <1>2, Domains
    <3> QED BY <3>1
  <2> QED BY <1>1, <1>4, <2>1, <2>2
<1>6. \A k \in Keys : /\ Known(k) /\ ideal[k] \in Int /\ Top(k, slack) \in Int /\ k # NoKey
  BY <1>2, Tops DEF IInv, Shape
<1>7. Shape'
  <2>1. \A k \in Keys : ideal'[k] \in Int
    BY <1>1, <1>6, Units
  <2>2. ideal' \in [Keys -> Int]
    BY <1>1, <2>1
  <2>3. DOMAIN charged' = {} /\ Len(charged') = 0
    BY <1>1
  <2>4. DOMAIN state' \subseteq AllKeys
    BY <1>2, <1>4, <1>5 DEF Shape, AllKeys
  <2>5. \A k \in DOMAIN state' : IF k = NoKey THEN state'[k] = [tokens |-> 0, age |-> 0]
                                              ELSE state'[k] \in Bucket(k)
    <3> SUFFICES ASSUME NEW k \in DOMAIN state', k # NoKey PROVE state'[k] \in Bucket(k)
      BY <1>4
    <3>1. CASE k \in mine
      <4>1. PICK i \in DOMAIN Limits : k = ks[i]
        BY <3>1
      <4> QED BY <1>1, <1>5, <4>1 DEF InHand
    <3>2. CASE k \notin mine
      BY <1>2, <1>4, <3>2 DEF Shape
    <3> QED BY <3>1, <3>2
  <2> QED BY <1>1, <1>2, <2>2, <2>3, <2>4, <2>5, Domains DEF Shape
<1>8. \A k \in Keys : Known(k)'
  <2> SUFFICES ASSUME NEW k \in Keys PROVE Known(k)'
    OBVIOUS
  <2>1. CASE k \in mine
    <3>1. PICK i \in DOMAIN Limits : k = ks[i]
      BY <2>1
    <3>2. /\ k \in DOMAIN state' /\ state'[k] = charged[i] /\ ideal'[k] = ideal[k] - Unit
          /\ Tracks(charged[i], k, ideal[k] - Unit, slack)
      BY <1>1, <1>5, <3>1 DEF InHand
    <3>3. ideal'[k] <= Top(k, slack)
      BY <1>6, <3>2, Units DEF Known
    <3> QED BY <1>1, <3>2, <3>3 DEF Known
  <2>2. CASE k \notin mine
    <3>1. Known(k) /\ k # NoKey /\ ideal'[k] = ideal[k]
      BY <1>1, <1>6, <2>2
    <3>2. (k \in DOMAIN state' <=> k \in DOMAIN state) /\ (k \in DOMAIN state => state'[k] = state[k])
      BY <1>4, <2>2, <3>1
    <3>3. k \notin Charged /\ slack' = slack
      BY <1>1, <1>3, <2>2
    <3> QED BY <3>1, <3>2, <3>3 DEF Known
  <2> QED BY <2>1, <2>2
<1>9. DOMAIN charged' = {}
  BY <1>1
<1> QED BY <1>7, <1>8, <1>9 DEF IInv

LEMMA TickStep ==
  ASSUME IInv, Tick, UNCHANGED slack
  PROVE  IInv'
<1>1. /\ holder = None /\ \A r \in Requests : pc[r] = "waiting" => lag[r] < slack
      /\ DOMAIN state' = DOMAIN state
      /\ \A k \in DOMAIN state :
           state'[k] = [state[k] EXCEPT !.age = Least(state[k].age + 1, MaxAge(k))]
      /\ swept' = Least(swept + 1, MaxSwept)
      /\ lag' = [r \in Requests |-> IF pc[r] = "waiting" THEN lag[r] + 1 ELSE lag[r]]
      /\ ideal' = [k \in Keys |-> Least(ideal[k] + Rate(k), IdealCap(k))]
      /\ UNCHANGED <<holder, charged, pc, client, slack>>
  BY DEF Tick, Rate
<1>2. Shape /\ slack \in {0, MaxLag} /\ slack \in Nat /\ DOMAIN charged = {}
  BY <1>1, Units DEF IInv, Shape
<1>3. ASSUME NEW k \in Keys
      PROVE  /\ Known(k) /\ k # NoKey /\ ideal[k] \in Int /\ Top(k, slack) \in Int /\ Rate(k) \in Nat
             /\ ideal'[k] = Least(ideal[k] + Rate(k), Top(k, slack))
             /\ k \in DOMAIN state => state[k] \in Bucket(k)
  BY <1>1, <1>2, Tops, Sizes DEF IInv, Shape
<1>4. ASSUME NEW k \in Keys, k \in DOMAIN state
      PROVE  state'[k] \in Bucket(k) /\ Tracks(state'[k], k, ideal'[k], slack)
  BY <1>1, <1>2, <1>3, <1>4, TickTracks DEF Known
<1>5. NoKey \in DOMAIN state => state'[NoKey] = [tokens |-> 0, age |-> 0]
  <2>1. NoKey \in DOMAIN state => state[NoKey] = [tokens |-> 0, age |-> 0]
    BY <1>2 DEF Shape
  <2>2. MaxAge(NoKey) = 0 /\ Least(0 + 1, 0) = 0
    BY DEF MaxAge, Least
  <2> QED BY <1>1, <2>1, <2>2
<1>6. Shape'
  <2>1. ideal' \in [Keys -> Int]
    <3>1. \A k \in Keys : ideal'[k] \in Int
      BY <1>3 DEF Least
    <3> QED BY <1>1, <3>1
  <2>2. swept' \in 0..MaxSwept
    <3>1. MaxSwept \in Nat
      BY RateLimitAssumption DEF MaxSwept
    <3> QED BY <1>1, <1>2, <3>1 DEF Shape, Least
  <2>3. lag' \in [Requests -> 0..slack]
    <3>1. \A r \in Requests : lag'[r] \in 0..slack
      BY <1>1, <1>2 DEF Shape
    <3> QED BY <1>1, <3>1
  <2>4. \A k \in DOMAIN state' : IF k = NoKey THEN state'[k] = [tokens |-> 0, age |-> 0]
                                              ELSE state'[k] \in Bucket(k)
    BY <1>1, <1>2, <1>4, <1>5 DEF Shape, AllKeys
  <2> QED BY <1>1, <1>2, <2>1, <2>2, <2>3, <2>4 DEF Shape
<1>7. \A k \in Keys : Known(k)'
  <2> SUFFICES ASSUME NEW k \in Keys PROVE Known(k)'
    OBVIOUS
  <2>1. ideal'[k] <= Top(k, slack)
    BY <1>3 DEF Least
  <2>2. ideal[k] = Top(k, slack) => ideal'[k] = Top(k, slack)
    BY <1>3 DEF Least
  <2> QED BY <1>1, <1>3, <1>4, <2>1, <2>2 DEF Known
<1> QED BY <1>1, <1>2, <1>6, <1>7 DEF IInv

LEMMA Invariance == Spec => []IInv
<1>1. Init => IInv
  <2> SUFFICES ASSUME Init PROVE IInv
    OBVIOUS
  <2>1. slack \in {0, MaxLag} /\ slack \in Nat /\ DOMAIN state = {} /\ DOMAIN charged = {}
        /\ Len(charged) = 0
    BY Units DEF Init
  <2>2. \A k \in Keys : /\ ideal[k] = IdealCap(k) /\ IdealCap(k) = Top(k, slack)
                        /\ Top(k, slack) \in Int
    BY <2>1, Tops DEF Init
  <2>3. ideal \in [Keys -> Int]
    BY <2>2 DEF Init
  <2>4. 0 \in 0..MaxSwept
    BY RateLimitAssumption DEF MaxSwept
  <2>5. Shape
    BY <2>1, <2>3, <2>4, Domains DEF Init, Shape
  <2>6. \A k \in Keys : Known(k)
    BY <2>1, <2>2 DEF Known, Init
  <2> QED BY <2>1, <2>5, <2>6 DEF IInv
<1>2. IInv /\ [Next]_vars => IInv'
  <2>1. CASE UNCHANGED vars
    BY <2>1 DEF vars, IInv, Shape, InHand, Known, Charged
  <2> QED BY <2>1, ReadClockStep, LockStep, ChargeStep, DenyStep, AllowStep, TickStep DEF Next
<1> QED BY <1>1, <1>2, PTL DEF Spec
-----------------------------------------------------------------------------
(* The theorems *)

\* No bucket, for however long, admits more than its burst and its refill (and the refill of
\* the slack, where clocks are old), in whatever order requests get the mutex and whatever
\* the sweeps forget; no bucket is ever below zero or above its burst.
THEOREM Bounded == Spec => []BucketsBounded
<1>1. IInv => BucketsBounded
  <2> SUFFICES ASSUME IInv PROVE BucketsBounded
    OBVIOUS
  <2>1. Shape /\ slack \in {0, MaxLag}
    BY DEF IInv, Shape
  <2>2. ASSUME NEW k \in DOMAIN state
        PROVE  state[k] \in [tokens : 0..(IF k = NoKey THEN 0 ELSE LimitOf(k).burst * Unit),
                             age : 0..MaxAge(k)]
    <3>1. CASE k = NoKey
      BY <2>1, <3>1 DEF Shape, MaxAge
    <3>2. CASE k # NoKey
      BY <2>1, <3>2 DEF Shape, Bucket, Cap
    <3> QED BY <3>1, <3>2
  <2>3. TypeOK
    BY <2>1, <2>2 DEF TypeOK, Shape
  <2>4. ASSUME NEW k \in Keys PROVE ideal[k] >= 0
    <3>1. /\ Known(k) /\ Top(k, slack) \in Nat /\ Rate(k) \in Nat /\ k # NoKey /\ ideal[k] \in Int
          /\ MaxAge(k) \in Nat /\ Cap(k) \in Nat
      BY <2>1, Sizes DEF IInv, Shape
    <3>2. ASSUME NEW b \in Bucket(k) PROVE Level(b, k) \in Nat
      <4>1. b.tokens \in Nat /\ b.age \in Nat
        BY <3>1 DEF Bucket
      <4>2. b.age * Rate(k) \in Int /\ 0 * Rate(k) <= b.age * Rate(k) /\ 0 * Rate(k) = 0
        BY <3>1, <4>1, Times
      <4> QED BY <4>1, <4>2 DEF Level
    <3>3. CASE k \in DOMAIN state
      <4>1. state[k] \in Bucket(k) /\ Tracks(state[k], k, ideal[k], slack)
        BY <2>1, <3>1, <3>3 DEF Shape, Known
      <4> QED BY <3>1, <3>2, <4>1 DEF Tracks, Least
    <3>4. CASE k \notin DOMAIN state /\ holder # None /\ k \in Charged
      <4>1. PICK i \in DOMAIN charged : k = KeysOf[client[holder]][i]
        BY <3>4 DEF Charged
      <4>2. charged[i] \in Bucket(k) /\ Tracks(charged[i], k, ideal[k] - Unit, slack)
        BY <4>1 DEF IInv, InHand
      <4> QED BY <3>1, <3>2, <4>2, Units DEF Tracks, Least
    <3>5. CASE k \notin DOMAIN state /\ (holder = None \/ k \notin Charged)
      BY <3>1, <3>5 DEF Known
    <3> QED BY <3>3, <3>4, <3>5
  <2> QED BY <2>3, <2>4 DEF BucketsBounded, NeverOverAdmits
<1> QED BY <1>1, Invariance, PTL

\* A bucket that stays in the map only has tokens taken by a request that is let in; where no
\* request is overtaken between its clock and the mutex, one is refused only if the reference
\* of one of its buckets has no token left.
THEOREM Refusals == Spec => RefusalsFair
<1> DEFINE Takes == \A k \in DOMAIN state \cap DOMAIN state' :
                      state'[k].tokens < state[k].tokens =>
                        \E r \in Requests : holder = r /\ pc'[r] = "allowed"
                                            /\ \E i \in DOMAIN Limits : KeysOf[client[r]][i] = k
           Refuses == \A r \in Requests :
                        (slack = 0 /\ holder = r /\ pc'[r] = "denied") =>
                          \E i \in DOMAIN Limits : ideal[KeysOf[client[r]][i]] < Unit
<1>1. IInv /\ [Next]_vars => [Takes]_vars
  <2> SUFFICES ASSUME IInv, Next, NEW k \in DOMAIN state \cap DOMAIN state',
                      state'[k].tokens < state[k].tokens
               PROVE  \E r \in Requests : holder = r /\ pc'[r] = "allowed"
                                          /\ \E i \in DOMAIN Limits : KeysOf[client[r]][i] = k
    OBVIOUS
  <2>0. /\ Shape /\ state[k].tokens \in Int /\ (k = NoKey => state[k].tokens = 0)
        /\ state[k] = [tokens |-> state[k].tokens, age |-> state[k].age]
    <3>1. CASE k = NoKey
      BY <3>1 DEF IInv, Shape
    <3>2. CASE k # NoKey
      <4>1. slack \in {0, MaxLag} /\ state[k] \in Bucket(k) /\ k \in Keys
        BY <3>2 DEF IInv, Shape, AllKeys
      <4>2. Cap(k) \in Nat
        BY <4>1, Sizes
      <4> QED BY <3>2, <4>1, <4>2 DEF IInv, Bucket
    <3> QED BY <3>1, <3>2
  <2>1. ASSUME state'[k].tokens = state[k].tokens PROVE FALSE
    BY <2>0, <2>1
  <2>2. ASSUME NEW S, state' = Without(state, S) PROVE FALSE
    BY <2>1, <2>2 DEF Without
  <2>3. ASSUME UNCHANGED state PROVE FALSE
    BY <2>1, <2>3
  <2>4. ASSUME Tick PROVE FALSE
    BY <2>0, <2>1, <2>4 DEF Tick
  <2>5. PICK r \in Requests : Allow(r)
    <3>1. PICK r \in Requests : (\E c \in Clients : ReadClock(r, c)) \/ Lock(r) \/ Charge(r)
                                \/ Deny(r) \/ Allow(r)
      BY <2>4 DEF Next
    <3>2. Allow(r)
      BY <2>2, <2>3, <3>1 DEF ReadClock, Lock, Charge, Evict, Deny
    <3> QED BY <3>2
  <2>6. holder = r /\ pc'[r] = "allowed"
    BY <2>0, <2>5 DEF Allow, Leaves, Shape
  <2>7. \E i \in DOMAIN Limits : KeysOf[client[r]][i] = k
    <3> DEFINE mine == {KeysOf[client[r]][i] : i \in DOMAIN Limits}
    <3>1. k # NoKey /\ k \notin mine => state'[k] = state[k]
      BY <2>5 DEF Allow, WriteBack
    <3>2. k = NoKey => state'[k].tokens = 0
      BY <2>5 DEF Allow, WriteBack
    <3>3. k \in mine
      BY <2>0, <2>1, <3>1, <3>2
    <3> QED BY <3>3
  <2> QED BY <2>6, <2>7
<1>2. IInv /\ [Next]_vars => [Refuses]_vars
  <2>0. SUFFICES ASSUME IInv, Next, NEW r \in Requests, slack = 0, holder = r, pc'[r] = "denied"
                 PROVE  \E i \in DOMAIN Limits : ideal[KeysOf[client[r]][i]] < Unit
    OBVIOUS
  <2>1. /\ client[r] \in Clients /\ pc[r] = "waiting" /\ lag[r] \in 0..slack /\ holder # None /\ Shape
        /\ DOMAIN charged = 1..Len(charged) /\ Len(charged) \in Nat
        /\ Charged = {KeysOf[client[r]][i] : i \in DOMAIN charged}
    BY <2>0, Holder DEF IInv
  <2>2. Deny(r)
    <3>1. PICK s \in Requests : (\E c \in Clients : ReadClock(s, c)) \/ Lock(s) \/ Charge(s)
                                \/ Deny(s) \/ Allow(s)
      BY <2>0, <2>1 DEF Next, Tick
    <3>2. ~Lock(s) /\ ~Charge(s)
      BY <2>0, <2>1, <3>1 DEF Lock, Charge
    <3>3. ~\E c \in Clients : ReadClock(s, c)
      BY <2>0, <2>1, <3>1 DEF ReadClock, Shape
    <3>4. ~Allow(s)
      BY <2>0, <2>1 DEF Allow, Leaves, Shape
    <3> QED BY <3>1, <3>2, <3>3, <3>4, <2>0 DEF Deny
  <2> DEFINE i == Len(charged) + 1
             k == KeysOf[client[r]][i]
  <2>3. i \in DOMAIN Limits /\ k = ThisKey /\ Available < Unit /\ This = i
    BY <2>0, <2>1, <2>2, Domains DEF Deny, This, ThisKey
  <2>4. k \in Keys /\ LimitOf(k) = Limits[i]
    BY <2>1, <2>3, Limit
  <2>5. /\ Known(k) /\ ideal[k] \in Int /\ Cap(k) \in Int /\ Unit <= Cap(k) /\ slack \in {0, MaxLag}
        /\ k # NoKey
    BY <2>0, <2>1, <2>4, Sizes DEF IInv, Shape
  <2>6. k \in DOMAIN state
    <3>1. k \notin DOMAIN state => Available = Cap(k)
      BY <2>3, <2>4 DEF Available, Cap
    <3> QED BY <2>3, <2>5, <3>1, Units
  <2>7. Available = Least(Cap(k), state[k].tokens + (state[k].age - lag[r]) * Rate(k))
    BY <2>0, <2>3, <2>4, <2>6 DEF Available, Cap, Rate
  <2>8. state[k] \in Bucket(k) /\ Tracks(state[k], k, ideal[k], slack)
    BY <2>1, <2>5, <2>6 DEF Known, Shape
  <2>9. Available = ideal[k]
    <3>1. state[k].age \in Int /\ state[k].age - lag[r] = state[k].age
      <4>1. MaxAge(k) \in Nat
        BY <2>4, <2>5, Sizes
      <4> QED BY <2>0, <2>1, <2>8, <4>1 DEF Bucket
    <3>2. Available = Least(Cap(k), Level(state[k], k))
      BY <2>7, <3>1 DEF Level
    <3>3. Top(k, slack) = Cap(k)
      <4>1. Rate(k) \in Int /\ 0 * Rate(k) = 0
        BY <2>4, <2>5, Sizes, Times
      <4> QED BY <2>0, <2>5, <4>1 DEF Top
    <3> QED BY <2>0, <2>8, <3>2, <3>3 DEF Tracks
  <2> QED BY <2>3, <2>9
<1> QED BY <1>1, <1>2, Invariance, PTL
        DEF Spec, RefusalsFair, ConsumesOnlyWhenAllowed, DeniedOnlyWhenEmpty
=============================================================================

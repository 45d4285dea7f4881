-------------------------- MODULE RedisLimitProofs --------------------------
(***************************************************************************)
(* RedisLimit proved for any requests, connections, pool, script and clock *)
(* of Redis: who owns a connection and what travels on it, and that no     *)
(* more is admitted than the burst and the rate allow.                     *)
(***************************************************************************)
EXTENDS RedisLimit, FiniteSetTheorems, TLAPS

USE RedisAssumption
-----------------------------------------------------------------------------
(* The bucket *)

\* What the script would find is never more than the reference bucket holds.
BucketInv == /\ ideal \in 0..Full
             /\ bucket = NoBucket => ideal = Full
             /\ bucket # NoBucket => /\ bucket \in [tokens : 0..Full, age : -1..Ttl - 1]
                                     /\ Tokens <= ideal

LEMMA FullNat == Full \in Nat /\ Unit <= Full /\ Rate \in Nat /\ Rate > 0 /\ Unit > 0
<1>1. Burst * Unit \in Nat /\ Unit <= Burst * Unit
  BY SMT
<1> QED BY <1>1 DEF Full

LEMMA Division ==
  ASSUME NEW n \in Nat, NEW d \in Nat, d > 0
  PROVE  n \div d \in Nat /\ n < (n \div d) * d + d
<1>1. n \div d \in Nat /\ n = d * (n \div d) + (n % d) /\ n % d \in 0..d - 1
  BY SMT
<1>2. d * (n \div d) = (n \div d) * d
  BY <1>1, SMT
<1> QED BY <1>1, <1>2, SMT

\* Twice the time to fill the bucket, rounded up, is enough to fill it twice.
LEMMA TtlFills == Ttl \in Nat /\ Ttl >= 1 /\ 2 * Full <= Ttl * Rate
<1> DEFINE n == 2 * Full + Rate - 1
           q == n \div Rate
<1>1. n \in Nat
  BY FullNat
<1>2. q \in Nat /\ n < q * Rate + Rate
  BY <1>1, FullNat, Division
<1>3. q * Rate \in Nat
  BY <1>2, FullNat
<1>4. 2 * Full <= q * Rate
  BY <1>1, <1>2, <1>3, FullNat
<1>5. CASE q >= 1
  BY <1>2, <1>4, <1>5 DEF Ttl, Most
<1>6. CASE q = 0
  <2>1. q * Rate = 0
    BY <1>6, FullNat
  <2> QED BY <2>1, <1>4, FullNat
<1> QED BY <1>2, <1>5, <1>6

\* Refilling is monotone in the age, and linear in it.
LEMMA Refill ==
  ASSUME NEW a \in Int
  PROVE  /\ Most(0, a) * Rate \in Nat
         /\ Most(0, a - 1) * Rate <= Most(0, a) * Rate
         /\ Most(0, a + 1) * Rate <= Most(0, a) * Rate + Rate
<1>1. CASE a >= 1
  <2>1. /\ a * Rate \in Nat /\ (a - 1) * Rate = a * Rate - Rate
        /\ (a + 1) * Rate = a * Rate + Rate
    BY <1>1, FullNat, SMT
  <2> QED BY <1>1, <2>1, FullNat DEF Most
<1>2. CASE a = 0
  BY <1>2, FullNat DEF Most
<1>3. CASE a < 0
  BY <1>3, FullNat DEF Most
<1> QED BY <1>1, <1>2, <1>3

LEMMA TokensType == BucketInv => Tokens \in 0..Full /\ Tokens <= ideal
<1> SUFFICES ASSUME BucketInv PROVE Tokens \in 0..Full /\ Tokens <= ideal
  OBVIOUS
<1>1. CASE bucket = NoBucket
  BY <1>1, FullNat DEF BucketInv, Tokens
<1>2. CASE bucket # NoBucket
  <2>1. bucket.tokens \in 0..Full /\ bucket.age \in Int /\ Tokens <= ideal
    BY <1>2, TtlFills DEF BucketInv
  <2>2. Most(0, bucket.age) * Rate \in Nat
    BY <2>1, Refill
  <2> QED BY <1>2, <2>1, <2>2, FullNat DEF Tokens, Least
<1> QED BY <1>1, <1>2

LEMMA BucketStep == BucketInv /\ [Next]_vars => BucketInv'
<1> SUFFICES ASSUME BucketInv, [Next]_vars PROVE BucketInv'
  OBVIOUS
<1>1. ASSUME UNCHANGED bucketVars PROVE BucketInv'
  BY <1>1 DEF BucketInv, bucketVars, Tokens
<1>2. ASSUME NEW r, NEW waits, Evaluate(r, waits) PROVE BucketInv'
  <2>1. Tokens \in 0..Full /\ Tokens <= ideal /\ ideal \in 0..Full
    BY TokensType DEF BucketInv
  <2> DEFINE t == IF Tokens >= Unit THEN Tokens - Unit ELSE Tokens
  <2>2. /\ bucket' = [tokens |-> t, age |-> 0] /\ t <= ideal' /\ ideal' \in 0..Full
        /\ t \in 0..Full
    <3>1. bucket' = [tokens |-> t, age |-> 0]
          /\ ideal' = IF Tokens >= Unit THEN ideal - Unit ELSE ideal
      BY <1>2 DEF Evaluate
    <3> HIDE DEF Tokens
    <3>2. t \in 0..Full /\ t <= ideal' /\ ideal' \in 0..Full
      BY <2>1, <3>1, FullNat
    <3> QED BY <3>1, <3>2
  <2> HIDE DEF t
  <2>3. bucket' \in [tokens : 0..Full, age : -1..Ttl - 1]
    BY <2>2, TtlFills
  <2>4. bucket' # NoBucket
    BY <2>3, TtlFills DEF Full
  <2>5. Tokens' = t
    <3>1. Most(0, 0) * Rate = 0
      BY FullNat DEF Most
    <3> QED BY <2>2, <2>4, <3>1, FullNat DEF Tokens, Least
  <2> QED BY <2>2, <2>3, <2>4, <2>5 DEF BucketInv
<1>3. CASE Restart
  BY <1>3, FullNat DEF Restart, BucketInv
<1>4. CASE Tick
  <2>1. ideal' = Least(Full, ideal + Rate) /\ bucket' = Aged(1)
    BY <1>4 DEF Tick
  <2>2. ideal' \in 0..Full
    BY <2>1, FullNat DEF BucketInv, Least
  <2>3. CASE bucket = NoBucket
    BY <2>1, <2>3, FullNat DEF BucketInv, Least, Aged
  <2>4. CASE bucket # NoBucket
    <3> DEFINE b == bucket.age
               f == Most(0, b) * Rate
    <3>1. /\ bucket.tokens \in 0..Full /\ b \in -1..Ttl - 1 /\ ideal \in 0..Full
          /\ Least(Full, bucket.tokens + f) <= ideal
      BY <2>4 DEF BucketInv, Tokens
    <3>2. f \in Nat /\ Most(0, b + 1) * Rate <= f + Rate /\ Most(0, b + 1) * Rate \in Nat
      <4>1. b \in Int /\ b + 1 \in Int
        BY <3>1, TtlFills
      <4> HIDE DEF b
      <4> QED BY <4>1, Refill
    <3>3. CASE b + 1 >= Ttl
      <4>1. b + 1 = Ttl /\ Most(0, b + 1) = Ttl
        BY <3>1, <3>3, TtlFills DEF Most
      <4>2. 2 * Full <= f + Rate
        BY <3>2, <4>1, TtlFills, FullNat
      <4>3. ideal' = Full
        BY <2>1, <3>1, <3>2, <4>2, FullNat DEF Least
      <4> QED BY <2>1, <2>4, <3>3, <4>3, FullNat DEF Aged, BucketInv
    <3>4. CASE ~(b + 1 >= Ttl)
      <4>1. bucket' = [bucket EXCEPT !.age = @ + 1]
        BY <2>1, <2>4, <3>4 DEF Aged
      <4>2. /\ bucket' \in [tokens : 0..Full, age : -1..Ttl - 1]
            /\ bucket'.tokens = bucket.tokens /\ bucket'.age = b + 1
        <5>1. bucket \in [tokens : 0..Full, age : -1..Ttl - 1]
          BY <2>4 DEF BucketInv
        <5>2. /\ bucket' \in [tokens : 0..Full, age : {b + 1}]
              /\ bucket'.tokens = bucket.tokens /\ bucket'.age = b + 1
          BY <4>1, <5>1
        <5>3. b + 1 \in -1..Ttl - 1
          BY <3>1, <3>4, TtlFills
        <5> QED BY <5>2, <5>3
      <4>3. bucket' # NoBucket
        BY <4>2, TtlFills DEF Full
      <4>4. Tokens' = Least(Full, bucket.tokens + Most(0, b + 1) * Rate)
        BY <4>2, <4>3 DEF Tokens, Full
      <4>5. Tokens' <= ideal'
        BY <2>1, <3>1, <3>2, <4>4, FullNat DEF Least
      <4> QED BY <2>2, <4>2, <4>3, <4>5 DEF BucketInv
    <3> QED BY <3>3, <3>4
  <2> QED BY <2>3, <2>4
<1>5. CASE SetBack
  <2> DEFINE b == bucket.age
  <2>1. /\ bucket # NoBucket /\ b >= 0 /\ bucket' = Aged(-1) /\ ideal' = ideal
    BY <1>5 DEF SetBack
  <2>2. /\ bucket \in [tokens : 0..Full, age : -1..Ttl - 1] /\ ideal \in 0..Full
        /\ Least(Full, bucket.tokens + Most(0, b) * Rate) <= ideal
    BY <2>1 DEF BucketInv, Tokens
  <2>3. bucket' = [bucket EXCEPT !.age = @ + (-1)]
    BY <2>1, <2>2, TtlFills DEF Aged
  <2>4. /\ bucket' \in [tokens : 0..Full, age : -1..Ttl - 1]
        /\ bucket'.tokens = bucket.tokens /\ bucket'.age = b - 1
    BY <2>1, <2>2, <2>3, TtlFills
  <2>5. bucket' # NoBucket
    BY <2>4, TtlFills DEF Full
  <2>6. Most(0, b - 1) * Rate <= Most(0, b) * Rate /\ Most(0, b) * Rate \in Nat
        /\ Most(0, b - 1) * Rate \in Nat
    <3>1. b \in Int /\ b - 1 \in Int
      BY <2>2, TtlFills
    <3> HIDE DEF b
    <3> QED BY <3>1, Refill
  <2>7. Tokens' = Least(Full, bucket.tokens + Most(0, b - 1) * Rate)
    BY <2>4, <2>5 DEF Tokens, Full
  <2>8. Tokens' <= ideal'
    BY <2>1, <2>2, <2>6, <2>7, FullNat DEF Least
  <2> QED BY <2>1, <2>2, <2>4, <2>5, <2>8 DEF BucketInv
<1>6. ASSUME NEW c \in Conns, Execute(c) PROVE BucketInv'
  <2>1. UNCHANGED bucketVars \/ Evaluate(Head(wire[c]).of, link[c] # "left")
    BY <1>6 DEF Execute, bucketVars
  <2> QED BY <1>1, <1>2, <2>1
<1>7. ASSUME NEW r \in Requests, Request(r) PROVE UNCHANGED bucketVars
  BY <1>7 DEF Request, Acquire, Dial, Send, Receive, GiveUp, Fallback
<1> QED BY <1>1, <1>3, <1>4, <1>5, <1>6, <1>7 DEF Next, vars, bucketVars, Cut, Weather

LEMMA BucketBounded == Spec => []BucketInv
<1>1. Init => BucketInv
  BY FullNat DEF Init, BucketInv
<1> QED BY <1>1, BucketStep, PTL DEF Spec
-----------------------------------------------------------------------------
(* The connections *)

Commands == {"AUTH", "SELECT", "EVAL"}
Message  == [of : Requests, cmd : Commands]
Reply    == [of : Requests, cmd : Commands, says : {"ok", "error", "allowed", "refused"}]
AtMostOne(S) == {<<>>} \cup {<<m>> : m \in S}
\* What a request has yet to say always ends with the script.
Talk == {s \in Seq(Commands) : s # <<>> /\ s[Len(s)] = "EVAL"}

Shape == /\ pool \subseteq Conns
         /\ link \in [Conns -> {"none", "open", "cut", "left"}]
         /\ wire \in [Conns -> AtMostOne(Message)] /\ replies \in [Conns -> AtMostOne(Reply)]
         /\ pc \in [Requests -> {"idle", "dial", "send", "await", "failed", "passed"}]
         /\ conn \in [Requests -> Conns \cup {NoConn}]
         /\ todo \in [Requests -> Seq(Commands)]
         /\ ticket \in [Requests -> {"nobody", "redis", "local"}]

\* A socket that is closed here has nothing to read, and one Redis forgot has no commands.
Links == \A c \in Conns : /\ link[c] = "none" => wire[c] = <<>>
                          /\ link[c] \in {"none", "left"} => replies[c] = <<>>

Talking(r) == pc[r] \in {"send", "await"}

Owners == /\ \A r \in Requests : /\ conn[r] # NoConn <=> Talking(r)
                                 /\ Talking(r) => todo[r] \in Talk
                                 /\ conn[r] \notin pool
          /\ \A r, s \in Requests : conn[r] = conn[s] /\ conn[r] # NoConn => r = s
          /\ \A c \in Conns : link[c] \in {"open", "cut"} <=>
                                c \in pool \/ \E r \in Requests : conn[r] = c

Quiet(c) == wire[c] = <<>> /\ replies[c] = <<>>

\* r is owed one reply at most, to its last command; a verdict in its favour was charged.
Owed(r) == /\ wire[conn[r]] = <<>> \/ replies[conn[r]] = <<>>
           /\ wire[conn[r]] # <<>> => /\ Head(wire[conn[r]]).of = r
                                      /\ Head(wire[conn[r]]).cmd = Head(todo[r])
           /\ replies[conn[r]] # <<>> =>
                /\ Head(replies[conn[r]]).of = r
                /\ Head(replies[conn[r]]).cmd = Head(todo[r])
                /\ Head(replies[conn[r]]).says = "allowed" => ticket[r] = "redis"

Matching == /\ \A c \in pool : Quiet(c)
            /\ \A r \in Requests : /\ pc[r] = "send" => Quiet(conn[r])
                                   /\ pc[r] = "await" => Owed(r)

Room == IsFiniteSet(pool) /\ Cardinality(pool) <= PoolSize

ConnInv == Shape /\ Links /\ Owners /\ Matching /\ AdmittedWasCharged

LEMMA OneMessage ==
  ASSUME NEW S, NEW s \in AtMostOne(S), s # <<>>
  PROVE  Head(s) \in S /\ Tail(s) = <<>> /\ Len(s) = 1 /\ s = <<Head(s)>>
<1>1. PICK m \in S : s = <<m>>
  BY DEF AtMostOne
<1>2. Head(<<m>>) = m /\ Len(<<m>>) = 1
  OBVIOUS
<1>3. Tail(<<m>>) = <<>>
  <2>1. <<m>> \in Seq(S)
    OBVIOUS
  <2>2. Len(Tail(<<m>>)) = 0 /\ Tail(<<m>>) \in Seq(S)
    BY <2>1, <1>2
  <2> QED BY <2>2
<1> QED BY <1>1, <1>2, <1>3

LEMMA ShortLen ==
  ASSUME NEW S, NEW s \in AtMostOne(S)
  PROVE  (s = <<>> /\ Len(s) = 0) \/ (s # <<>> /\ Len(s) = 1)
<1>1. CASE s = <<>>
  <2>1. Len(<<>>) = 0
    OBVIOUS
  <2> QED BY <1>1, <2>1, Zenon
<1> QED BY <1>1, OneMessage

LEMMA SmallSums ==
  /\ 0 <= 1 /\ 1 <= 1
  /\ \A a \in {0, 1}, b \in {0, 1} : a = 0 \/ b = 0 => a + b <= 1
OBVIOUS

LEMMA Added ==
  ASSUME NEW S, NEW m \in S
  PROVE  /\ Append(<<>>, m) = <<m>> /\ <<m>> \in AtMostOne(S) /\ <<m>> # <<>>
         /\ Head(<<m>>) = m /\ <<>> \in AtMostOne(S)
BY DEF AtMostOne

LEMMA TalkGoesOn ==
  ASSUME NEW s \in Talk
  PROVE  /\ s # <<>> /\ s \in Seq(Commands) /\ Head(s) \in Commands /\ Len(s) \in Nat \ {0}
         /\ Len(s) = 1 => Head(s) = "EVAL"
         /\ Len(s) > 1 => Tail(s) \in Talk
<1>1. s \in Seq(Commands) /\ Len(s) \in Nat \ {0} /\ s[Len(s)] = "EVAL" /\ s # <<>>
  BY DEF Talk
<1>2. Head(s) = s[1] /\ s[1] \in Commands
  BY <1>1
<1>3. ASSUME Len(s) > 1 PROVE Tail(s) \in Talk
  <2>1. Tail(s) \in Seq(Commands) /\ Len(Tail(s)) = Len(s) - 1
    BY <1>1, <1>3
  <2>2. Tail(s)[Len(s) - 1] = s[Len(s)]
    BY <1>1, <1>3
  <2>3. ASSUME NEW t \in Seq(Commands), Len(t) = Len(s) - 1, t[Len(s) - 1] = "EVAL"
        PROVE  t \in Talk
    <3>1. t # <<>>
      <4>1. Len(<<>>) = 0
        OBVIOUS
      <4> QED BY <4>1, <1>1, <1>3, <2>3
    <3> QED BY <2>3, <3>1 DEF Talk
  <2>4. Tail(s)[Len(s) - 1] = "EVAL"
    BY <1>1, <2>2
  <2> QED BY <2>1, <2>3, <2>4
<1> QED BY <1>1, <1>2, <1>3

LEMMA Talks == Conversation \in Talk /\ <<"EVAL">> \in Talk
<1>1. Setup \in Seq(Commands)
  BY DEF Commands
<1>2. Append(Setup, "EVAL") \in Seq(Commands) /\ Len(Append(Setup, "EVAL")) = Len(Setup) + 1
      /\ Append(Setup, "EVAL")[Len(Setup) + 1] = "EVAL" /\ Len(Setup) \in Nat
  BY <1>1 DEF Commands
<1>3. Append(Setup, "EVAL") # <<>>
  BY <1>2
<1>4. <<"EVAL">> \in Seq(Commands) /\ <<"EVAL">> # <<>> /\ <<"EVAL">>[Len(<<"EVAL">>)] = "EVAL"
  BY DEF Commands
<1>5. Conversation \in Talk
  BY <1>2, <1>3 DEF Talk, Conversation
<1> QED BY <1>4, <1>5 DEF Talk

\* What is on r's connection stays, or is lost on its way, when another takes a step.
LEMMA OwedStays ==
  ASSUME NEW s, Owed(s), conn'[s] = conn[s], todo'[s] = todo[s], ticket'[s] = ticket[s],
         wire'[conn[s]] \in {wire[conn[s]], <<>>}, replies'[conn[s]] = replies[conn[s]]
  PROVE  Owed(s)'
<1>1. wire'[conn'[s]] \in {wire[conn[s]], <<>>} /\ replies'[conn'[s]] = replies[conn[s]]
  OBVIOUS
<1> QED BY <1>1 DEF Owed

\* The connection that failed leaves the system together with what was on it.
LEMMA FailKeeps ==
  ASSUME ConnInv, NEW r \in Requests, Talking(r), Fail(r), ticket' = ticket
  PROVE  ConnInv'
<1> DEFINE c == conn[r]
<1>0. Shape /\ Links /\ Owners /\ Matching /\ AdmittedWasCharged
  BY DEF ConnInv
<1>1. /\ c \in Conns /\ c # NoConn /\ c \notin pool
      /\ \A s \in Requests : s # r => conn[s] # c
  BY <1>0 DEF Owners, Shape
<1>2. /\ pc' = [pc EXCEPT ![r] = "failed"] /\ conn' = [conn EXCEPT ![r] = NoConn]
      /\ todo' = [todo EXCEPT ![r] = <<>>] /\ pool' = pool /\ wire' = wire
      /\ link' = [link EXCEPT ![c] = IF wire[c] = <<>> THEN "none" ELSE "left"]
      /\ replies' = [replies EXCEPT ![c] = <<>>]
  BY DEF Fail, Holds, Close
<1> HIDE DEF c
<1>3. Shape'
  BY <1>0, <1>1, <1>2 DEF Shape, AtMostOne
<1>4. Links'
  BY <1>0, <1>1, <1>2 DEF Shape, Links
<1>5. Owners'
  <2>1. \A s \in Requests : s # r => conn'[s] = conn[s] /\ pc'[s] = pc[s] /\ todo'[s] = todo[s]
    BY <1>0, <1>2 DEF Shape
  <2>2. conn'[r] = NoConn /\ pc'[r] = "failed" /\ NoConn \notin pool
    BY <1>0, <1>2 DEF Shape
  <2>3. /\ link'[c] \in {"none", "left"}
        /\ \A d \in Conns : d # c => link'[d] = link[d]
    BY <1>0, <1>1, <1>2 DEF Shape
  <2>4. \A d \in Conns : link'[d] \in {"open", "cut"} <=>
                           d \in pool' \/ \E s \in Requests : conn'[s] = d
    BY <1>0, <1>1, <1>2, <2>1, <2>2, <2>3 DEF Owners, c
  <2> QED BY <1>0, <1>2, <2>1, <2>2, <2>4 DEF Owners, Talking
<1>6. Matching'
  <2>1. ASSUME NEW d \in pool PROVE Quiet(d)'
    BY <1>0, <1>1, <1>2, <2>1 DEF Matching, Quiet, Shape
  <2>2. ASSUME NEW s \in Requests, s # r, Talking(s)
        PROVE  conn'[s] = conn[s] /\ pc'[s] = pc[s] /\ todo'[s] = todo[s] /\ ticket'[s] = ticket[s]
               /\ wire'[conn[s]] = wire[conn[s]] /\ replies'[conn[s]] = replies[conn[s]]
    BY <1>0, <1>1, <1>2, <2>2 DEF Shape, Owners
  <2>3. pc'[r] = "failed" /\ \A s \in Requests : s # r => pc'[s] = pc[s]
    BY <1>0, <1>2 DEF Shape
  <2> QED BY <1>0, <1>2, <2>1, <2>2, <2>3 DEF Matching, Quiet, Owed, Talking
<1>7. AdmittedWasCharged'
  BY <1>0, <1>2 DEF AdmittedWasCharged, Shape
<1> QED BY <1>3, <1>4, <1>5, <1>6, <1>7 DEF ConnInv

LEMMA AcquireKeeps == ASSUME ConnInv, NEW r \in Requests, Acquire(r) PROVE ConnInv'
<1>0. /\ Shape /\ Links /\ Owners /\ Matching /\ AdmittedWasCharged
      /\ pc[r] \in {"idle", "passed"} /\ conn[r] = NoConn
      /\ UNCHANGED <<link, wire, replies>> /\ ticket' = [ticket EXCEPT ![r] = "nobody"]
  BY DEF ConnInv, Acquire, Goes, Owners, Talking
<1>1. \A s \in Requests : s # r => ticket'[s] = ticket[s]
  BY <1>0 DEF Shape
<1>2. CASE pc' = [pc EXCEPT ![r] = "dial"] /\ UNCHANGED <<pool, conn, todo>>
  <2>1. Shape' /\ Links'
    BY <1>0, <1>2 DEF Shape, Links
  <2>2. Owners'
    BY <1>0, <1>2 DEF Shape, Owners, Talking
  <2>3. Matching'
    BY <1>0, <1>1, <1>2 DEF Shape, Matching, Quiet, Owed
  <2>4. AdmittedWasCharged'
    BY <1>0, <1>1, <1>2 DEF Shape, AdmittedWasCharged
  <2> QED BY <2>1, <2>2, <2>3, <2>4 DEF ConnInv
<1>3. ASSUME NEW c \in pool, pool' = pool \ {c}, Holds(r, c, <<"EVAL">>),
             pc' = [pc EXCEPT ![r] = "send"]
      PROVE  ConnInv'
  <2>1. /\ conn' = [conn EXCEPT ![r] = c] /\ todo' = [todo EXCEPT ![r] = <<"EVAL">>]
        /\ c \in Conns /\ c # NoConn /\ <<"EVAL">> \in Talk /\ <<"EVAL">> \in Seq(Commands)
    BY <1>0, <1>3, Talks DEF Holds, Shape, Talk
  <2>2. /\ \A s \in Requests : s # r => conn'[s] = conn[s] /\ pc'[s] = pc[s] /\ todo'[s] = todo[s]
        /\ conn'[r] = c /\ pc'[r] = "send" /\ todo'[r] = <<"EVAL">>
    BY <1>0, <1>3, <2>1 DEF Shape
  <2>3. Shape' /\ Links'
    BY <1>0, <1>3, <2>1 DEF Shape, Links
  <2>4. Owners'
    BY <1>0, <1>3, <2>1, <2>2 DEF Shape, Owners, Talking
  <2>5. Matching'
    BY <1>0, <1>1, <1>3, <2>2 DEF Shape, Matching, Quiet, Owed
  <2>6. AdmittedWasCharged'
    BY <1>0, <1>1, <1>3, <2>2 DEF Shape, AdmittedWasCharged
  <2> QED BY <2>3, <2>4, <2>5, <2>6 DEF ConnInv
<1> QED BY <1>2, <1>3 DEF Acquire, Goes

LEMMA DialKeeps == ASSUME ConnInv, NEW r \in Requests, Dial(r) PROVE ConnInv'
<1>0. /\ Shape /\ Links /\ Owners /\ Matching /\ AdmittedWasCharged
      /\ pc[r] = "dial" /\ conn[r] = NoConn
      /\ UNCHANGED <<pool, wire, replies, ticket>>
  BY DEF ConnInv, Dial, Goes, Owners, Talking
<1>2. CASE pc' = [pc EXCEPT ![r] = "failed"] /\ UNCHANGED <<link, conn, todo>>
  <2>1. Shape' /\ Links'
    BY <1>0, <1>2 DEF Shape, Links
  <2>2. Owners'
    BY <1>0, <1>2 DEF Shape, Owners, Talking
  <2>3. Matching'
    BY <1>0, <1>2 DEF Shape, Matching, Quiet, Owed
  <2>4. AdmittedWasCharged'
    BY <1>0, <1>2 DEF Shape, AdmittedWasCharged
  <2> QED BY <2>1, <2>2, <2>3, <2>4 DEF ConnInv
<1>3. ASSUME NEW c \in Conns, link[c] = "none", link' = [link EXCEPT ![c] = "open"],
             Holds(r, c, Conversation), pc' = [pc EXCEPT ![r] = "send"]
      PROVE  ConnInv'
  <2>1. /\ conn' = [conn EXCEPT ![r] = c] /\ todo' = [todo EXCEPT ![r] = Conversation]
        /\ c # NoConn /\ Conversation \in Talk /\ Conversation \in Seq(Commands)
        /\ c \notin pool /\ \A s \in Requests : conn[s] # c
    BY <1>0, <1>3, Talks DEF Holds, Shape, Talk, Owners
  <2>2. /\ \A s \in Requests : s # r => conn'[s] = conn[s] /\ pc'[s] = pc[s] /\ todo'[s] = todo[s]
        /\ conn'[r] = c /\ pc'[r] = "send" /\ todo'[r] = Conversation
        /\ link'[c] = "open" /\ \A d \in Conns : d # c => link'[d] = link[d]
    BY <1>0, <1>3, <2>1 DEF Shape
  <2>3. Shape' /\ Links'
    BY <1>0, <1>3, <2>1 DEF Shape, Links
  <2>4. Owners'
    <3>1. \A d \in Conns : link'[d] \in {"open", "cut"} <=>
                             d \in pool' \/ \E s \in Requests : conn'[s] = d
      BY <1>0, <2>1, <2>2 DEF Owners
    <3>2. \A s \in Requests : /\ conn'[s] # NoConn <=> pc'[s] \in {"send", "await"}
                              /\ pc'[s] \in {"send", "await"} => todo'[s] \in Talk
                              /\ conn'[s] \notin pool'
      BY <1>0, <2>1, <2>2 DEF Owners, Talking
    <3>3. \A s, q \in Requests : conn'[s] = conn'[q] /\ conn'[s] # NoConn => s = q
      BY <1>0, <2>1, <2>2 DEF Owners
    <3> QED BY <3>1, <3>2, <3>3 DEF Owners, Talking
  <2>5. Matching'
    BY <1>0, <1>3, <2>2 DEF Links, Matching, Quiet, Owed
  <2>6. AdmittedWasCharged'
    BY <1>0, <2>2 DEF AdmittedWasCharged
  <2> QED BY <2>3, <2>4, <2>5, <2>6 DEF ConnInv
<1> QED BY <1>2, <1>3 DEF Dial, Goes

LEMMA SendKeeps == ASSUME ConnInv, NEW r \in Requests, Send(r) PROVE ConnInv'
<1> DEFINE c == conn[r]
           m == [of |-> r, cmd |-> Head(todo[r])]
<1>0. /\ Shape /\ Links /\ Owners /\ Matching /\ AdmittedWasCharged
      /\ pc[r] = "send" /\ Talking(r) /\ ticket' = ticket
      /\ c \in Conns /\ Quiet(c) /\ todo[r] \in Talk
  BY DEF ConnInv, Send, Owners, Talking, Matching, Shape
<1>1. CASE Fail(r)
  BY <1>0, <1>1, FailKeeps
<1>2. CASE /\ pc' = [pc EXCEPT ![r] = "await"]
           /\ wire' = IF link[c] = "cut" THEN wire
                      ELSE [wire EXCEPT ![c] = Append(@, m)]
           /\ UNCHANGED <<pool, link, replies, conn, todo>>
  <2>1. m \in Message
    BY <1>0, TalkGoesOn DEF Message
  <2>2. \/ wire' = wire
        \/ wire' = [wire EXCEPT ![c] = <<m>>] /\ link[c] # "none"
    <3>1. link[c] # "none"
      BY <1>0 DEF Owners
    <3>2. Append(wire[c], m) = <<m>>
      BY <1>0, <2>1, Added DEF Quiet
    <3> QED BY <1>2, <3>1, <3>2
  <2>3. <<m>> \in AtMostOne(Message) /\ Head(<<m>>) = m /\ <<m>> # <<>>
    BY <2>1, Added
  <2>4. m.of = r /\ m.cmd = Head(todo[r])
    OBVIOUS
  <2> HIDE DEF m
  <2>5. \A s \in Requests : s # r /\ Talking(s) => conn[s] # c
    BY <1>0 DEF Owners
  <2> HIDE DEF c
  <2>6. Shape' /\ Links'
    BY <1>0, <1>2, <2>2, <2>3 DEF Shape, Links
  <2>7. Owners'
    BY <1>0, <1>2 DEF Shape, Owners, Talking
  <2>8. Matching'
    <3>1. /\ pc'[r] = "await" /\ \A s \in Requests : s # r => pc'[s] = pc[s]
          /\ conn[r] = c
      BY <1>0, <1>2 DEF Shape, c
    <3>2. \A d \in Conns : d # c => wire'[d] = wire[d]
      BY <1>0, <2>2 DEF Shape
    <3>3. wire'[c] = <<>> \/ wire'[c] = <<m>>
      BY <1>0, <2>2 DEF Shape, Quiet
    <3>4. Owed(r)'
      BY <1>0, <1>2, <2>3, <2>4, <3>1, <3>3 DEF Owed, Quiet
    <3>5. ASSUME NEW s \in Requests, s # r, Talking(s)
          PROVE  wire'[conn[s]] = wire[conn[s]]
      BY <1>0, <2>5, <3>2, <3>5 DEF Owners, Shape
    <3>6. c \notin pool /\ pool \subseteq Conns
      BY <1>0 DEF Owners, Shape, c
    <3> QED BY <1>0, <1>2, <3>1, <3>2, <3>4, <3>5, <3>6 DEF Matching, Quiet, Owed, Talking
  <2>9. AdmittedWasCharged'
    BY <1>0, <1>2 DEF Shape, AdmittedWasCharged
  <2> QED BY <2>6, <2>7, <2>8, <2>9 DEF ConnInv
<1> QED BY <1>1, <1>2 DEF Send, Goes

LEMMA ReceiveKeeps == ASSUME ConnInv, NEW r \in Requests, Receive(r) PROVE ConnInv'
<1> DEFINE c == conn[r]
           says == Head(replies[c]).says
<1>0. /\ Shape /\ Links /\ Owners /\ Matching /\ AdmittedWasCharged
      /\ pc[r] = "await" /\ Talking(r) /\ ticket' = ticket /\ replies[c] # <<>>
      /\ c \in Conns /\ c # NoConn /\ c \notin pool /\ Owed(r) /\ todo[r] \in Talk
  BY DEF ConnInv, Receive, Owners, Talking, Matching, Shape
<1>1. /\ replies[c] \in AtMostOne(Reply) /\ Tail(replies[c]) = <<>> /\ wire[c] = <<>>
      /\ says = "allowed" => ticket[r] = "redis"
  <2>1. replies[c] \in AtMostOne(Reply)
    BY <1>0 DEF Shape
  <2> QED BY <1>0, <2>1, OneMessage DEF Owed
<1>2. /\ \A s \in Requests : s # r => conn[s] # c
      /\ link[c] \in {"open", "cut"} /\ <<>> \in AtMostOne(Reply)
  BY <1>0 DEF Owners, AtMostOne
<1>3. CASE Fail(r)
  BY <1>0, <1>3, FailKeeps
<1>4. ASSUME replies' = [replies EXCEPT ![c] = Tail(@)], UNCHANGED wire
      PROVE  /\ replies' = [replies EXCEPT ![c] = <<>>] /\ wire' = wire
             /\ replies'[c] = <<>> /\ \A d \in Conns : d # c => replies'[d] = replies[d]
  BY <1>0, <1>1, <1>4 DEF Shape
<1>5. ASSUME replies' = [replies EXCEPT ![c] = Tail(@)], UNCHANGED wire, Len(todo[r]) > 1,
             pc' = [pc EXCEPT ![r] = "send"], Holds(r, c, Tail(todo[r])),
             UNCHANGED <<pool, link>>
      PROVE  ConnInv'
  <2>1. Tail(todo[r]) \in Talk /\ Tail(todo[r]) \in Seq(Commands)
    BY <1>0, <1>5, TalkGoesOn DEF Talk
  <2>2. /\ \A s \in Requests : s # r => pc'[s] = pc[s] /\ todo'[s] = todo[s]
        /\ conn' = conn /\ pc'[r] = "send" /\ todo'[r] = Tail(todo[r])
        /\ todo' = [todo EXCEPT ![r] = Tail(todo[r])]
    BY <1>0, <1>5 DEF Shape, Holds
  <2> HIDE DEF c
  <2>3. Shape' /\ Links'
    BY <1>0, <1>2, <1>4, <1>5, <2>1, <2>2 DEF Shape, Links
  <2>4. Owners'
    BY <1>0, <1>5, <2>1, <2>2 DEF Owners, Talking
  <2>5. Matching'
    <3>1. wire' = wire /\ replies'[c] = <<>> /\ c = conn[r]
          /\ \A d \in Conns : d # c => replies'[d] = replies[d]
      BY <1>4, <1>5 DEF c
    <3>2. \A d \in pool' : Quiet(d)'
      BY <1>0, <1>5, <3>1 DEF Matching, Quiet, Shape
    <3>3. ASSUME NEW s \in Requests, s # r
          PROVE  (pc[s] = "send" => Quiet(conn[s])') /\ (pc[s] = "await" => Owed(s)')
      <4>1. pc[s] \in {"send", "await"} => replies'[conn[s]] = replies[conn[s]]
        BY <1>0, <1>2, <3>1, <3>3 DEF Owners, Talking, Shape
      <4> QED BY <1>0, <2>2, <3>1, <3>3, <4>1 DEF Matching, Quiet, Owed
    <3>4. Quiet(conn[r])'
      BY <1>1, <2>2, <3>1 DEF Quiet
    <3> QED BY <2>2, <3>2, <3>3, <3>4 DEF Matching
  <2>6. AdmittedWasCharged'
    BY <1>0, <2>2 DEF AdmittedWasCharged
  <2> QED BY <2>3, <2>4, <2>5, <2>6 DEF ConnInv
<1>6. ASSUME replies' = [replies EXCEPT ![c] = Tail(@)], UNCHANGED wire,
             pc' = [pc EXCEPT ![r] = IF says = "allowed" THEN "passed" ELSE "idle"],
             Holds(r, NoConn, <<>>), Return(c)
      PROVE  ConnInv'
  <2>1. /\ conn' = [conn EXCEPT ![r] = NoConn] /\ todo' = [todo EXCEPT ![r] = <<>>]
        /\ <<>> \in Seq(Commands)
    BY <1>6 DEF Holds
  <2>2. /\ \A s \in Requests : s # r => pc'[s] = pc[s] /\ todo'[s] = todo[s] /\ conn'[s] = conn[s]
        /\ conn'[r] = NoConn /\ pc'[r] = (IF says = "allowed" THEN "passed" ELSE "idle")
    BY <1>0, <1>6, <2>1 DEF Shape
  <2>3. /\ wire' = wire /\ replies' = [replies EXCEPT ![c] = <<>>] /\ replies'[c] = <<>>
        /\ c = conn[r] /\ \A d \in Conns : d # c => replies'[d] = replies[d]
    BY <1>4, <1>6
  <2>4. \/ pool' = pool \cup {c} /\ link' = link
        \/ pool' = pool /\ link' = [link EXCEPT ![c] = "none"]
    BY <1>6 DEF Return
  <2> HIDE DEF c, says
  <2>5. Shape' /\ Links'
    <3>1. pc' \in [Requests -> {"idle", "dial", "send", "await", "failed", "passed"}]
      BY <1>0, <1>6 DEF Shape
    <3>2. pool' \subseteq Conns /\ link' \in [Conns -> {"none", "open", "cut", "left"}]
      BY <1>0, <2>4 DEF Shape
    <3>3. /\ wire' \in [Conns -> AtMostOne(Message)]
          /\ replies' \in [Conns -> AtMostOne(Reply)]
      BY <1>0, <1>2, <2>3 DEF Shape
    <3>4. /\ conn' \in [Requests -> Conns \cup {NoConn}]
          /\ todo' \in [Requests -> Seq(Commands)]
      BY <1>0, <2>1 DEF Shape
    <3>5. Shape'
      BY <1>0, <3>1, <3>2, <3>3, <3>4 DEF Shape
    <3>6. Links'
      BY <1>0, <1>1, <1>2, <2>3, <2>4 DEF Shape, Links
    <3> QED BY <3>5, <3>6
  <2>6. Owners'
    <3>1. NoConn \notin pool' /\ pool' \subseteq pool \cup {c}
      BY <1>0, <2>4 DEF Shape
    <3>2. \A s \in Requests : /\ conn'[s] # NoConn <=> pc'[s] \in {"send", "await"}
                              /\ pc'[s] \in {"send", "await"} => todo'[s] \in Talk
                              /\ conn'[s] \notin pool'
      BY <1>0, <1>2, <2>2, <3>1 DEF Owners, Talking
    <3>3. \A s, q \in Requests : conn'[s] = conn'[q] /\ conn'[s] # NoConn => s = q
      BY <1>0, <2>2 DEF Owners
    <3>4. ASSUME NEW d \in Conns
          PROVE  link'[d] \in {"open", "cut"} <=>
                   d \in pool' \/ \E s \in Requests : conn'[s] = d
      <4>1. CASE d = c
        BY <1>0, <1>2, <2>2, <2>4, <4>1 DEF Owners, Shape
      <4>2. CASE d # c
        <5>1. link'[d] = link[d] /\ (d \in pool' <=> d \in pool)
          BY <1>0, <2>4, <4>2 DEF Shape
        <5>2. (\E s \in Requests : conn'[s] = d) <=> (\E s \in Requests : conn[s] = d)
          BY <2>2, <2>3, <4>2
        <5> QED BY <1>0, <5>1, <5>2 DEF Owners
      <4> QED BY <4>1, <4>2
    <3> QED BY <3>2, <3>3, <3>4 DEF Owners, Talking
  <2>7. Matching'
    <3>1. \A d \in pool' : Quiet(d)'
      BY <1>0, <1>1, <2>3, <2>4 DEF Matching, Quiet, Shape
    <3>2. ASSUME NEW s \in Requests, s # r
          PROVE  (pc[s] = "send" => Quiet(conn[s])') /\ (pc[s] = "await" => Owed(s)')
      <4>1. pc[s] \in {"send", "await"} => replies'[conn[s]] = replies[conn[s]]
        BY <1>0, <1>2, <2>3, <3>2 DEF Owners, Talking, Shape
      <4> QED BY <1>0, <2>2, <2>3, <3>2, <4>1 DEF Matching, Quiet, Owed
    <3> QED BY <2>2, <3>1, <3>2 DEF Matching, Quiet, Owed
  <2>8. AdmittedWasCharged'
    BY <1>0, <1>1, <2>2 DEF AdmittedWasCharged
  <2> QED BY <2>5, <2>6, <2>7, <2>8 DEF ConnInv
<1> QED BY <1>3, <1>5, <1>6 DEF Receive, Goes

LEMMA FallbackKeeps == ASSUME ConnInv, NEW r \in Requests, Fallback(r) PROVE ConnInv'
<1>0. /\ Shape /\ Links /\ Owners /\ Matching /\ AdmittedWasCharged
      /\ pc[r] = "failed" /\ UNCHANGED <<linkVars, conn, todo>>
  BY DEF ConnInv, Fallback, Goes
<1>1. /\ pool' = pool /\ link' = link /\ wire' = wire /\ replies' = replies
      /\ conn' = conn /\ todo' = todo
  BY <1>0 DEF linkVars
<1>2. \/ /\ pc' = [pc EXCEPT ![r] = "passed"] /\ ticket' = [ticket EXCEPT ![r] = "local"]
      \/ pc' = [pc EXCEPT ![r] = "idle"] /\ ticket' = ticket
  BY DEF Fallback, Goes
<1>3. /\ \A s \in Requests : s # r => pc'[s] = pc[s] /\ ticket'[s] = ticket[s]
      /\ pc'[r] = "idle" \/ (pc'[r] = "passed" /\ ticket'[r] = "local")
  <2>1. CASE pc' = [pc EXCEPT ![r] = "passed"] /\ ticket' = [ticket EXCEPT ![r] = "local"]
    BY <1>0, <2>1 DEF Shape
  <2>2. CASE pc' = [pc EXCEPT ![r] = "idle"] /\ ticket' = ticket
    BY <1>0, <2>2 DEF Shape
  <2> QED BY <1>2, <2>1, <2>2
<1>4. Shape' /\ Links'
  BY <1>0, <1>1, <1>2 DEF Shape, Links
<1>5. Owners'
  <2>1. \A s \in Requests : pc'[s] \in {"send", "await"} <=> pc[s] \in {"send", "await"}
    BY <1>0, <1>3
  <2> QED BY <1>0, <1>1, <2>1 DEF Owners, Talking
<1>6. Matching'
  BY <1>0, <1>1, <1>3 DEF Matching, Quiet, Owed
<1>7. AdmittedWasCharged'
  BY <1>0, <1>3 DEF AdmittedWasCharged
<1> QED BY <1>4, <1>5, <1>6, <1>7 DEF ConnInv

\* Only a request that waits has a command on its way, or it is gone.
LEMMA ExecuteKeeps == ASSUME ConnInv, NEW c \in Conns, Execute(c) PROVE ConnInv'
<1> DEFINE m == Head(wire[c])
<1>0. /\ Shape /\ Links /\ Owners /\ Matching /\ AdmittedWasCharged /\ wire[c] # <<>>
      /\ UNCHANGED <<pool, pc, conn, todo>> /\ wire' = [wire EXCEPT ![c] = Tail(@)]
  BY DEF ConnInv, Execute, requestVars
<1>1. /\ m \in Message /\ Tail(wire[c]) = <<>> /\ Len(wire[c]) = 1
      /\ wire[c] \in AtMostOne(Message)
  <2>1. wire[c] \in AtMostOne(Message)
    BY <1>0 DEF Shape
  <2> QED BY <1>0, <2>1, OneMessage
<1>2. wire' = [wire EXCEPT ![c] = <<>>] /\ <<>> \in AtMostOne(Message)
  BY <1>0, <1>1 DEF Shape, AtMostOne
<1>3. c \notin pool /\ \A r \in Requests : pc[r] = "send" => conn[r] # c
  BY <1>0 DEF Matching, Quiet
<1>4. /\ ticket' \in [Requests -> {"nobody", "redis", "local"}]
      /\ \A r \in Requests : ticket'[r] \in {ticket[r], "redis"}
      /\ \A r \in Requests : r # m.of => ticket'[r] = ticket[r]
  <2>1. \/ ticket' = ticket
        \/ ticket' = [ticket EXCEPT ![m.of] = "redis"]
    BY DEF Execute, Evaluate
  <2> QED BY <1>0, <1>1, <2>1 DEF Shape, Message
<1>5. AdmittedWasCharged'
  BY <1>0, <1>4 DEF AdmittedWasCharged
<1>6. CASE link[c] = "left"
  <2>1. /\ replies' = replies /\ link' = [link EXCEPT ![c] = "none"]
        /\ ticket' = ticket
    BY <1>1, <1>6 DEF Execute, Evaluate
  <2>2. \A r \in Requests : Talking(r) => conn[r] # c
    BY <1>0, <1>6 DEF Owners, Talking
  <2>3. Shape' /\ Links'
    <3>1. Shape'
      <4>1. wire' \in [Conns -> AtMostOne(Message)]
        BY <1>0, <1>2 DEF Shape
      <4>2. link' \in [Conns -> {"none", "open", "cut", "left"}]
        BY <1>0, <2>1 DEF Shape
      <4> QED BY <1>0, <2>1, <4>1, <4>2 DEF Shape
    <3>2. replies[c] = <<>>
      BY <1>0, <1>6 DEF Links
    <3>3. wire'[c] = <<>>
      BY <1>0, <1>2 DEF Shape
    <3>4. \A d \in Conns : d # c => link'[d] = link[d] /\ wire'[d] = wire[d]
      BY <1>0, <1>2, <2>1 DEF Shape
    <3>5. Links'
      BY <1>0, <2>1, <3>2, <3>3, <3>4 DEF Links
    <3> QED BY <3>1, <3>5
  <2>4. Owners'
    <3>1. \A d \in Conns : link'[d] \in {"open", "cut"} <=> link[d] \in {"open", "cut"}
      BY <1>0, <1>6, <2>1 DEF Shape
    <3> QED BY <1>0, <3>1 DEF Owners, Talking
  <2>5. \A d \in Conns : d # c => wire'[d] = wire[d]
    BY <1>0, <1>2 DEF Shape
  <2>6. Matching'
    <3>1. \A d \in pool : Quiet(d)'
      BY <1>0, <1>3, <2>1, <2>5 DEF Matching, Quiet, Shape
    <3>2. ASSUME NEW s \in Requests
          PROVE  (pc[s] = "send" => Quiet(conn[s])') /\ (pc[s] = "await" => Owed(s)')
      <4>1. pc[s] \in {"send", "await"} => wire'[conn[s]] = wire[conn[s]]
        BY <1>0, <2>2, <2>5 DEF Owners, Talking, Shape
      <4>2. conn' = conn /\ todo' = todo
        BY <1>0
      <4>3. replies' = replies /\ ticket' = ticket
        BY <2>1
      <4>4. pc[s] = "send" => Quiet(conn[s])'
        BY <1>0, <4>1, <4>2, <4>3 DEF Matching, Quiet
      <4>5. pc[s] = "await" => Owed(s)'
        BY <1>0, <4>1, <4>2, <4>3, OwedStays DEF Matching
      <4> QED BY <4>4, <4>5
    <3> QED BY <1>0, <3>1, <3>2 DEF Matching
  <2> QED BY <1>5, <2>3, <2>4, <2>6 DEF ConnInv
<1>7. CASE link[c] # "left"
  <2>1. PICK r \in Requests : pc[r] = "await" /\ conn[r] = c
    <3>1. link[c] \in {"open", "cut"}
      BY <1>0, <1>7 DEF Links, Shape
    <3> QED BY <1>0, <1>3, <3>1 DEF Owners, Talking, Shape
  <2>2. /\ replies[c] = <<>> /\ m.of = r /\ m.cmd = Head(todo[r]) /\ Owed(r)
        /\ \A s \in Requests : s # r => conn[s] # c
    BY <1>0, <2>1 DEF Matching, Owed, Owners, Shape
  <2> DEFINE Answers(says) == replies' = [replies EXCEPT ![c] =
                                Append(@, [of |-> m.of, cmd |-> m.cmd, says |-> says])]
  <2>3. PICK says \in {"ok", "error", "allowed", "refused"} :
          /\ Answers(says)
          /\ says = "allowed" => ticket'[r] = "redis"
    <3>1. \/ /\ Answers("allowed")
             /\ ticket' = [ticket EXCEPT ![m.of] = "redis"]
          \/ \E s \in {"ok", "error", "refused"} : Answers(s)
      BY <1>7 DEF Execute, Evaluate
    <3>2. ticket' = [ticket EXCEPT ![m.of] = "redis"] => ticket'[r] = "redis"
      BY <1>0, <2>2 DEF Shape
    <3> QED BY <3>1, <3>2
  <2> DEFINE a == [of |-> m.of, cmd |-> m.cmd, says |-> says]
  <2>4. a \in Reply /\ a.of = r /\ a.cmd = Head(todo[r]) /\ a.says = says
    BY <1>1, <2>2 DEF Message, Reply
  <2>5. replies' = [replies EXCEPT ![c] = Append(@, a)]
    BY <2>3
  <2> HIDE DEF a, m
  <2>6. replies' = [replies EXCEPT ![c] = <<a>>]
    BY <1>0, <2>2, <2>4, <2>5, Added DEF Shape
  <2>7. <<a>> \in AtMostOne(Reply) /\ Head(<<a>>) = a /\ link' = link
    BY <1>7, <2>4, Added DEF Execute
  <2>8. Shape'
    <3>1. wire' \in [Conns -> AtMostOne(Message)]
      BY <1>0, <1>2 DEF Shape
    <3>2. replies' \in [Conns -> AtMostOne(Reply)]
      BY <1>0, <2>6, <2>7 DEF Shape
    <3> QED BY <1>0, <1>4, <2>7, <3>1, <3>2 DEF Shape
  <2>9. Links'
    BY <1>0, <1>2, <1>7, <2>1, <2>6, <2>7 DEF Shape, Links, Owners
  <2>10. Owners'
    BY <1>0, <2>7 DEF Owners, Talking
  <2>11. /\ \A d \in Conns : d # c => wire'[d] = wire[d] /\ replies'[d] = replies[d]
         /\ wire'[c] = <<>> /\ replies'[c] = <<a>>
    BY <1>0, <1>2, <2>6 DEF Shape
  <2>12. Matching'
    <3>1. \A d \in pool : Quiet(d)'
      BY <1>0, <1>3, <2>11 DEF Matching, Quiet, Shape
    <3>2. ASSUME NEW s \in Requests, s # r
          PROVE  (pc[s] = "send" => Quiet(conn[s])') /\ (pc[s] = "await" => Owed(s)')
      <4>1. pc[s] \in {"send", "await"} => /\ wire'[conn[s]] = wire[conn[s]]
                                           /\ replies'[conn[s]] = replies[conn[s]]
        BY <1>0, <2>2, <2>11, <3>2 DEF Owners, Talking, Shape
      <4>2. ticket'[s] = ticket[s]
        BY <1>4, <2>2, <3>2
      <4>3. conn' = conn /\ todo' = todo
        BY <1>0
      <4>4. pc[s] = "send" => Quiet(conn[s])'
        BY <1>0, <4>1, <4>3 DEF Matching, Quiet
      <4>5. pc[s] = "await" => Owed(s)'
        BY <1>0, <4>1, <4>2, <4>3, OwedStays DEF Matching
      <4> QED BY <4>4, <4>5
    <3>3. Owed(r)'
      <4>1. /\ conn'[r] = c /\ todo'[r] = todo[r] /\ wire'[c] = <<>>
            /\ replies'[c] = <<a>> /\ Head(<<a>>) = a
        BY <1>0, <2>1, <2>7, <2>11
      <4>2. wire'[conn'[r]] = <<>> /\ Head(replies'[conn'[r]]) = a
        BY <4>1
      <4> QED BY <2>3, <2>4, <4>1, <4>2 DEF Owed
    <3> QED BY <1>0, <2>1, <3>1, <3>2, <3>3 DEF Matching
  <2> QED BY <1>5, <2>8, <2>9, <2>10, <2>12 DEF ConnInv
<1> QED BY <1>6, <1>7

LEMMA CutsKeep ==
  ASSUME ConnInv, NEW S \in SUBSET Conns, Cuts(S), UNCHANGED <<pool, pc, conn, todo, ticket>>
  PROVE  ConnInv'
<1>0. /\ Shape /\ Links /\ Owners /\ Matching /\ AdmittedWasCharged
      /\ UNCHANGED <<pool, pc, conn, todo, ticket, replies>> /\ <<>> \in AtMostOne(Message)
  BY DEF ConnInv, Cuts, AtMostOne
<1>1. /\ \A c \in Conns : wire'[c] \in {wire[c], <<>>} /\ (c \in S => wire'[c] = <<>>)
      /\ wire' \in [Conns -> AtMostOne(Message)]
  BY <1>0 DEF Cuts, Shape
<1>2. /\ link' \in [Conns -> {"none", "open", "cut", "left"}]
      /\ \A c \in Conns :
           /\ link'[c] \in {"open", "cut"} <=> link[c] \in {"open", "cut"}
           /\ link'[c] = "left" => link[c] = "left"
           /\ link'[c] = "none" => link[c] = "none" \/ c \in S
  <2>1. \A c \in Conns : link'[c] = IF c \notin S THEN link[c] ELSE IF link[c] = "open" THEN "cut"
                                    ELSE IF link[c] = "left" THEN "none" ELSE link[c]
    BY DEF Cuts
  <2>2. DOMAIN link' = Conns /\ link' = [c \in Conns |-> link'[c]]
    BY DEF Cuts
  <2>3. \A c \in Conns : link[c] \in {"none", "open", "cut", "left"}
    BY <1>0 DEF Shape
  <2> QED BY <2>1, <2>2, <2>3
<1>3. Shape'
  BY <1>0, <1>1, <1>2 DEF Shape
<1>4. Links'
  <2> SUFFICES ASSUME NEW c \in Conns
               PROVE  /\ link'[c] = "none" => wire'[c] = <<>>
                      /\ link'[c] \in {"none", "left"} => replies'[c] = <<>>
    BY DEF Links
  <2>1. link'[c] \in {"none", "left"} => link[c] \in {"none", "left"}
    BY <1>0, <1>2 DEF Shape
  <2> QED BY <1>0, <1>1, <1>2, <2>1 DEF Links
<1>5. Owners'
  <2>1. conn' = conn /\ pc' = pc /\ todo' = todo /\ pool' = pool
    BY <1>0
  <2> QED BY <1>0, <1>2, <2>1 DEF Owners, Talking
<1>6. Matching'
  <2>1. \A d \in pool : Quiet(d)'
    BY <1>0, <1>1 DEF Matching, Quiet, Shape
  <2>2. ASSUME NEW s \in Requests
        PROVE  (pc[s] = "send" => Quiet(conn[s])') /\ (pc[s] = "await" => Owed(s)')
    <3>1. pc[s] \in {"send", "await"} => wire'[conn[s]] \in {wire[conn[s]], <<>>}
      BY <1>0, <1>1 DEF Owners, Talking, Shape
    <3> QED BY <1>0, <3>1 DEF Matching, Quiet, Owed
  <2> QED BY <1>0, <2>1, <2>2 DEF Matching
<1>7. AdmittedWasCharged'
  BY <1>0 DEF AdmittedWasCharged
<1> QED BY <1>3, <1>4, <1>5, <1>6, <1>7 DEF ConnInv

LEMMA ConnStep == ConnInv /\ [Next]_vars => ConnInv'
<1> SUFFICES ASSUME ConnInv, [Next]_vars PROVE ConnInv'
  OBVIOUS
<1>1. ASSUME UNCHANGED <<linkVars, requestVars, ticket>> PROVE ConnInv'
  BY <1>1 DEF ConnInv, linkVars, requestVars, Shape, Links, Owners, Matching, Talking, Quiet,
              Owed, AdmittedWasCharged
<1>2. ASSUME NEW r \in Requests, Request(r) PROVE ConnInv'
  <2>1. CASE GiveUp(r)
    BY <2>1, FailKeeps DEF GiveUp, ConnInv, Owners, Talking
  <2> QED BY <1>2, <2>1, AcquireKeeps, DialKeeps, SendKeeps, ReceiveKeeps, FallbackKeeps
          DEF Request
<1>3. ASSUME NEW c \in Conns, Cut(c) PROVE ConnInv'
  BY <1>3, CutsKeep DEF Cut, requestVars
<1>4. CASE Restart
  BY <1>4, CutsKeep DEF Restart, requestVars
<1>5. CASE Weather \/ Tick \/ SetBack \/ UNCHANGED vars
  BY <1>1, <1>5 DEF Weather, Tick, SetBack, vars
<1> QED BY <1>2, <1>3, <1>4, <1>5, ExecuteKeeps DEF Next

LEMMA ConnsHold == Spec => []ConnInv
<1>1. Init => ConnInv
  BY DEF Init, ConnInv, Shape, Links, Owners, Matching, Talking, Quiet, AdmittedWasCharged,
         AtMostOne
<1> QED BY <1>1, ConnStep, PTL DEF Spec

\* The pool never outgrows its channel.
LEMMA RoomStep == Room /\ [Next]_vars => Room'
<1> SUFFICES ASSUME Room, [Next]_vars PROVE Room'
  OBVIOUS
<1>0. IsFiniteSet(pool) /\ Cardinality(pool) \in Nat /\ Cardinality(pool) <= PoolSize
  BY FS_CardinalityType DEF Room
<1>1. ASSUME NEW c, pool' = pool \ {c} PROVE Room'
  <2>1. /\ IsFiniteSet(pool \ {c})
        /\ Cardinality(pool \ {c}) = IF c \in pool THEN Cardinality(pool) - 1 ELSE Cardinality(pool)
    BY <1>0, FS_RemoveElement
  <2> QED BY <1>0, <1>1, <2>1 DEF Room
<1>2. ASSUME NEW c, Return(c) PROVE Room'
  <2>1. /\ IsFiniteSet(pool \cup {c})
        /\ Cardinality(pool \cup {c}) = IF c \in pool THEN Cardinality(pool)
                                       ELSE Cardinality(pool) + 1
    BY <1>0, FS_AddElement
  <2>2. CASE pool' = pool
    BY <1>0, <2>2 DEF Room
  <2>3. CASE Cardinality(pool) < PoolSize /\ pool' = pool \cup {c}
    BY <1>0, <2>1, <2>3 DEF Room
  <2> QED BY <1>2, <2>2, <2>3 DEF Return
<1>3. CASE pool' = pool
  BY <1>3 DEF Room
<1>4. ASSUME NEW r \in Requests, Request(r) PROVE Room'
  BY <1>1, <1>2, <1>3, <1>4 DEF Request, Acquire, Dial, Send, Receive, GiveUp, Fallback, Fail,
     linkVars
<1>5. CASE (\E c \in Conns : Execute(c) \/ Cut(c)) \/ Restart \/ Weather \/ Tick \/ SetBack
           \/ UNCHANGED vars
  BY <1>3, <1>5 DEF Execute, Cut, Restart, Weather, Tick, SetBack, vars, linkVars
<1> QED BY <1>4, <1>5 DEF Next
-----------------------------------------------------------------------------
\* Whatever fails and whenever - dials, writes, replies that come late or not at all,
\* connections Redis cuts in the pool or in use, its restarts - the error paths of Allow
\* and the channel `pool' neither lose a connection nor share one, the pool does not
\* outgrow redis_connect, and a request only ever reads the answer to its own command.
THEOREM PoolSoundness == Spec => []PoolSound
<1>1. Init => Room
  BY FS_EmptySet DEF Init, Room
<1>2. Spec => []Room
  BY <1>1, RoomStep, PTL DEF Spec
<1>3. ConnInv /\ Room /\ BucketInv => PoolSound
  <2> SUFFICES ASSUME ConnInv, Room, BucketInv PROVE PoolSound
    OBVIOUS
  <2>0. Shape /\ Links /\ Owners /\ Matching
    BY DEF ConnInv
  <2>2. ASSUME NEW c \in Conns
        PROVE  /\ Len(wire[c]) <= 1 /\ Len(replies[c]) <= 1
               /\ link[c] = "none" => wire[c] = <<>> /\ replies[c] = <<>>
    <3>1. wire[c] \in AtMostOne(Message) /\ replies[c] \in AtMostOne(Reply)
      BY <2>0 DEF Shape
    <3>2. Len(wire[c]) <= 1 /\ Len(replies[c]) <= 1
      BY <3>1, ShortLen, SmallSums, Zenon
    <3> QED BY <2>0, <3>2 DEF Links
  <2>3. TypeOK
    BY <2>0, <2>2 DEF TypeOK, Shape, Owners, Talking, BucketInv
  <2>4. ConnsAccounted
    <3>1. pool \cup Held = Open
      BY <2>0 DEF Held, Open, Owners, Shape
    <3>2. pool \cap Held = {}
      BY <2>0 DEF Held, Owners
    <3> QED BY <2>0, <3>1, <3>2 DEF ConnsAccounted, Owners, Room
  <2>5. AnswersMatch
    <3>1. ASSUME NEW r \in Requests, pc[r] = "await"
          PROVE  /\ Len(wire[conn[r]]) + Len(replies[conn[r]]) <= 1
                 /\ \A i \in DOMAIN wire[conn[r]] :
                      wire[conn[r]][i].of = r /\ wire[conn[r]][i].cmd = Head(todo[r])
                 /\ \A i \in DOMAIN replies[conn[r]] :
                      replies[conn[r]][i].of = r /\ replies[conn[r]][i].cmd = Head(todo[r])
      <4>1. /\ wire[conn[r]] \in AtMostOne(Message) /\ replies[conn[r]] \in AtMostOne(Reply)
            /\ Owed(r)
        BY <2>0, <3>1 DEF Shape, Owners, Talking, Matching
      <4>2. ASSUME NEW S, NEW s \in AtMostOne(S), s # <<>>
            PROVE  Len(s) = 1 /\ \A i \in DOMAIN s : s[i] = Head(s)
        <5>1. PICK m \in S : s = <<m>>
          BY <4>2 DEF AtMostOne
        <5> QED BY <5>1
      <4>3. Len(<<>>) = 0 /\ DOMAIN <<>> = {}
        OBVIOUS
      <4>4. wire[conn[r]] # <<>> =>
              /\ Len(wire[conn[r]]) = 1
              /\ \A i \in DOMAIN wire[conn[r]] : wire[conn[r]][i] = Head(wire[conn[r]])
        BY <4>1, <4>2
      <4>5. replies[conn[r]] # <<>> =>
              /\ Len(replies[conn[r]]) = 1
              /\ \A i \in DOMAIN replies[conn[r]] : replies[conn[r]][i] = Head(replies[conn[r]])
        BY <4>1, <4>2
      <4>6. wire[conn[r]] = <<>> \/ replies[conn[r]] = <<>>
        BY <4>1 DEF Owed
      <4>7. Len(wire[conn[r]]) + Len(replies[conn[r]]) <= 1
        <5>1. Len(wire[conn[r]]) \in {0, 1} /\ Len(replies[conn[r]]) \in {0, 1}
          BY <4>1, ShortLen, Zenon
        <5>2. Len(wire[conn[r]]) = 0 \/ Len(replies[conn[r]]) = 0
          BY <4>3, <4>6, Zenon
        <5> QED BY <5>1, <5>2, SmallSums, Zenon
      <4>8. \A i \in DOMAIN wire[conn[r]] :
              wire[conn[r]][i].of = r /\ wire[conn[r]][i].cmd = Head(todo[r])
        BY <4>1, <4>3, <4>4 DEF Owed
      <4>9. \A i \in DOMAIN replies[conn[r]] :
              replies[conn[r]][i].of = r /\ replies[conn[r]][i].cmd = Head(todo[r])
        BY <4>1, <4>3, <4>5 DEF Owed
      <4> QED BY <4>7, <4>8, <4>9
    <3> QED BY <2>0, <3>1 DEF AnswersMatch, Matching, Quiet
  <2> QED BY <2>3, <2>4, <2>5 DEF PoolSound
<1> QED BY <1>2, <1>3, ConnsHold, BucketBounded, PTL

\* What Redis lets in never exceeds the burst and what the ticks of its clock refilled,
\* for every rate, burst and order of ticks, steps back and late commands, though the key
\* expires; and every request let in was charged, by the script or by the fallback.
THEOREM AdmissionsAreCharged == Spec => []AdmissionsCharged
<1>1. BucketInv /\ ConnInv => AdmissionsCharged
  BY FullNat DEF BucketInv, ConnInv, AdmissionsCharged, NeverOverAdmits
<1> QED BY <1>1, BucketBounded, ConnsHold, PTL
=============================================================================

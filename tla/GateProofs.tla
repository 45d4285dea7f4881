----------------------------- MODULE GateProofs -----------------------------
(***************************************************************************)
(* Gate proved for any configurations and any requests: what Validate      *)
(* accepts is set up, what reaches an upstream has passed both policies,   *)
(* only the headers of trusted proxies say who a client is, nobody the     *)
(* configuration lets in is turned away, and a request is sent to the      *)
(* upstream whose path is the most specific its own path starts with.      *)
(***************************************************************************)
EXTENDS Gate, TLAPS, FiniteSetTheorems, WellFoundedInduction

(* Numbers and sequences *)

LEMMA Smallest ==
  ASSUME NEW U \in SUBSET Nat, U # {}
  PROVE  \E m \in U : \A j \in U : m <= j
<1> DEFINE R == {ss \in Nat \X Nat : ss[1] < ss[2]}
<1>1. IsWellFoundedOn(R, Nat)
  BY NatLessThanWellFounded, Zenon DEF OpToRel
<1>2. PICK m \in U : \A j \in U : <<j, m>> \notin R
  <2> HIDE DEF R
  <2> QED BY <1>1, WFMin
<1>3. ASSUME NEW j \in U PROVE m <= j
  <2>1. <<j, m>> \in Nat \X Nat /\ <<j, m>>[1] = j /\ <<j, m>>[2] = m
    OBVIOUS
  <2> QED BY <1>2, <2>1
<1> QED BY <1>3

LEMMA Largest ==
  ASSUME NEW n \in Nat, NEW T \in SUBSET (0..n), T # {}
  PROVE  \E m \in T : \A j \in T : j <= m
<1> DEFINE U == {n - j : j \in T}
<1>1. U \in SUBSET Nat /\ U # {}
  <2>1. \A j \in T : n - j \in Nat
    OBVIOUS
  <2> QED BY <2>1
<1>2. PICK x \in U : \A y \in U : x <= y
  <2> HIDE DEF U
  <2> QED BY <1>1, Smallest
<1>3. PICK m \in T : x = n - m
  OBVIOUS
<1>4. ASSUME NEW j \in T PROVE j <= m
  <2>1. n - j \in U /\ j \in Int /\ m \in Int
    OBVIOUS
  <2> HIDE DEF U
  <2> QED BY <1>2, <1>3, <2>1
<1> QED BY <1>4

LEMMA SameElements ==
  ASSUME NEW T, NEW s \in Seq(T), NEW t \in Seq(T), Len(s) = Len(t),
         \A i \in 1..Len(s) : s[i] = t[i]
  PROVE  s = t
OBVIOUS

LEMMA Wider ==
  ASSUME NEW T, NEW S \in SUBSET T, NEW s \in Seq(S)
  PROVE  s \in Seq(T)
OBVIOUS

LEMMA Prefix ==
  ASSUME NEW S, NEW T, NEW s \in Seq(S), NEW t \in Seq(T), IsPrefix(s, t), Len(t) <= Len(s)
  PROVE  s = t
BY DEF IsPrefix
-----------------------------------------------------------------------------
(* Paths *)

Trimmed(p) == p = <<>> \/ p[Len(p)] # Slash
Normal(p)  == Len(p) > 0 /\ (p = Root \/ p[Len(p)] # Slash)

LEMMA TrimRightCuts ==
  ASSUME NEW T, NEW p \in Seq(T)
  PROVE  \E n \in 0..Len(p) : /\ TrimRight(p) = SubSeq(p, 1, n) /\ (n = 0 \/ p[n] # Slash)
                             /\ \A i \in DOMAIN p : i > n => p[i] = Slash
<1> DEFINE kept == {i \in DOMAIN p : p[i] # Slash}
           P(n) == n \in kept \cup {0} /\ \A i \in kept : i <= n
           last == CHOOSE n \in 0..Len(p) : P(n)
<1>1. Len(p) \in Nat /\ DOMAIN p = 1..Len(p) /\ kept \cup {0} \in SUBSET (0..Len(p))
  OBVIOUS
<1>2. \E n \in 0..Len(p) : P(n)
  <2>1. PICK m \in kept \cup {0} : \A j \in kept \cup {0} : j <= m
    BY <1>1, Largest
  <2> QED BY <1>1, <2>1
<1>3. last \in 0..Len(p) /\ P(last)
  BY <1>2
<1>4. TrimRight(p) = SubSeq(p, 1, last)
  BY DEF TrimRight
<1> HIDE DEF last
<1>5. ASSUME NEW i \in DOMAIN p, i > last PROVE p[i] = Slash
  <2>1. ~(i <= last)
    BY <1>1, <1>3, <1>5
  <2> QED BY <1>3, <2>1
<1> QED BY <1>3, <1>4, <1>5

LEMMA TrimRightTrims ==
  ASSUME NEW T, NEW p \in Seq(T)
  PROVE  TrimRight(p) \in Seq(T) /\ Trimmed(TrimRight(p))
<1>1. PICK n \in 0..Len(p) : TrimRight(p) = SubSeq(p, 1, n) /\ (n = 0 \/ p[n] # Slash)
  BY TrimRightCuts
<1>2. CASE n = 0
  BY <1>1, <1>2 DEF Trimmed
<1>3. CASE n \in 1..Len(p)
  <2>1. SubSeq(p, 1, n) \in Seq(T) /\ Len(SubSeq(p, 1, n)) = n /\ SubSeq(p, 1, n)[n] = p[n]
    BY <1>3
  <2> QED BY <1>1, <1>3, <2>1 DEF Trimmed
<1> QED BY <1>2, <1>3

LEMMA RootPath ==
  ASSUME NEW T, Slash \in T
  PROVE  Root \in Seq(T) /\ Len(Root) = 1 /\ Root[1] = Slash
BY DEF Root

LEMMA Normalizes ==
  ASSUME NEW T, Slash \in T, NEW p \in Seq(T)
  PROVE  NormalizePath(p) \in Seq(T) /\ Normal(NormalizePath(p))
<1> DEFINE r == IF p # <<>> /\ Head(p) = Slash THEN p ELSE Root \o p
<1>1. Root \in Seq(T) /\ Len(Root) = 1
  BY RootPath
<1>2. r \in Seq(T)
  BY <1>1
<1>3. NormalizePath(p) = IF TrimRight(r) = <<>> THEN Root ELSE TrimRight(r)
  BY DEF NormalizePath
<1>4. TrimRight(r) \in Seq(T) /\ Trimmed(TrimRight(r))
  BY <1>2, TrimRightTrims
<1> HIDE DEF r
<1>5. TrimRight(r) # <<>> => Normal(TrimRight(r))
  BY <1>4 DEF Normal, Trimmed
<1>6. Normal(Root)
  BY <1>1 DEF Normal
<1> QED BY <1>1, <1>3, <1>4, <1>5, <1>6

LEMMA UnderPath ==
  ASSUME NEW T, Slash \in T, NEW p \in Seq(T)
  PROVE  /\ Under(p) \in Seq(T) /\ Len(Under(p)) = Len(p) + 1 /\ Under(p)[Len(p) + 1] = Slash
         /\ \A i \in 1..Len(p) : Under(p)[i] = p[i]
BY DEF Under, Root

PatternsOf(p) == IF p = Root THEN {Root} ELSE {p, Under(p)}

\* Two normalized paths share no pattern.
LEMMA PatternsApart ==
  ASSUME NEW T, Slash \in T, NEW p \in Seq(T), NEW q \in Seq(T), Normal(p), Normal(q), p # q
  PROVE  PatternsOf(p) \cap PatternsOf(q) = {}
<1>1. Len(Root) = 1
  BY RootPath
<1>2. ASSUME NEW a \in Seq(T), NEW b \in Seq(T), Normal(a), Normal(b) PROVE a # Under(b)
  <2>1. Len(b) + 1 > 1 /\ Len(Under(b)) = Len(b) + 1 /\ Under(b)[Len(b) + 1] = Slash
    BY <1>2, UnderPath DEF Normal
  <2> QED BY <1>1, <1>2, <2>1 DEF Normal
<1>3. ASSUME Under(p) = Under(q) PROVE FALSE
  <2>1. Len(p) + 1 = Len(q) + 1 /\ Len(p) \in Int /\ Len(q) \in Int
    BY <1>3, UnderPath
  <2>2. Len(p) = Len(q)
    BY <2>1
  <2>3. \A i \in 1..Len(p) : p[i] = q[i]
    <3>1. /\ \A i \in 1..Len(p) : Under(p)[i] = p[i]
          /\ \A i \in 1..Len(q) : Under(q)[i] = q[i]
      BY UnderPath
    <3> QED BY <1>3, <2>2, <3>1
  <2> QED BY <2>2, <2>3, SameElements
<1> QED BY <1>2, <1>3 DEF PatternsOf

LEMMA HealthPath == Under(<<Slash, "health">>) = <<Slash, "health", Slash>>
<1> DEFINE T == {Slash, "health"}
           p == <<Slash, "health">>
           h == <<Slash, "health", Slash>>
<1>1. p \in Seq(T) /\ Len(p) = 2 /\ h \in Seq(T) /\ Len(h) = 3 /\ Slash \in T
  OBVIOUS
<1>2. p[1] = Slash /\ p[2] = "health" /\ h[1] = Slash /\ h[2] = "health" /\ h[3] = Slash
  OBVIOUS
<1> HIDE DEF p, h
<1>3. /\ Under(p) \in Seq(T) /\ Len(Under(p)) = 2 + 1 /\ Under(p)[2 + 1] = Slash
      /\ \A i \in 1..2 : Under(p)[i] = p[i]
  BY <1>1, UnderPath
<1>4. \A i \in 1..3 : Under(p)[i] = h[i]
  BY <1>2, <1>3
<1>5. Under(p) = h
  BY <1>1, <1>3, <1>4, SameElements
<1> QED BY <1>5 DEF p, h

\* Leoxy's own paths, the profiler's left out, are registered by nobody else.
LEMMA ReservedApart ==
  ASSUME NEW T, Slash \in T, NEW p \in Seq(T), Normal(p), ~IsReserved(p)
  PROVE  PatternsOf(p) \cap (Public \cup Internal) = {}
<1>1. \A x \in Public \cup Internal : x[Len(x)] # Slash
  <2>1. ASSUME NEW b, NEW x, x = <<Slash, b>> PROVE x[Len(x)] = b
    BY <2>1
  <2>2. ASSUME NEW b, NEW x, x = <<Slash, "health", Slash, b>> PROVE x[Len(x)] = b
    BY <2>2
  <2>3. Slash \notin {"ping", "live", "ready", "metrics", "leoxy"}
    BY DEF Slash
  <2> TAKE x \in Public \cup Internal
  <2>4. PICK b \in {"ping", "live", "ready", "metrics", "leoxy"} :
          x = <<Slash, b>> \/ x = <<Slash, "health", Slash, b>>
    BY DEF Public, Internal
  <2>5. x[Len(x)] = b
    <3>1. CASE x = <<Slash, b>>
      BY <2>1, <3>1, Zenon
    <3>2. CASE x = <<Slash, "health", Slash, b>>
      BY <2>2, <3>2, Zenon
    <3> QED BY <2>4, <3>1, <3>2
  <2> QED BY <2>3, <2>5
<1>2. \A x \in Public \cup Internal : IsReserved(x)
  <2>1. \A a, b, d, e : IsPrefix(<<a, b, d>>, <<a, b, d, e>>)
    BY DEF IsPrefix
  <2>2. <<Slash, "health">> \in Reserved /\ <<Slash, "ping">> \in Reserved
        /\ <<Slash, "metrics">> \in Reserved /\ <<Slash, "leoxy">> \in Reserved
    BY DEF Reserved
  <2> QED BY <2>1, <2>2, HealthPath DEF Public, Internal, IsReserved
<1>3. Len(Under(p)) = Len(p) + 1 /\ Under(p)[Len(p) + 1] = Slash
  BY UnderPath
<1>4. Under(p) \notin Public \cup Internal
  BY <1>1, <1>3
<1> QED BY <1>2, <1>4, RootPath DEF PatternsOf
-----------------------------------------------------------------------------
(* Clients *)

\* The address that counts is the last one no trusted proxy wrote down itself; what stands
\* before it makes no difference.
LEMMA ForgedIgnored ==
  ASSUME NEW q, QueryOK(q), NEW trusted, NEW x,
         \E i \in DOMAIN q.forwarded : q.forwarded[i] \notin trusted
  PROVE  ClientIP([q EXCEPT !.forwarded = <<x>> \o @], trusted) = ClientIP(q, trusted)
<1> DEFINE f == q.forwarded
           g == <<x>> \o f
           T == Range(f) \cup {x}
           Stops(s) == {i \in DOMAIN s : s[i] \notin trusted}
           Final(s) == CHOOSE i \in Stops(s) : \A j \in Stops(s) : j <= i
           q2 == [q EXCEPT !.forwarded = g]
<1>1. f \in Seq(T) /\ Len(f) \in Nat /\ DOMAIN f = 1..Len(f)
  BY DEF QueryOK, Listed
<1>2. /\ Len(g) = Len(f) + 1 /\ DOMAIN g = 1..Len(f) + 1
      /\ \A i \in DOMAIN f : g[i + 1] = f[i]
  <2>1. <<x>> \in Seq(T) /\ Len(<<x>>) = 1
    OBVIOUS
  <2> HIDE DEF T, f
  <2> QED BY <1>1, <2>1
<1>3. q2.peer = q.peer /\ q2.realIP = q.realIP /\ q2.forwarded = g
  BY DEF QueryOK
<1> HIDE DEF f, g, T, q2
<1>4. PICK m \in Stops(f) : \A j \in Stops(f) : j <= m
  <2>1. Stops(f) \in SUBSET (0..Len(f)) /\ Stops(f) # {}
    BY <1>1 DEF f
  <2> HIDE DEF Stops
  <2> QED BY <1>1, <2>1, Largest
<1>5. m + 1 \in Stops(g) /\ \A j \in Stops(g) : j <= m + 1
  <2>1. m \in DOMAIN f /\ m \in Int /\ m >= 1 /\ m <= Len(f) /\ f[m] \notin trusted
    BY <1>1
  <2>2. m + 1 \in Stops(g)
    BY <1>1, <1>2, <2>1
  <2>3. ASSUME NEW j \in Stops(g), j # 1 PROVE j <= m + 1
    <3>1. j \in 2..Len(f) + 1 /\ g[j] \notin trusted
      BY <1>1, <1>2, <2>3
    <3>2. j - 1 \in DOMAIN f /\ (j - 1) + 1 = j
      BY <1>1, <3>1
    <3>3. j - 1 \in Stops(f)
      BY <1>2, <3>1, <3>2
    <3> QED BY <1>4, <2>1, <3>1, <3>3
  <2> QED BY <2>1, <2>2, <2>3
<1>6. Final(f) = m
  <2>1. \A i \in Stops(f) : (\A j \in Stops(f) : j <= i) => i = m
    BY <1>1, <1>4
  <2> QED BY <1>4, <2>1
<1>7. Final(g) = m + 1
  <2>1. \A i \in Stops(g) : (\A j \in Stops(g) : j <= i) => i = m + 1
    BY <1>1, <1>2, <1>5
  <2> QED BY <1>5, <2>1
<1>8. g[m + 1] = f[m]
  BY <1>2, <1>4
<1>9. ClientIP(q, trusted) = IF q.peer \notin trusted THEN q.peer
                             ELSE IF f[Final(f)] = Bad THEN q.peer ELSE f[Final(f)]
  <2>1. Stops(f) # {}
    BY <1>4
  <2> QED BY <2>1 DEF ClientIP, f
<1>10. ClientIP(q2, trusted) = IF q2.peer \notin trusted THEN q2.peer
                               ELSE IF g[Final(g)] = Bad THEN q2.peer ELSE g[Final(g)]
  <2>1. Stops(g) # {}
    BY <1>5
  <2> QED BY <1>3, <2>1 DEF ClientIP
<1>11. ClientIP(q2, trusted) = ClientIP(q, trusted)
  BY <1>3, <1>6, <1>7, <1>8, <1>9, <1>10
<1> QED BY <1>11 DEF q2, g, f

LEMMA AccessPermits ==
  ASSUME NEW s, NEW q, NEW trusted, Access(s, q, ClientIP(q, trusted)) = "pass"
  PROVE  Permits(s, q, trusted)
BY DEF Access, Permits, Barred, Verified

LEMMA AccessAnswers ==
  ASSUME NEW s, NEW q, NEW ip
  PROVE  Access(s, q, ip) \in {"pass", "401", "403", "404", "405"}
BY DEF Access
-----------------------------------------------------------------------------
(* Configurations *)

Texts(c) == {Slash} \cup UNION {Range(c.upstream[i].path) : i \in DOMAIN c.upstream}

LEMMA PathOf ==
  ASSUME NEW c, ConfigOK(c), NEW i \in DOMAIN c.upstream
  PROVE  LET p == NormalizePath(c.upstream[i].path)
         IN  p \in Seq(Texts(c)) /\ Normal(p) /\ Patterns(c.upstream[i]) = PatternsOf(p)
<1>1. Slash \in Texts(c) /\ Range(c.upstream[i].path) \in SUBSET Texts(c)
  BY DEF Texts
<1>2. c.upstream[i].path \in Seq(Range(c.upstream[i].path))
  BY DEF ConfigOK, Spelled, Listed
<1>3. c.upstream[i].path \in Seq(Texts(c))
  BY <1>1, <1>2, Wider
<1> QED BY <1>1, <1>3, Normalizes DEF Patterns, PatternsOf

LEMMA PatternIs ==
  ASSUME NEW c, NEW r \in Registered(c)
  PROVE  \/ r[1] \in BuiltIn(c) /\ r = <<r[1], 0>>
         \/ \E i \in Routed(c) : r[1] \in Patterns(c.upstream[i]) /\ r = <<r[1], i>>
BY DEF Registered

LEMMA PProfPrefix ==
  ASSUME NEW x \in {Under(PProf), PProf \o <<Slash, "profile">>, PProf \o <<"profile">>}
  PROVE  IsPrefix(PProf, x)
<1> DEFINE T == {Slash, "debug", "pprof", "profile"}
<1>1. PProf \in Seq(T) /\ Root \in Seq(T) /\ <<"profile">> \in Seq(T) /\ <<Slash, "profile">> \in Seq(T)
  BY DEF PProf, Root
<1>2. ASSUME NEW s \in Seq(T), NEW t \in Seq(T) PROVE IsPrefix(s, s \o t)
  <2>1. Len(s) <= Len(s \o t) /\ s \o t \in Seq(T)
    OBVIOUS
  <2>2. SubSeq(s, 1, Len(s)) \in Seq(T) /\ SubSeq(s \o t, 1, Len(s)) \in Seq(T)
    BY <2>1
  <2>3. Len(SubSeq(s, 1, Len(s))) = Len(s) /\ Len(SubSeq(s \o t, 1, Len(s))) = Len(s)
    BY <2>1
  <2>4. \A i \in 1..Len(s) : SubSeq(s, 1, Len(s))[i] = SubSeq(s \o t, 1, Len(s))[i]
    BY <2>1
  <2> QED BY <2>1, <2>2, <2>3, <2>4, SameElements DEF IsPrefix
<1> HIDE DEF T
<1> QED BY <1>1, <1>2 DEF Under

\* What is left when Validate has accepted a configuration and its set-up fails all the same.
Excused(c) == \/ BadCA(c) \/ Bad \in c.global.keys
              \/ \E i \in Routed(c) : Bad \in c.upstream[i].security.keys
              \/ c.pprof /\ \E i \in Routed(c) : \E x \in Patterns(c.upstream[i]) : IsPrefix(PProf, x)

LEMMA PanicsExcused ==
  ASSUME NEW c, ConfigOK(c), Validate(c), Panics(c)
  PROVE  Excused(c)
<1>1. PICK r \in Registered(c), s \in Registered(c) : r # s /\ r[1] = s[1]
  BY DEF Panics
<1>2. Slash \in Texts(c)
  BY DEF Texts
<1>3. ASSUME NEW i \in Routed(c), NEW x \in BuiltIn(c), x \in Patterns(c.upstream[i])
      PROVE  Excused(c)
  <2>1. i \in DOMAIN c.upstream /\ ~IsReserved(NormalizePath(c.upstream[i].path))
    BY DEF Routed, Validate, ValidUpstream, IsHTTP, IsStream
  <2>2. x \notin Public \cup Internal
    BY <1>2, <1>3, <2>1, PathOf, ReservedApart
  <2>3. c.pprof /\ x \in {Under(PProf), PProf \o <<Slash, "profile">>}
    BY <2>2 DEF BuiltIn
  <2> QED BY <1>3, <2>3, PProfPrefix DEF Excused
<1>4. ASSUME NEW i \in Routed(c), NEW j \in Routed(c), i # j
      PROVE  Patterns(c.upstream[i]) \cap Patterns(c.upstream[j]) = {}
  <2>1. i \in DOMAIN c.upstream /\ j \in DOMAIN c.upstream /\ IsHTTP(c.upstream[i]) /\ IsHTTP(c.upstream[j])
    BY DEF Routed
  <2>2. NormalizePath(c.upstream[i].path) # NormalizePath(c.upstream[j].path)
    BY <1>4, <2>1 DEF Validate, Clash
  <2> QED BY <1>2, <2>1, <2>2, PathOf, PatternsApart
<1>5. CASE r[1] \in BuiltIn(c) /\ r = <<r[1], 0>>
  BY <1>1, <1>3, <1>5, PatternIs
<1>6. CASE \E i \in Routed(c) : r[1] \in Patterns(c.upstream[i]) /\ r = <<r[1], i>>
  BY <1>1, <1>3, <1>4, <1>6, PatternIs
<1> QED BY <1>5, <1>6, PatternIs

LEMMA FailsExcused ==
  ASSUME NEW c, ConfigOK(c), Validate(c), Fails(c)
  PROVE  Excused(c)
<1>1. ASSUME NEW i \in Routed(c), Refused(c.upstream[i].security) PROVE Excused(c)
  <2>1. ValidSecurity(c.upstream[i].security)
    BY DEF Routed, Validate, ValidUpstream
  <2> QED BY <1>1, <2>1 DEF Refused, ValidSecurity, Excused
<1>2. ASSUME Refused(c.global) PROVE Excused(c)
  BY <1>2 DEF Refused, Validate, ValidSecurity, Excused
<1> QED BY <1>1, <1>2, PanicsExcused DEF Fails, Excused
-----------------------------------------------------------------------------
(* Names *)

\* Slashes and names take turns, a slash first.
Alternating(p) == \A i \in DOMAIN p : p[i] = Slash <=> i % 2 = 1

LEMMA Alternates ==
  ASSUME NEW p, Spelled(p), Len(p) > 0, p[1] = Slash, ~Doubled(p)
  PROVE  Alternating(p)
<1> DEFINE U == {i \in DOMAIN p : ~(p[i] = Slash <=> i % 2 = 1)}
<1>1. DOMAIN p = 1..Len(p) /\ Len(p) \in Nat
  BY DEF Spelled, Listed
<1> SUFFICES ASSUME U # {} PROVE FALSE
  BY DEF Alternating
<1>2. PICK m \in U : \A j \in U : m <= j
  <2>1. U \in SUBSET Nat
    BY <1>1
  <2> HIDE DEF U
  <2> QED BY <2>1, Smallest
<1>3. m \in 2..Len(p)
  BY <1>1
<1>4. m - 1 \in DOMAIN p /\ m - 1 \notin U
  BY <1>1, <1>2, <1>3
<1>5. p[m - 1] = Slash <=> (m - 1) % 2 = 1
  BY <1>4
<1>6. p[m] = Slash <=> p[m - 1] # Slash
  BY <1>3 DEF Spelled, Doubled
<1>7. m % 2 = 1 <=> (m - 1) % 2 # 1
  BY <1>3
<1> QED BY <1>2, <1>5, <1>6, <1>7

LEMMA NamesAlternating ==
  ASSUME NEW s, NEW m \in Nat, NEW d \in {0, 1},
         \A i \in 1..m : s[i] # Slash <=> (i + d) % 2 = 0
  PROVE  Names(s, m) = (m + d) \div 2
<1> DEFINE h == (m + d) \div 2
           S == {i \in 1..m : s[i] # Slash}
           f == [k \in 1..h |-> 2 * k - d]
<1>1. h \in Nat /\ m + d >= 2 * h /\ m + d <= 2 * h + 1
  OBVIOUS
<1>2. ASSUME NEW k \in 1..h PROVE 2 * k - d \in S
  <2>1. 2 * k - d \in 1..m /\ (2 * k - d) + d = 2 * k
    BY <1>1
  <2>2. (2 * k) % 2 = 0
    OBVIOUS
  <2> QED BY <2>1, <2>2
<1>3. ASSUME NEW i \in S PROVE \E k \in 1..h : i = 2 * k - d
  <2>1. i \in 1..m /\ (i + d) % 2 = 0
    OBVIOUS
  <2>2. PICK k \in Int : i + d = 2 * k
    BY <2>1
  <2>3. k \in 1..h
    BY <1>1, <2>1, <2>2
  <2> QED BY <2>1, <2>2, <2>3
<1>4. f \in Bijection(1..h, S)
  <2>1. f \in [1..h -> S]
    BY <1>2
  <2>2. \A a, b \in 1..h : f[a] = f[b] => a = b
    BY <1>1
  <2>3. \A i \in S : \E k \in 1..h : f[k] = i
    BY <1>3
  <2> HIDE DEF f, S, h
  <2> QED BY <2>1, <2>2, <2>3 DEF Bijection, Injection, Surjection, IsInjective
<1>5. Cardinality(1..h) = h /\ IsFiniteSet(1..h)
  BY <1>1, FS_Interval
<1>6. Cardinality(S) = h
  <2> HIDE DEF f, S, h
  <2> QED BY <1>4, <1>5, FS_Bijection DEF ExistsBijection
<1> QED BY <1>6 DEF Names

LEMMA NoNames ==
  ASSUME NEW s, NEW m \in Nat, \A i \in 1..m : s[i] = Slash
  PROVE  Names(s, m) = 0
<1>1. {i \in 1..m : s[i] # Slash} = {}
  OBVIOUS
<1> QED BY <1>1, FS_EmptySet DEF Names

LEMMA PrefixIs ==
  ASSUME NEW S, NEW T, NEW s \in Seq(S), NEW t \in Seq(T)
  PROVE  IsPrefix(s, t) <=> Len(s) <= Len(t) /\ \A i \in 1..Len(s) : s[i] = t[i]
<1>1. ASSUME Len(s) <= Len(t) PROVE /\ Len(SubSeq(t, 1, Len(s))) = Len(s)
                                    /\ \A i \in 1..Len(s) : SubSeq(t, 1, Len(s))[i] = t[i]
                                    /\ SubSeq(t, 1, Len(s)) \in Seq(T)
  BY <1>1
<1>2. SubSeq(s, 1, Len(s)) = s
  OBVIOUS
<1>3. ASSUME Len(s) <= Len(t), \A i \in 1..Len(s) : s[i] = t[i] PROVE s = SubSeq(t, 1, Len(s))
  BY <1>1, <1>3
<1> QED BY <1>1, <1>2, <1>3 DEF IsPrefix

LEMMA RootBefore ==
  ASSUME NEW T, Slash \in T, NEW p \in Seq(T)
  PROVE  /\ Root \o p \in Seq(T) /\ Len(Root \o p) = Len(p) + 1 /\ (Root \o p)[1] = Slash
         /\ \A i \in DOMAIN p : (Root \o p)[i + 1] = p[i]
BY DEF Root

\* A path before it is normalized, u, and after, n: up to a slash before it, d, and the slashes
\* that were behind it, they are the same.
Shifted(u, n, d) ==
  /\ Len(n) >= 2 /\ Len(n) <= Len(u) + d /\ n[1] = Slash /\ n[Len(n)] # Slash
  /\ \A j \in 1 + d..Len(n) : n[j] = u[j - d]
  /\ \A i \in DOMAIN u : i + d > Len(n) => u[i] = Slash

LEMMA NormalizesTo ==
  ASSUME NEW T, Slash \in T, NEW u \in Seq(T)
  PROVE  \/ NormalizePath(u) = Root /\ \A i \in DOMAIN u : u[i] = Slash
         \/ NormalizePath(u) # Root /\ \E d \in {0, 1} : Shifted(u, NormalizePath(u), d)
<1> DEFINE d == IF u # <<>> /\ Head(u) = Slash THEN 0 ELSE 1
           r == IF u # <<>> /\ Head(u) = Slash THEN u ELSE Root \o u
<1>1. Root \in Seq(T) /\ Len(Root) = 1 /\ Root[1] = Slash
  BY RootPath
<1>2. /\ d \in {0, 1} /\ r \in Seq(T) /\ Len(r) = Len(u) + d /\ Len(r) > 0 /\ r[1] = Slash
      /\ \A i \in DOMAIN u : r[i + d] = u[i]
  <2>1. CASE u # <<>> /\ Head(u) = Slash
    BY <2>1
  <2>2. CASE ~(u # <<>> /\ Head(u) = Slash)
    <3>1. d = 1 /\ r = Root \o u
      BY <2>2
    <3>2. /\ Root \o u \in Seq(T) /\ Len(Root \o u) = Len(u) + 1 /\ (Root \o u)[1] = Slash
          /\ \A i \in DOMAIN u : (Root \o u)[i + 1] = u[i]
      BY RootBefore
    <3> HIDE DEF d, r
    <3> QED BY <3>1, <3>2
  <2> QED BY <2>1, <2>2
<1>3. NormalizePath(u) = IF TrimRight(r) = <<>> THEN Root ELSE TrimRight(r)
  BY DEF NormalizePath
<1> HIDE DEF d, r
<1>4. PICK n \in 0..Len(r) : /\ TrimRight(r) = SubSeq(r, 1, n) /\ (n = 0 \/ r[n] # Slash)
                             /\ \A i \in DOMAIN r : i > n => r[i] = Slash
  BY <1>2, TrimRightCuts
<1>5. ASSUME NEW i \in DOMAIN u, i + d > n PROVE u[i] = Slash
  <2>1. i + d \in DOMAIN r
    BY <1>2
  <2> QED BY <1>2, <1>4, <1>5, <2>1
<1>6. CASE n = 0
  <2>1. TrimRight(r) = <<>>
    BY <1>2, <1>4, <1>6
  <2>2. \A i \in DOMAIN u : i + d > n
    BY <1>2, <1>6
  <2> QED BY <1>3, <1>5, <2>1, <2>2
<1>7. CASE n > 0
  <2> DEFINE t == SubSeq(r, 1, n)
  <2>1. Len(t) = n /\ (\A j \in 1..n : t[j] = r[j]) /\ n \in 1..Len(r) /\ n # 1
    BY <1>2, <1>4, <1>7
  <2>2. NormalizePath(u) = t /\ t # Root
    <3>1. t = TrimRight(r) /\ TrimRight(r) # <<>>
      BY <1>4, <2>1
    <3>2. NormalizePath(u) = t
      BY <1>3, <3>1
    <3>3. Len(t) # 1
      BY <1>4, <2>1
    <3> QED BY <1>1, <3>2, <3>3
  <2>3. \A j \in 1 + d..n : t[j] = u[j - d]
    <3> TAKE j \in 1 + d..n
    <3>1. j - d \in DOMAIN u /\ (j - d) + d = j /\ j \in 1..n
      BY <1>2, <2>1
    <3> HIDE DEF t
    <3> QED BY <1>2, <2>1, <3>1
  <2>4. Shifted(u, t, d)
    <3> HIDE DEF t
    <3>1. Len(t) >= 2 /\ Len(t) <= Len(u) + d /\ t[1] = Slash /\ t[Len(t)] # Slash
      BY <1>2, <1>4, <1>7, <2>1
    <3> QED BY <1>2, <1>5, <2>1, <2>3, <3>1 DEF Shifted
  <2> QED BY <1>2, <2>2, <2>4
<1> QED BY <1>4, <1>6, <1>7

LEMMA ShiftedAlternates ==
  ASSUME NEW T, NEW u, Spelled(u), NEW n \in Seq(T), NEW d \in {0, 1}, Shifted(u, n, d), ~Doubled(n)
  PROVE  /\ Alternating(n) /\ Len(n) % 2 = 0
         /\ \A i \in DOMAIN u : /\ u[i] # Slash <=> i + d <= Len(n) /\ (i + d) % 2 = 0
                                /\ u[i] # Slash => Names(u, i) = (i + d) \div 2
         /\ Names(u, Len(u)) = Len(n) \div 2
<1>1. /\ Len(n) \in Nat /\ DOMAIN n = 1..Len(n) /\ Len(n) >= 2 /\ Len(n) <= Len(u) + d
      /\ n[1] = Slash /\ n[Len(n)] # Slash /\ Len(u) \in Nat /\ DOMAIN u = 1..Len(u)
  BY DEF Shifted, Spelled, Listed
<1>2. Alternating(n)
  <2>1. ASSUME NEW j \in 2..Len(n) PROVE n[j - 1] = Slash \/ n[j] = Slash
    <3>1. CASE j = 2
      BY <1>1, <3>1
    <3>2. CASE j > 2
      <4>1. /\ j \in 1 + d..Len(n) /\ j - 1 \in 1 + d..Len(n) /\ j - d \in 2..Len(u)
            /\ (j - d) - 1 = (j - 1) - d
        BY <1>1, <3>2
      <4>2. n[j] = u[j - d] /\ n[j - 1] = u[(j - d) - 1]
        BY <4>1 DEF Shifted
      <4> QED BY <4>1, <4>2 DEF Spelled
    <3> QED BY <3>1, <3>2
  <2>2. n \in Seq(Range(n))
    BY DEF Range
  <2>3. Spelled(n)
    BY <2>1, <2>2 DEF Spelled, Listed
  <2> QED BY <1>1, <2>3, Alternates
<1>3. Len(n) % 2 = 0
  BY <1>1, <1>2 DEF Alternating
<1>4. ASSUME NEW i \in DOMAIN u PROVE u[i] # Slash <=> i + d <= Len(n) /\ (i + d) % 2 = 0
  <2>1. CASE i + d > Len(n)
    BY <1>1, <2>1 DEF Shifted
  <2>2. CASE i + d <= Len(n)
    <3>1. i + d \in DOMAIN n /\ i + d \in 1 + d..Len(n) /\ (i + d) - d = i
      BY <1>1, <2>2
    <3>2. n[i + d] = u[i]
      BY <3>1 DEF Shifted
    <3>3. n[i + d] = Slash <=> (i + d) % 2 = 1
      BY <1>2, <3>1 DEF Alternating
    <3> QED BY <1>1, <2>2, <3>2, <3>3
  <2> QED BY <1>1, <2>1, <2>2
<1>5. ASSUME NEW m \in 0..Len(u), m + d <= Len(n) PROVE Names(u, m) = (m + d) \div 2
  <2>1. \A i \in 1..m : u[i] # Slash <=> (i + d) % 2 = 0
    BY <1>1, <1>4, <1>5
  <2> QED BY <1>1, <2>1, NamesAlternating
<1>6. Names(u, Len(u)) = Len(n) \div 2
  <2> DEFINE m == Len(n) - d
  <2>1. m \in 0..Len(u) /\ m + d = Len(n)
    BY <1>1
  <2>2. {i \in 1..Len(u) : u[i] # Slash} = {i \in 1..m : u[i] # Slash}
    BY <1>1, <1>4
  <2>3. Names(u, m) = Names(u, Len(u))
    BY <2>2 DEF Names
  <2> HIDE DEF m
  <2> QED BY <1>5, <2>1, <2>3
<1> QED BY <1>1, <1>2, <1>3, <1>4, <1>5, <1>6

\* A path that is clean starts with one of the configuration when it has the normalized one
\* as a prefix.
LEMMA StartsWithPrefix ==
  ASSUME NEW T, Slash \in T, NEW p, Listed(p), Alternating(p),
         NEW u \in Seq(T), Spelled(u), ~Doubled(NormalizePath(u)), NormalizePath(u) \in Seq(T)
  PROVE  StartsWith(p, u) <=> NormalizePath(u) = Root \/ IsPrefix(NormalizePath(u), p)
<1> DEFINE n == NormalizePath(u)
<1>1. CASE n = Root /\ \A i \in DOMAIN u : u[i] = Slash
  BY <1>1 DEF StartsWith
<1>2. ASSUME n # Root, NEW d \in {0, 1}, Shifted(u, n, d)
      PROVE  StartsWith(p, u) <=> IsPrefix(n, p)
  <2>1. /\ Alternating(n) /\ Len(n) % 2 = 0
        /\ \A i \in DOMAIN u : /\ u[i] # Slash <=> i + d <= Len(n) /\ (i + d) % 2 = 0
                               /\ u[i] # Slash => Names(u, i) = (i + d) \div 2
    <3> HIDE DEF n
    <3> QED BY <1>2, ShiftedAlternates DEF n
  <2>2. /\ Len(n) \in Nat /\ DOMAIN n = 1..Len(n) /\ Len(n) >= 2 /\ Len(n) <= Len(u) + d
        /\ n[Len(n)] # Slash /\ Len(u) \in Nat /\ DOMAIN u = 1..Len(u)
        /\ Len(p) \in Nat /\ DOMAIN p = 1..Len(p)
    BY <1>2 DEF Shifted, Listed
  <2>3. ASSUME NEW i \in DOMAIN u, u[i] # Slash PROVE i + d \in DOMAIN n /\ n[i + d] = u[i]
    <3>1. i + d \in 1 + d..Len(n) /\ (i + d) - d = i /\ i + d \in DOMAIN n
      <4>1. i + d <= Len(n) /\ i \in 1..Len(u)
        BY <2>1, <2>2, <2>3
      <4> HIDE DEF n
      <4> QED BY <2>2, <4>1
    <3> HIDE DEF n
    <3> QED BY <1>2, <3>1 DEF Shifted
  <2>4. ASSUME NEW k \in DOMAIN p, p[k] # Slash PROVE k % 2 = 0 /\ Names(p, k) = k \div 2
    <3>1. \A i \in 1..k : p[i] # Slash <=> (i + 0) % 2 = 0
      BY <2>2 DEF Alternating
    <3>2. Names(p, k) = (k + 0) \div 2
      BY <2>2, <3>1, NamesAlternating
    <3> QED BY <2>2, <2>4, <3>1, <3>2
  <2>5. IsPrefix(n, p) <=> Len(n) <= Len(p) /\ \A i \in 1..Len(n) : n[i] = p[i]
    <3> HIDE DEF n
    <3> QED BY PrefixIs DEF Listed, n
  <2> HIDE DEF n
  <2>6. ASSUME IsPrefix(n, p), NEW i \in DOMAIN u, u[i] # Slash
        PROVE  \E k \in DOMAIN p : p[k] = u[i] /\ Names(p, k) = Names(u, i)
    <3>1. i + d \in DOMAIN p /\ p[i + d] = u[i]
      BY <2>2, <2>3, <2>5, <2>6
    <3> QED BY <2>1, <2>4, <2>6, <3>1
  <2>7. ASSUME StartsWith(p, u), NEW i \in DOMAIN u, u[i] # Slash
        PROVE  i + d \in DOMAIN p /\ p[i + d] = u[i]
    <3>1. PICK k \in DOMAIN p : p[k] = u[i] /\ Names(p, k) = Names(u, i)
      BY <2>7 DEF StartsWith
    <3>2. k % 2 = 0 /\ (i + d) % 2 = 0 /\ k \div 2 = (i + d) \div 2
      BY <2>1, <2>4, <2>7, <3>1
    <3>3. k = i + d
      BY <2>2, <3>2
    <3> QED BY <3>1, <3>3
  <2>8. ASSUME StartsWith(p, u) PROVE IsPrefix(n, p)
    <3>1. ASSUME NEW j \in 1..Len(n), n[j] # Slash PROVE j \in DOMAIN p /\ p[j] = n[j]
      <4>1. j \in 1 + d..Len(n) /\ j - d \in DOMAIN u /\ (j - d) + d = j
        <5>1. j # 1
          BY <1>2, <3>1 DEF Shifted
        <5> QED BY <2>2, <5>1
      <4>2. n[j] = u[j - d]
        BY <1>2, <4>1 DEF Shifted
      <4> QED BY <2>7, <2>8, <3>1, <4>1, <4>2
    <3>2. Len(n) <= Len(p)
      BY <2>2, <3>1
    <3>3. ASSUME NEW j \in 1..Len(n), n[j] = Slash PROVE p[j] = Slash
      <4>1. j \in DOMAIN n /\ j \in DOMAIN p
        BY <2>2, <3>2
      <4>2. j % 2 = 1
        BY <2>1, <3>3, <4>1 DEF Alternating
      <4> QED BY <4>1, <4>2 DEF Alternating
    <3> QED BY <2>5, <3>1, <3>2, <3>3
  <2> QED BY <2>6, <2>8 DEF StartsWith
<1> QED BY <1>1, <1>2, NormalizesTo
-----------------------------------------------------------------------------
(* The route of a path *)

LEMMA UpstreamIndex ==
  ASSUME NEW c, ConfigOK(c), NEW i \in Routed(c)
  PROVE  i \in 1..Len(c.upstream) /\ i # 0 /\ Len(c.upstream) \in Nat
<1>1. c.upstream \in Seq(Range(c.upstream)) /\ i \in DOMAIN c.upstream
  BY DEF ConfigOK, Listed, Routed
<1> QED BY <1>1

\* What the pattern of an upstream serves has its normalized path as a prefix.
LEMMA PatternServes ==
  ASSUME NEW c, ConfigOK(c), NEW i \in DOMAIN c.upstream, NEW p, Listed(p),
         NEW x \in Patterns(c.upstream[i]), Serves(x, p)
  PROVE  LET n == NormalizePath(c.upstream[i].path)
         IN  /\ Len(p) > 0 /\ p[1] = Slash
             /\ \/ n = Root /\ Len(x) = 1
                \/ n # Root /\ IsPrefix(n, p) /\ Len(x) <= Len(n) + 1
<1> DEFINE n == NormalizePath(c.upstream[i].path)
           T == Texts(c)
<1>1. n \in Seq(T) /\ x \in PatternsOf(n) /\ Slash \in T
  BY PathOf DEF Texts
<1>2. n = Root \/ (n # Root /\ Len(n) >= 2 /\ n[1] = Slash)
  <2>1. Range(c.upstream[i].path) \in SUBSET T /\ c.upstream[i].path \in Seq(Range(c.upstream[i].path))
    BY DEF Texts, ConfigOK, Spelled, Listed
  <2>2. c.upstream[i].path \in Seq(T)
    BY <2>1, Wider
  <2> HIDE DEF T
  <2> QED BY <1>1, <2>2, NormalizesTo DEF Shifted
<1> HIDE DEF n, T
<1>3. /\ x \in Seq(T) /\ Len(x) >= 1 /\ x[1] = Slash
      /\ \/ n = Root /\ Len(x) = 1
         \/ n # Root /\ Len(n) <= Len(x) /\ Len(x) <= Len(n) + 1 /\ \A k \in 1..Len(n) : x[k] = n[k]
  <2>1. CASE n = Root
    BY <1>1, <2>1, RootPath DEF PatternsOf
  <2>2. CASE n # Root /\ x = n
    BY <1>1, <1>2, <2>2
  <2>3. CASE n # Root /\ x = Under(n)
    <3>1. /\ x \in Seq(T) /\ Len(x) = Len(n) + 1 /\ \A k \in 1..Len(n) : x[k] = n[k]
      BY <1>1, <2>3, UnderPath
    <3> QED BY <1>1, <1>2, <2>3, <3>1
  <2> QED BY <1>1, <2>1, <2>2, <2>3 DEF PatternsOf
<1>4. Len(x) <= Len(p) /\ \A k \in 1..Len(x) : x[k] = p[k]
  <2>1. CASE x = p
    BY <1>3, <2>1
  <2>2. CASE IsPrefix(x, p)
    BY <1>3, <2>2, PrefixIs DEF Listed
  <2> QED BY <2>1, <2>2 DEF Serves
<1>5. Len(p) > 0 /\ p[1] = Slash
  BY <1>3, <1>4 DEF Listed
<1>6. ASSUME n # Root PROVE IsPrefix(n, p)
  <2>1. Len(n) <= Len(p) /\ \A k \in 1..Len(n) : n[k] = p[k]
    BY <1>1, <1>3, <1>4, <1>6 DEF Listed
  <2> QED BY <1>1, <2>1, PrefixIs DEF Listed
<1> QED BY <1>3, <1>5, <1>6 DEF n

\* And every path under it has a pattern of the upstream that serves it.
LEMMA PrefixServed ==
  ASSUME NEW c, ConfigOK(c), NEW i \in DOMAIN c.upstream, NEW p, Listed(p), Alternating(p),
         NEW n, n = NormalizePath(c.upstream[i].path), n # Root, Len(n) % 2 = 0, IsPrefix(n, p)
  PROVE  \E x \in Patterns(c.upstream[i]) : Serves(x, p) /\ Len(n) <= Len(x)
<1> DEFINE T == Texts(c)
<1>1. n \in Seq(T) /\ Patterns(c.upstream[i]) = {n, Under(n)} /\ Slash \in T
  BY PathOf DEF Texts, PatternsOf
<1> HIDE DEF T
<1>2. Len(n) <= Len(p) /\ (\A k \in 1..Len(n) : n[k] = p[k]) /\ Len(n) \in Nat /\ Len(p) \in Nat
  BY <1>1, PrefixIs DEF Listed
<1>3. CASE Len(p) = Len(n)
  <2>1. n = p
    BY <1>1, <1>3, Prefix DEF Listed
  <2> QED BY <1>1, <1>2, <2>1 DEF Serves
<1>4. CASE Len(p) > Len(n)
  <2>1. /\ Under(n) \in Seq(T) /\ Len(Under(n)) = Len(n) + 1 /\ Under(n)[Len(n) + 1] = Slash
        /\ \A k \in 1..Len(n) : Under(n)[k] = n[k]
    BY <1>1, UnderPath
  <2>2. p[Len(n) + 1] = Slash
    <3>1. Len(n) + 1 \in DOMAIN p /\ (Len(n) + 1) % 2 = 1
      BY <1>2, <1>4 DEF Listed
    <3> QED BY <3>1 DEF Alternating
  <2>3. \A k \in 1..Len(Under(n)) : Under(n)[k] = p[k]
    BY <1>2, <2>1, <2>2
  <2>4. IsPrefix(Under(n), p)
    <3>1. Len(Under(n)) <= Len(p)
      BY <1>2, <1>4, <2>1
    <3> QED BY <2>1, <2>3, <3>1, PrefixIs DEF Listed
  <2>5. Last(Under(n)) = Slash
    BY <2>1 DEF Last
  <2> QED BY <1>1, <1>2, <2>1, <2>4, <2>5 DEF Serves
<1> QED BY <1>2, <1>3, <1>4

\* The mux compares lengths, and the most specific path is the longest.
LEMMA LongestIsMostSpecific ==
  ASSUME mux = Registered(config), ConfigOK(config), NEW p, Spelled(p), ~Redirects(p),
         NEW r \in Fitting(p), r[2] \in Routed(config)
  PROVE  LET path(j) == config.upstream[j].path
         IN  /\ r[2] \in Reached(config) /\ StartsWith(p, path(r[2]))
             /\ \A j \in Reached(config) : StartsWith(p, path(j)) =>
                  Names(path(j), Len(path(j))) <= Names(path(r[2]), Len(path(r[2])))
<1> DEFINE path(j) == config.upstream[j].path
           n(j) == NormalizePath(path(j))
           T == Texts(config)
           i == r[2]
           names(j) == Names(path(j), Len(path(j)))
<1>1. r \in mux /\ Serves(r[1], p) /\ \A s \in mux : Serves(s[1], p) => Len(s[1]) <= Len(r[1])
  BY DEF Fitting
<1>2. r[1] \in Patterns(config.upstream[i])
  <2>1. i # 0
    BY UpstreamIndex
  <2> HIDE DEF i
  <2> QED BY <1>1, <2>1, PatternIs DEF i
<1>3. Listed(p) /\ i \in DOMAIN config.upstream /\ Slash \in T
  BY DEF Spelled, Routed, Texts
<1>4. /\ Len(p) > 0 /\ p[1] = Slash
      /\ \/ n(i) = Root /\ Len(r[1]) = 1
         \/ n(i) # Root /\ IsPrefix(n(i), p) /\ Len(r[1]) <= Len(n(i)) + 1
  BY <1>1, <1>2, <1>3, PatternServes
<1>5. ~Doubled(p)
  BY DEF Redirects
<1>6. Alternating(p)
  BY <1>4, <1>5, Alternates
<1>7. ASSUME NEW j \in DOMAIN config.upstream
      PROVE  path(j) \in Seq(T) /\ Spelled(path(j)) /\ n(j) \in Seq(T)
  <2>1. Range(path(j)) \in SUBSET T /\ path(j) \in Seq(Range(path(j))) /\ Spelled(path(j))
    BY <1>7 DEF Texts, ConfigOK, Spelled, Listed
  <2>2. n(j) \in Seq(T)
    BY <1>7, PathOf
  <2> QED BY <2>1, <2>2, Wider
<1>8. i \in Reached(config)
  <2>1. CASE n(i) = Root
    <3>1. \A k \in 2..Len(Root) : FALSE
      <4>1. Len(Root) = 1
        BY <1>3, RootPath
      <4> QED BY <4>1
    <3> QED BY <2>1, <3>1 DEF Reached, Doubled
  <2>2. CASE IsPrefix(n(i), p)
    <3>1. Len(n(i)) <= Len(p) /\ (\A k \in 1..Len(n(i)) : n(i)[k] = p[k]) /\ Len(n(i)) \in Nat
      <4> HIDE DEF T
      <4> QED BY <1>3, <1>7, <2>2, PrefixIs DEF Listed
    <3>2. ASSUME NEW k \in 2..Len(n(i)) PROVE ~(n(i)[k - 1] = Slash /\ n(i)[k] = Slash)
      <4>1. k - 1 \in 1..Len(n(i)) /\ k \in 1..Len(n(i)) /\ k \in 2..Len(p)
        BY <1>3, <3>1 DEF Listed
      <4> QED BY <1>5, <3>1, <4>1 DEF Doubled
    <3> QED BY <3>2 DEF Reached, Doubled
  <2> QED BY <1>4, <2>1, <2>2
<1>9. ASSUME NEW j \in Reached(config)
      PROVE  /\ j \in DOMAIN config.upstream /\ ~Doubled(n(j))
             /\ StartsWith(p, path(j)) <=> n(j) = Root \/ IsPrefix(n(j), p)
             /\ \/ n(j) = Root /\ names(j) = 0
                \/ n(j) # Root /\ names(j) = Len(n(j)) \div 2 /\ Len(n(j)) % 2 = 0 /\ Len(n(j)) >= 2
  <2>1. j \in DOMAIN config.upstream /\ ~Doubled(n(j))
    BY DEF Reached, Routed
  <2>2. path(j) \in Seq(T) /\ Spelled(path(j)) /\ n(j) \in Seq(T)
    BY <1>7, <2>1
  <2> DEFINE u == path(j)
  <2> HIDE DEF T
  <2>3. StartsWith(p, path(j)) <=> n(j) = Root \/ IsPrefix(n(j), p)
    <3> HIDE DEF u
    <3> QED BY <1>3, <1>6, <2>1, <2>2, StartsWithPrefix DEF u
  <2>4. CASE n(j) = Root /\ \A k \in DOMAIN u : u[k] = Slash
    <3>1. Len(u) \in Nat /\ DOMAIN u = 1..Len(u)
      BY <2>2
    <3> QED BY <2>1, <2>3, <2>4, <3>1, NoNames
  <2>5. CASE n(j) # Root /\ \E d \in {0, 1} : Shifted(u, n(j), d)
    <3>1. PICK d \in {0, 1} : Shifted(u, n(j), d)
      BY <2>5
    <3>2. Len(n(j)) % 2 = 0 /\ names(j) = Len(n(j)) \div 2
      BY <2>1, <2>2, <3>1, ShiftedAlternates
    <3> QED BY <2>1, <2>3, <2>5, <3>1, <3>2 DEF Shifted
  <2> QED BY <1>3, <2>2, <2>4, <2>5, NormalizesTo
<1>10. ASSUME NEW j \in Reached(config), StartsWith(p, path(j)) PROVE names(j) <= names(i)
  <2>1. j \in DOMAIN config.upstream /\ j \in Routed(config)
    BY DEF Reached, Routed
  <2>2. Len(n(i)) \in Nat /\ Len(n(j)) \in Nat
    BY <1>3, <1>7, <2>1
  <2>3. CASE n(j) = Root
    BY <1>8, <1>9, <2>2, <2>3
  <2>4. CASE n(j) # Root
    <3>1. PICK x \in Patterns(config.upstream[j]) : Serves(x, p) /\ Len(n(j)) <= Len(x)
      BY <1>3, <1>6, <1>9, <1>10, <2>4, PrefixServed
    <3>2. <<x, j>> \in mux /\ <<x, j>>[1] = x
      BY <2>1 DEF Registered
    <3>3. Len(x) <= Len(r[1])
      BY <1>1, <3>1, <3>2
    <3>4. Len(n(j)) >= 2 /\ names(j) = Len(n(j)) \div 2 /\ Len(n(j)) % 2 = 0
      BY <1>9, <2>4
    <3>5. Len(r[1]) \in Nat /\ Len(x) \in Nat
      <4>1. \A k \in DOMAIN config.upstream : \A y \in Patterns(config.upstream[k]) : Len(y) \in Nat
        <5> TAKE k \in DOMAIN config.upstream
        <5> TAKE y \in Patterns(config.upstream[k])
        <5>1. n(k) \in Seq(T) /\ y \in PatternsOf(n(k))
          BY PathOf
        <5> HIDE DEF n, T
        <5>2. y \in {Root, n(k), Under(n(k))}
          BY <5>1 DEF PatternsOf
        <5>3. Root \in Seq(T) /\ Under(n(k)) \in Seq(T)
          BY <1>3, <5>1, RootPath, UnderPath
        <5>4. y \in Seq(T)
          BY <5>1, <5>2, <5>3
        <5> QED BY <5>4
      <4> QED BY <1>2, <1>3, <2>1, <4>1
    <3>6. Len(n(j)) <= Len(r[1])
      BY <2>2, <3>1, <3>3, <3>5
    <3>7. n(i) # Root /\ Len(n(j)) <= Len(n(i)) + 1
      <4> DEFINE a == Len(n(i))
                 b == Len(n(j))
                 l == Len(r[1])
      <4>1. a \in Nat /\ b \in Nat /\ l \in Nat /\ b >= 2 /\ b <= l
        BY <2>2, <3>4, <3>5, <3>6
      <4>2. (n(i) = Root /\ l = 1) \/ (n(i) # Root /\ l <= a + 1)
        BY <1>4
      <4> HIDE DEF a, b, l, n
      <4>3. n(i) # Root /\ b <= a + 1
        BY <4>1, <4>2
      <4> QED BY <4>3 DEF a, b
    <3>8. names(i) = Len(n(i)) \div 2 /\ Len(n(i)) % 2 = 0
      BY <1>8, <1>9, <3>7
    <3> HIDE DEF n, names
    <3> QED BY <2>2, <3>4, <3>7, <3>8
  <2> QED BY <2>3, <2>4
<1>11. StartsWith(p, path(i))
  BY <1>4, <1>8, <1>9
<1> QED BY <1>8, <1>10, <1>11
-----------------------------------------------------------------------------
(* The invariant *)

Places   == {"idle", "limit", "root", "mux", "rate", "access", "body"}
Verdicts == {None, "tls", "301", "400", "401", "403", "404", "405", "413", "429", "200",
             "internal", "upstream"}

Configured ==
  /\ phase \in {"load", "setup", "serving", "invalid", "fatal"}
  /\ ConfigOK(config)
  /\ phase \in {"setup", "serving", "fatal"} => Validate(config)
  /\ phase = "fatal" => Fails(config)
  /\ phase = "serving" => ~Fails(config)
  /\ mux = IF phase = "serving" THEN Registered(config) ELSE {}

Underway ==
  /\ at \in Places /\ verdict \in Verdicts /\ query \in Queries \cup {None}
  /\ query = None => at = "idle" /\ verdict = None
  /\ phase # "serving" => query = None /\ route = 0
  /\ at # "idle" => verdict = None
  /\ query # None => (Handshake(config, query) <=> verdict # "tls")
  /\ route \in Routed(config) \cup {0}

\* The request is at one of these handlers or has been forwarded.
Past(handlers) == at \in handlers \/ verdict = "upstream"

Permitted ==
  /\ Past({"mux", "rate", "access", "body"}) =>
       query.path \in Public \/ Permits(config.global, query, config.global.trusted)
  /\ Past({"rate", "access", "body"}) => route \in Routed(config) /\ query.path \notin Public
  /\ Past({"body"}) => Permits(config.upstream[route].security, query, TrustedBy(config, route))
  /\ verdict = "upstream" /\ BodyOf(config, route) > 0 => query.length <= BodyOf(config, route)

IInv == Configured /\ Underway /\ Permitted /\ PublicAnswered

\* Where the mux has sent a request that is at its route, or past it.
Chosen == Past({"rate", "access", "body"}) =>
            ~Redirects(query.path) /\ \E r \in Fitting(query.path) : r[2] = route

\* A request that is at a handler.
LEMMA AtHandler ==
  ASSUME IInv, at # "idle"
  PROVE  /\ query \in Queries /\ query # None /\ QueryOK(query) /\ phase = "serving"
         /\ verdict = None /\ verdict # "tls" /\ verdict # "upstream" /\ Handshake(config, query)
         /\ ConfigOK(config) /\ Validate(config) /\ ~Fails(config) /\ mux = Registered(config)
<1>1. /\ query \in Queries /\ query # None /\ phase = "serving" /\ verdict = None
      /\ verdict # "tls" /\ verdict # "upstream"
  BY GateAssumption DEF IInv, Underway
<1>2. Handshake(config, query)
  BY <1>1 DEF IInv, Underway
<1> QED BY <1>1, <1>2, GateAssumption DEF IInv, Configured

\* Leoxy's public paths are patterns of their own, and longer than any other that fits.
LEMMA PublicPath ==
  ASSUME IInv, at = "mux", query.path \in Public
  PROVE  Answer(query.path) = "200" /\ ~Redirects(query.path) /\ \A r \in Fitting(query.path) : r[2] = 0
<1> DEFINE p == query.path
<1>1. /\ mux = Registered(config) /\ ConfigOK(config) /\ ~Panics(config) /\ Slash \in Texts(config)
      /\ Listed(p)
  <2>1. Slash \in Texts(config)
    BY DEF Texts
  <2> QED BY <2>1, AtHandler DEF Fails, QueryOK, Spelled
<1>2. <<p, 0>> \in mux /\ p \in {r[1] : r \in mux}
  <2>1. <<p, 0>> \in mux /\ <<p, 0>>[1] = p
    BY <1>1 DEF Registered, BuiltIn
  <2> QED BY <2>1
<1>3. ~Redirects(p)
  <2>1. \A i \in 2..Len(p) : ~(p[i - 1] = Slash /\ p[i] = Slash)
    BY DEF Public, Slash
  <2> QED BY <1>2, <2>1 DEF Redirects, Doubled
<1>4. ASSUME NEW r \in Fitting(p) PROVE r = <<p, 0>>
  <2>1. r \in mux /\ Serves(r[1], p) /\ Len(p) <= Len(r[1])
    <3>1. Serves(p, p) /\ <<p, 0>>[1] = p
      BY DEF Serves
    <3> QED BY <1>2, <1>4, <3>1 DEF Fitting
  <2>2. r[1] = p
    <3>1. CASE IsPrefix(r[1], p)
      <4>1. \E T : r[1] \in Seq(T)
        <5>1. CASE r[1] \in BuiltIn(config)
          <6> DEFINE T == {Slash, "ping", "health", "live", "ready", "metrics", "leoxy",
                           "debug", "pprof", "profile"}
          <6>1. /\ PProf \in Seq(T) /\ Root \in Seq(T) /\ <<Slash, "profile">> \in Seq(T)
                /\ Public \cup Internal \subseteq Seq(T)
            BY DEF PProf, Root, Public, Internal
          <6>2. Under(PProf) \in Seq(T) /\ PProf \o <<Slash, "profile">> \in Seq(T)
            <7> HIDE DEF T
            <7> QED BY <6>1 DEF Under
          <6>3. r[1] \in Seq(T)
            <7> HIDE DEF T
            <7> QED BY <5>1, <6>1, <6>2 DEF BuiltIn
          <6> QED BY <6>3
        <5>2. CASE \E i \in Routed(config) : r[1] \in Patterns(config.upstream[i])
          <6>1. PICK i \in Routed(config) : r[1] \in Patterns(config.upstream[i])
            BY <5>2
          <6>2. i \in DOMAIN config.upstream
            BY DEF Routed
          <6> DEFINE n == NormalizePath(config.upstream[i].path)
          <6>3. n \in Seq(Texts(config)) /\ r[1] \in {Root, n, Under(n)}
            BY <1>1, <6>1, <6>2, PathOf DEF PatternsOf
          <6>4. r[1] \in Seq(Texts(config))
            <7> HIDE DEF n
            <7> QED BY <1>1, <6>3, RootPath, UnderPath
          <6> QED BY <6>4
        <5> QED BY <1>1, <2>1, <5>1, <5>2, PatternIs
      <4> QED BY <1>1, <2>1, <3>1, <4>1, Prefix DEF Listed
    <3> QED BY <2>1, <3>1 DEF Serves
  <2> QED BY <1>1, <1>2, <2>1, <2>2 DEF Panics
<1>5. p \notin Internal
  BY DEF Public, Internal
<1>6. Fitting(p) # {}
  <2>1. <<p, 0>>[1] = p /\ Serves(p, p)
    BY DEF Serves
  <2>2. ASSUME NEW s \in mux, Serves(s[1], p) PROVE Len(s[1]) <= Len(p)
    <3>1. CASE s[1] = p
      <4>1. Len(p) \in Nat
        BY <1>1 DEF Listed
      <4> QED BY <3>1, <4>1
    <3>2. CASE IsPrefix(s[1], p)
      BY <3>2 DEF IsPrefix
    <3> QED BY <2>2, <3>1, <3>2 DEF Serves
  <2> QED BY <1>2, <2>1, <2>2 DEF Fitting
<1> QED BY <1>3, <1>4, <1>5, <1>6 DEF Answer
-----------------------------------------------------------------------------
(* Every step keeps the invariant *)

LEMMA LoadStep ==
  ASSUME IInv, Load
  PROVE  IInv'
<1>1. /\ phase = "load" /\ config' = Loaded(config) /\ mux = {} /\ query = None /\ route = 0
      /\ at = "idle" /\ verdict = None /\ ConfigOK(config)
      /\ (phase' = "setup" /\ Validate(Loaded(config))) \/ phase' = "invalid"
      /\ UNCHANGED <<mux, at, route, query, verdict>>
  BY DEF Load, IInv, Configured, Underway
<1>2. ConfigOK(Loaded(config))
  <2>1. /\ \A x \in {"global", "upstream", "skip", "tls", "env", "pprof"} : x \in DOMAIN Loaded(config)
        /\ Loaded(config).upstream = config.upstream
    BY <1>1 DEF Loaded, ConfigOK
  <2>2. /\ {"rate", "keys", "maxBody"} \subseteq DOMAIN Loaded(config).global
        /\ Loaded(config).global.maxBody = config.global.maxBody
    BY <1>1 DEF Loaded, ConfigOK
  <2> QED BY <1>1, <2>1, <2>2 DEF ConfigOK
<1>3. Configured'
  BY <1>1, <1>2 DEF Configured
<1>4. Underway' /\ Permitted' /\ PublicAnswered'
  BY <1>1, GateAssumption DEF Underway, Permitted, PublicAnswered, Past, Places, Verdicts
<1> QED BY <1>3, <1>4 DEF IInv

LEMMA SetupStep ==
  ASSUME IInv, Setup
  PROVE  IInv'
<1>1. /\ phase = "setup" /\ mux = {} /\ query = None /\ route = 0 /\ at = "idle" /\ verdict = None
      /\ ConfigOK(config) /\ Validate(config)
      /\ \/ Fails(config) /\ phase' = "fatal" /\ mux' = mux
         \/ ~Fails(config) /\ phase' = "serving" /\ mux' = Registered(config)
      /\ UNCHANGED <<config, at, route, query, verdict>>
  BY DEF Setup, IInv, Configured, Underway
<1>2. Configured'
  BY <1>1 DEF Configured
<1>3. Underway' /\ Permitted' /\ PublicAnswered'
  BY <1>1, GateAssumption DEF Underway, Permitted, PublicAnswered, Past, Places, Verdicts
<1> QED BY <1>2, <1>3 DEF IInv

\* A request without a certificate the listener requires gets no further than the handshake.
LEMMA HandshakeFails ==
  ASSUME NEW c, NEW q, ~Handshake(c, q)
  PROVE  q.cert # "valid"
BY DEF Handshake

LEMMA ArriveStep ==
  ASSUME IInv, NEW q \in Queries, Arrive(q)
  PROVE  IInv'
<1>1. /\ phase = "serving" /\ query = None /\ query' = q /\ route' = 0 /\ q # None
      /\ \/ Handshake(config, q) /\ at' = "limit" /\ verdict' = None
         \/ ~Handshake(config, q) /\ at' = "idle" /\ verdict' = "tls"
      /\ UNCHANGED <<config, phase, mux>>
  BY GateAssumption DEF Arrive
<1>2. None # "tls" /\ None # "upstream"
  BY GateAssumption
<1>3. Configured'
  BY <1>1 DEF IInv, Configured
<1>4. Underway'
  BY <1>1, <1>2 DEF Underway, Places, Verdicts
<1>5. Permitted'
  BY <1>1, <1>2 DEF Permitted, Past
<1>6. PublicAnswered'
  BY <1>1, HandshakeFails DEF PublicAnswered
<1> QED BY <1>3, <1>4, <1>5, <1>6 DEF IInv

LEMMA LeaveStep ==
  ASSUME IInv, Leave
  PROVE  IInv'
<1>1. /\ query' = None /\ verdict' = None /\ at = "idle" /\ phase = "serving"
      /\ UNCHANGED <<config, phase, mux, at, route>>
  BY DEF Leave, IInv, Underway
<1>2. Configured'
  BY <1>1 DEF IInv, Configured
<1>3. None # "tls" /\ None # "upstream"
  BY GateAssumption
<1>4. Underway'
  BY <1>1, <1>3 DEF IInv, Underway, Places, Verdicts
<1>5. Permitted'
  BY <1>1, <1>3 DEF Permitted, Past
<1>6. PublicAnswered'
  BY <1>1 DEF PublicAnswered
<1> QED BY <1>2, <1>4, <1>5, <1>6 DEF IInv

\* From one handler to the next, which may be no further than what the request has passed.
LEMMA GoesStep ==
  ASSUME IInv, NEW from \in Places \ {"idle"}, NEW to \in Places \ {"idle"}, Goes(from, to),
         to \in {"mux", "rate", "access", "body"} =>
           query.path \in Public \/ Permits(config.global, query, config.global.trusted),
         to \in {"rate", "access", "body"} => route \in Routed(config) /\ query.path \notin Public,
         to = "body" => Permits(config.upstream[route].security, query, TrustedBy(config, route))
  PROVE  IInv'
<1>1. at = from /\ at' = to /\ UNCHANGED <<config, phase, mux, route, query, verdict>>
  BY DEF Goes
<1>2. /\ phase = "serving" /\ verdict = None /\ verdict # "tls" /\ verdict # "upstream"
      /\ query \in Queries /\ query # None /\ Handshake(config, query)
  BY <1>1, AtHandler
<1>3. Configured'
  BY <1>1 DEF IInv, Configured
<1>4. Underway'
  BY <1>1, <1>2 DEF IInv, Underway, Places
<1>5. Permitted'
  BY <1>1, <1>2 DEF Permitted, Past
<1>6. PublicAnswered'
  BY <1>1 DEF PublicAnswered
<1> QED BY <1>3, <1>4, <1>5, <1>6 DEF IInv

\* An answer, of which the public paths have only some.
LEMMA SaysStep ==
  ASSUME IInv, NEW from \in Places \ {"idle"}, NEW v \in Verdicts \ {"tls", "upstream"}, Says(from, v),
         query.path \in Public => v = "200" \/ (v = "429" /\ config.global.total > 0)
  PROVE  IInv'
<1>1. at = from /\ at' = "idle" /\ verdict' = v /\ UNCHANGED <<config, phase, mux, route, query>>
  BY DEF Says
<1>2. phase = "serving" /\ query \in Queries /\ query # None /\ Handshake(config, query)
  BY <1>1, AtHandler
<1>3. Configured'
  BY <1>1 DEF IInv, Configured
<1>4. Underway'
  BY <1>1, <1>2 DEF IInv, Underway, Places
<1>5. Permitted'
  BY <1>1 DEF Permitted, Past
<1>6. PublicAnswered'
  BY <1>1 DEF PublicAnswered
<1> QED BY <1>3, <1>4, <1>5, <1>6 DEF IInv

LEMMA GlobalLimitStep ==
  ASSUME IInv, GlobalLimit
  PROVE  IInv'
<1>1. CASE Goes("limit", "root")
  BY <1>1, GoesStep DEF Places
<1>2. CASE config.global.total > 0 /\ Says("limit", "429")
  BY <1>2, SaysStep DEF Places, Verdicts
<1> QED BY <1>1, <1>2 DEF GlobalLimit

LEMMA RootHandlerStep ==
  ASSUME IInv, RootHandler
  PROVE  IInv'
<1> DEFINE a == Access(config.global, query, ClientIP(query, config.global.trusted))
<1>1. CASE query.path \in Public
  <2>1. Goes("root", "mux")
    BY <1>1 DEF RootHandler
  <2> QED BY <1>1, <2>1, GoesStep DEF Places
<1>2. CASE query.path \notin Public /\ a = "pass"
  <2>1. Goes("root", "mux")
    BY <1>2 DEF RootHandler, Passes
  <2>2. Permits(config.global, query, config.global.trusted)
    BY <1>2, AccessPermits
  <2> QED BY <2>1, <2>2, GoesStep DEF Places
<1>3. CASE query.path \notin Public /\ a # "pass"
  <2>1. Says("root", a)
    BY <1>3 DEF RootHandler, Passes
  <2>2. a \in {"401", "403", "404", "405"}
    BY <1>3, AccessAnswers
  <2> HIDE DEF a
  <2>3. a \in Verdicts \ {"tls", "upstream"}
    BY <2>2 DEF Verdicts
  <2> QED BY <1>3, <2>1, <2>3, SaysStep DEF Places
<1> QED BY <1>1, <1>2, <1>3

LEMMA MuxStep ==
  ASSUME IInv, Mux
  PROVE  IInv'
<1>1. CASE Says("mux", Answer(query.path))
  <2>1. Answer(query.path) \in Verdicts \ {"tls", "upstream"}
    BY DEF Answer, Verdicts
  <2>2. at = "mux"
    BY <1>1 DEF Says
  <2>3. query.path \in Public => Answer(query.path) = "200"
    BY <2>2, PublicPath
  <2> QED BY <1>1, <2>1, <2>3, SaysStep DEF Places
<1>2. ASSUME at = "mux", NEW r \in Fitting(query.path), r[2] # 0, route' = r[2], at' = "rate",
             UNCHANGED <<config, phase, mux, query, verdict>>
      PROVE  IInv'
  <2>1. /\ mux = Registered(config) /\ query.path \notin Public /\ phase = "serving" /\ query # None
        /\ verdict = None /\ verdict # "tls" /\ verdict # "upstream"
    BY <1>2, AtHandler, PublicPath
  <2>2. r[2] \in Routed(config)
    <3>1. r \in Registered(config)
      BY <2>1 DEF Fitting
    <3> QED BY <1>2, <3>1, PatternIs
  <2>3. Configured'
    BY <1>2 DEF IInv, Configured
  <2>4. Underway'
    BY <1>2, <2>1, <2>2 DEF IInv, Underway, Places
  <2>5. Permitted'
    BY <1>2, <2>1, <2>2 DEF IInv, Permitted, Past
  <2>6. PublicAnswered'
    BY <1>2 DEF PublicAnswered
  <2> QED BY <2>3, <2>4, <2>5, <2>6 DEF IInv
<1> QED BY <1>1, <1>2 DEF Mux

LEMMA RateStep ==
  ASSUME IInv, Rate
  PROVE  IInv'
<1>1. at = "rate"
  BY DEF Rate, Goes
<1>2. /\ route \in Routed(config) /\ query.path \notin Public
      /\ Permits(config.global, query, config.global.trusted)
  BY <1>1 DEF IInv, Permitted, Past
<1>3. CASE Goes("rate", "access")
  BY <1>2, <1>3, GoesStep DEF Places
<1>4. CASE Says("rate", "429")
  BY <1>2, <1>4, SaysStep DEF Places, Verdicts
<1> QED BY <1>3, <1>4 DEF Rate

LEMMA RouteAccessStep ==
  ASSUME IInv, RouteAccess
  PROVE  IInv'
<1> DEFINE s == config.upstream[route].security
           a == Access(s, query, ClientIP(query, TrustedBy(config, route)))
<1>1. at = "access"
  BY DEF RouteAccess
<1>2. /\ route \in Routed(config) /\ query.path \notin Public
      /\ Permits(config.global, query, config.global.trusted)
  BY <1>1 DEF IInv, Permitted, Past
<1>3. CASE a = "pass"
  <2>1. Goes("access", "body")
    BY <1>3 DEF RouteAccess, Passes
  <2>2. Permits(s, query, TrustedBy(config, route))
    BY <1>3, AccessPermits
  <2> QED BY <1>2, <2>1, <2>2, GoesStep DEF Places
<1>4. CASE a # "pass"
  <2>1. Says("access", a)
    BY <1>4 DEF RouteAccess, Passes
  <2>2. a \in {"401", "403", "404", "405"}
    BY <1>4, AccessAnswers
  <2> HIDE DEF a
  <2>3. a \in Verdicts \ {"tls", "upstream"}
    BY <2>2 DEF Verdicts
  <2> QED BY <1>2, <2>1, <2>3, SaysStep DEF Places
<1> QED BY <1>3, <1>4

LEMMA BodyStep ==
  ASSUME IInv, Body
  PROVE  IInv'
<1> DEFINE limit == BodyOf(config, route)
<1>1. at = "body"
  BY DEF Body
<1>2. /\ route \in Routed(config) /\ query.path \notin Public
      /\ Permits(config.global, query, config.global.trusted)
      /\ Permits(config.upstream[route].security, query, TrustedBy(config, route))
  BY <1>1 DEF IInv, Permitted, Past
<1>3. CASE Says("body", "413") \/ Says("body", "400")
  BY <1>2, <1>3, SaysStep DEF Places, Verdicts
<1>4. ASSUME ~(limit > 0 /\ query.length > limit), Says("body", "upstream")
      PROVE  IInv'
  <2>1. at' = "idle" /\ verdict' = "upstream" /\ UNCHANGED <<config, phase, mux, route, query>>
    BY <1>4 DEF Says
  <2>2. /\ phase = "serving" /\ query \in Queries /\ query # None /\ Handshake(config, query)
        /\ ConfigOK(config) /\ QueryOK(query)
    BY <1>1, AtHandler
  <2>3. limit \in Int /\ query.length \in Int
    BY <1>2, <2>2 DEF BodyOf, ConfigOK, QueryOK, Routed
  <2>4. limit > 0 => query.length <= limit
    <3> HIDE DEF limit
    <3> QED BY <1>4, <2>3
  <2>5. Configured'
    BY <2>1 DEF IInv, Configured
  <2>6. Underway'
    BY <2>1, <2>2 DEF IInv, Underway, Places, Verdicts
  <2>7. Permitted'
    BY <1>2, <2>1, <2>4 DEF Permitted, Past
  <2>8. PublicAnswered'
    BY <1>2, <2>1 DEF PublicAnswered
  <2> QED BY <2>5, <2>6, <2>7, <2>8 DEF IInv
<1> QED BY <1>3, <1>4 DEF Body
\* The mux chooses, and nothing that follows changes what it chose.
LEMMA ChosenStep ==
  ASSUME IInv, Chosen, [Next]_vars
  PROVE  Chosen'
<1> SUFFICES ASSUME Past({"rate", "access", "body"})'
             PROVE  ~Redirects(query.path)' /\ (\E r \in Fitting(query.path) : r[2] = route)'
  BY DEF Chosen
<1>1. None # "upstream"
  BY GateAssumption
<1>2. ASSUME UNCHANGED <<mux, route, query>>, Past({"rate", "access", "body"})
      PROVE  ~Redirects(query.path)' /\ (\E r \in Fitting(query.path) : r[2] = route)'
  <2>1. ~Redirects(query.path) /\ \E r \in Fitting(query.path) : r[2] = route
    BY <1>2 DEF Chosen
  <2> QED BY <1>2, <2>1 DEF Redirects, Fitting, Serves, Doubled
<1>3. CASE Load \/ Setup
  BY <1>1, <1>3 DEF Load, Setup, IInv, Configured, Underway, Past
<1>4. CASE (\E q \in Queries : Arrive(q)) \/ Leave
  BY <1>1, <1>4 DEF Arrive, Leave, Past
<1>5. CASE GlobalLimit
  BY <1>1, <1>5 DEF GlobalLimit, Goes, Says, Past, IInv, Underway
<1>6. CASE RootHandler
  <2> DEFINE a == Access(config.global, query, ClientIP(query, config.global.trusted))
  <2>1. a # "upstream"
    BY AccessAnswers
  <2> HIDE DEF a
  <2>2. Goes("root", "mux") \/ Says("root", a)
    BY <1>6 DEF RootHandler, Passes, a
  <2> QED BY <1>1, <2>1, <2>2 DEF Goes, Says, Past, IInv, Underway
<1>7. CASE Mux
  <2>1. CASE Says("mux", Answer(query.path))
    BY <2>1 DEF Says, Past, Answer
  <2>2. CASE /\ ~Redirects(query.path) /\ UNCHANGED <<mux, query>>
             /\ \E r \in Fitting(query.path) : r[2] # 0 /\ route' = r[2]
    BY <2>2 DEF Redirects, Fitting, Serves, Doubled
  <2> QED BY <1>7, <2>1, <2>2 DEF Mux
<1>8. CASE Rate
  BY <1>2, <1>8 DEF Rate, Goes, Says, Past
<1>9. CASE RouteAccess
  <2>1. at = "access" /\ UNCHANGED <<mux, route, query>>
    BY <1>9 DEF RouteAccess, Passes, Goes, Says
  <2> QED BY <1>2, <2>1 DEF Past
<1>10. CASE Body
  <2>1. at = "body" /\ UNCHANGED <<mux, route, query>>
    BY <1>10 DEF Body, Says
  <2> QED BY <1>2, <2>1 DEF Past
<1>11. CASE UNCHANGED vars
  BY <1>2, <1>11 DEF vars, Past
<1> QED BY <1>3, <1>4, <1>5, <1>6, <1>7, <1>8, <1>9, <1>10, <1>11 DEF Next
-----------------------------------------------------------------------------
(* The theorems *)

THEOREM Inductive == Spec => []IInv
<1>1. Init => IInv
  <2> SUFFICES ASSUME Init PROVE IInv
    OBVIOUS
  <2>1. ConfigOK(config) /\ None # "upstream"
    BY GateAssumption DEF Init
  <2>2. Configured
    BY <2>1 DEF Init, Configured
  <2>3. Underway /\ Permitted /\ PublicAnswered
    BY <2>1 DEF Init, Underway, Permitted, PublicAnswered, Past, Places, Verdicts
  <2> QED BY <2>2, <2>3 DEF IInv
<1>2. IInv /\ [Next]_vars => IInv'
  <2> SUFFICES ASSUME IInv, [Next]_vars PROVE IInv'
    OBVIOUS
  <2>1. CASE Load
    BY <2>1, LoadStep
  <2>2. CASE Setup
    BY <2>2, SetupStep
  <2>3. CASE \E q \in Queries : Arrive(q)
    BY <2>3, ArriveStep
  <2>4. CASE Leave
    BY <2>4, LeaveStep
  <2>5. CASE GlobalLimit
    BY <2>5, GlobalLimitStep
  <2>6. CASE RootHandler
    BY <2>6, RootHandlerStep
  <2>7. CASE Mux
    BY <2>7, MuxStep
  <2>8. CASE Rate
    BY <2>8, RateStep
  <2>9. CASE RouteAccess
    BY <2>9, RouteAccessStep
  <2>10. CASE Body
    BY <2>10, BodyStep
  <2>11. CASE UNCHANGED vars
    BY <2>11 DEF vars, IInv, Configured, Underway, Permitted, Past, PublicAnswered
  <2> QED BY <2>1, <2>2, <2>3, <2>4, <2>5, <2>6, <2>7, <2>8, <2>9, <2>10, <2>11 DEF Next
<1> QED BY <1>1, <1>2, PTL DEF Spec

\* docs/configuration.md: "Leoxy validates the loaded config before opening listeners".  What
\* Validate accepts is set up, but for empty keys, paths of the profiler and a CA file that
\* holds no certificate: of any configurations, with any number of upstreams.
THEOREM AcceptedIsStarted == Spec => []AcceptedStarts
<1>1. ASSUME IInv PROVE AcceptedStarts
  <2> SUFFICES ASSUME phase = "fatal" PROVE Excused(config)
    BY DEF AcceptedStarts, Excused
  <2>1. ConfigOK(config) /\ Validate(config) /\ Fails(config)
    BY <1>1 DEF IInv, Configured
  <2> QED BY <2>1, FailsExcused
<1> QED BY <1>1, Inductive, PTL

\* What reaches an upstream has passed the policy of the server and that of its route, and
\* its body is no longer than the most specific limit: for any two policies and any request.
THEOREM BothPoliciesPassed == Spec => []ForwardedIsPermitted
<1>1. ASSUME IInv PROVE ForwardedIsPermitted
  <2> SUFFICES ASSUME verdict = "upstream" PROVE ForwardedIsPermitted
    BY DEF ForwardedIsPermitted
  <2> DEFINE L == <<config.upstream[route].security.maxBody, config.upstream[route].body,
                    config.global.maxBody>>
  <2>1. /\ Permits(config.global, query, config.global.trusted)
        /\ Permits(config.upstream[route].security, query, TrustedBy(config, route))
        /\ BodyOf(config, route) > 0 => query.length <= BodyOf(config, route)
    BY <1>1 DEF IInv, Permitted, Past
  <2>2. ASSUME NEW l \in 1..3, L[l] > 0 PROVE BodyOf(config, route) > 0
    <3>1. L[1] = config.upstream[route].security.maxBody /\ L[2] = config.upstream[route].body
          /\ L[3] = config.global.maxBody
      OBVIOUS
    <3>2. l = 1 \/ l = 2 \/ l = 3
      OBVIOUS
    <3> HIDE DEF L
    <3> QED BY <2>2, <3>1, <3>2 DEF BodyOf
  <2> HIDE DEF L
  <2>3. {l \in 1..3 : L[l] > 0} # {} => query.length <= BodyOf(config, route)
    BY <2>1, <2>2
  <2> QED BY <2>1, <2>3 DEF ForwardedIsPermitted, L
<1> QED BY <1>1, Inductive, PTL

\* Only what a trusted proxy wrote says who a client is: whatever anyone puts before it into
\* X-Forwarded-For, and whatever those who are no trusted proxies send, counts for nothing.
THEOREM OnlyProxiesNameClients == Spec => []HeadersFromTrustedOnly
<1>1. ASSUME IInv PROVE HeadersFromTrustedOnly
  <2>1. at # "idle" => QueryOK(query)
    BY <1>1, AtHandler
  <2>2. ASSUME NEW trusted, query.peer \notin trusted PROVE ClientIP(query, trusted) = query.peer
    BY <2>2 DEF ClientIP
  <2>3. ASSUME NEW trusted, QueryOK(query), NEW x,
               \E i \in DOMAIN query.forwarded : query.forwarded[i] \notin trusted
        PROVE  ClientIP([query EXCEPT !.forwarded = <<x>> \o @], trusted) = ClientIP(query, trusted)
    BY <2>3, ForgedIgnored
  <2> QED BY <2>1, <2>2, <2>3 DEF HeadersFromTrustedOnly
<1> QED BY <1>1, Inductive, PTL

\* Whoever holds a certificate of the client_ca, and whoever asks whether the server lives,
\* is let in, whatever the configuration: docs/security.md has both public paths "public by
\* design", and the listener asks for a certificate wherever one is required.
THEOREM NobodyTurnedAway == Spec => []LetIn
<1>1. ASSUME IInv PROVE LetIn
  <2>1. TypeOK
    <3>1. \A r, s \in mux : r[1] = s[1] => r = s
      <4>1. CASE phase = "serving"
        BY <1>1, <4>1 DEF IInv, Configured, Fails, Panics
      <4>2. CASE phase # "serving"
        BY <1>1, <4>2 DEF IInv, Configured
      <4> QED BY <4>1, <4>2
    <3>2. mux # {} <=> phase = "serving"
      <4>1. <<<<Slash, "ping">>, 0>> \in Registered(config)
        BY DEF Registered, BuiltIn, Public
      <4> QED BY <1>1, <4>1 DEF IInv, Configured
    <3>3. route \in 0..Len(config.upstream)
      <4>1. ConfigOK(config) /\ route \in Routed(config) \cup {0}
        BY <1>1 DEF IInv, Configured, Underway
      <4>2. Len(config.upstream) \in Nat
        BY <4>1 DEF ConfigOK, Listed
      <4> QED BY <4>1, <4>2, UpstreamIndex
    <3>4. at \in {"rate", "access", "body"} => route \in Routed(config)
      BY <1>1 DEF IInv, Permitted, Past
    <3> QED BY <1>1, <3>1, <3>2, <3>3, <3>4 DEF TypeOK, IInv, Configured, Underway, Places, Verdicts
  <2>2. CertificatesCount
    <3> SUFFICES ASSUME query # None, query.cert = "valid" PROVE CertificatesCount
      BY DEF CertificatesCount
    <3>1. phase = "serving" /\ Validate(config)
      BY <1>1 DEF IInv, Configured, Underway
    <3>2. verdict # "tls"
      BY <1>1, HandshakeFails DEF IInv, Underway
    <3>3. ASSUME NEW s \in {config.global} \cup {config.upstream[i].security : i \in Routed(config)}, s.mtls
          PROVE  Verified(config, query)
      <4>1. NeedsTLS(config)
        BY <3>3 DEF NeedsTLS, Routed
      <4>2. config.tls.cert /\ config.tls.ca # None
        BY <3>1, <4>1 DEF Validate
      <4> QED BY <4>2 DEF Verified, ClientAuth
    <3> QED BY <3>2, <3>3 DEF CertificatesCount
  <2> QED BY <1>1, <2>1, <2>2 DEF LetIn, IInv
<1> QED BY <1>1, Inductive, PTL

\* docs/configuration.md: "Leoxy forwards requests whose path starts with `/api' to this
\* upstream".  The mux, which compares patterns and takes the longest, sends a request to the
\* upstream whose path has the most names its own path starts with, however the paths of any
\* number of upstreams are written, but for those with an empty name within.
THEOREM RoutedByPath == Spec => []ForwardedByPath
<1>1. Init => Chosen
  BY GateAssumption DEF Init, Chosen, Past
<1>2. ASSUME IInv, Chosen PROVE ForwardedByPath
  <2> SUFFICES ASSUME verdict = "upstream" PROVE ForwardedByPath
    BY DEF ForwardedByPath
  <2>1. PICK r \in Fitting(query.path) : r[2] = route
    BY <1>2 DEF Chosen, Past
  <2>2. ~Redirects(query.path) /\ route \in Routed(config)
    BY <1>2 DEF Chosen, Past, IInv, Permitted
  <2>3. phase = "serving" /\ query \in Queries
    BY <1>2, GateAssumption DEF IInv, Underway
  <2>4. mux = Registered(config) /\ ConfigOK(config) /\ Spelled(query.path)
    BY <1>2, <2>3, GateAssumption DEF IInv, Configured, QueryOK
  <2> QED BY <2>1, <2>2, <2>4, LongestIsMostSpecific DEF ForwardedByPath
<1> QED BY <1>1, <1>2, ChosenStep, Inductive, PTL DEF Spec
=============================================================================

-------------------------------- MODULE Gate --------------------------------
(***************************************************************************)
(* From a configuration to the requests it lets through: file.Load and     *)
(* Validate, the handlers Run builds of it, and the way of one request     *)
(* through them.  The handlers share no state but the rate limiters, which *)
(* are modules of their own: here they let a request pass or not.          *)
(*                                                                         *)
(* A path is a sequence of names and slashes; a CIDR list is the set of    *)
(* addresses it contains, with Bad for an entry that does not parse.       *)
(* White space, letter case and dot segments are left out.  Of two numbers *)
(* that are refused alike, and used alike, one stands for both.            *)
(***************************************************************************)
EXTENDS Integers, SequencesExt

CONSTANTS Configs,  \* configurations: [global, upstream, skip, tls, env, pprof]
          Queries,  \* requests: [peer, forwarded, realIP, method, path, keys, jwt, cert, length, declared]
          Loopback, \* addresses
          Bad,      \* an entry, an address or a number that does not parse
          None      \* an absent header, address, setting or request

Slash == "/"

\* What the JSON decoder and net/http make sure of: every setting and every header is there,
\* if only with its zero value, lists are sequences, sizes are numbers.
Listed(s) == s \in Seq(Range(s))
\* Two names have a slash between them.
Spelled(p) == Listed(p) /\ \A i \in 2..Len(p) : p[i - 1] = Slash \/ p[i] = Slash
ConfigOK(c) ==
  /\ {"global", "upstream", "skip", "tls", "env", "pprof"} \subseteq DOMAIN c
  /\ {"rate", "keys", "maxBody"} \subseteq DOMAIN c.global /\ c.global.maxBody \in Int
  /\ Listed(c.upstream)
  /\ \A i \in DOMAIN c.upstream : LET u == c.upstream[i]
                                  IN  Spelled(u.path) /\ {u.body, u.security.maxBody} \subseteq Int
QueryOK(q) == /\ {"peer", "forwarded", "realIP"} \subseteq DOMAIN q
              /\ Spelled(q.path) /\ Listed(q.forwarded) /\ q.length \in Nat
ASSUME GateAssumption == /\ \A c \in Configs : ConfigOK(c)
                         /\ \A q \in Queries : QueryOK(q)
                         /\ None \notin Queries /\ None \notin {"tls", "upstream"}

VARIABLES config,
          phase,   \* of the program: "load", "setup", "serving", "invalid", "fatal"
          mux,     \* the patterns registered, each with the index of its upstream or 0
          at,      \* the handler the request is at, or "idle"
          route,   \* the index of the upstream the mux chose, 0 before
          query, verdict

vars == <<config, phase, mux, at, route, query, verdict>>
-----------------------------------------------------------------------------
(* Configuration *)

Root  == <<Slash>>
Under(p) == p \o Root

\* strings.TrimRight(p, "/")
TrimRight(p) == LET kept == {i \in DOMAIN p : p[i] # Slash}
                IN  SubSeq(p, 1, CHOOSE n \in 0..Len(p) :
                                   n \in kept \cup {0} /\ \A i \in kept : i <= n)
NormalizePath(p) ==
  LET rooted == IF p # <<>> /\ Head(p) = Slash THEN p ELSE Root \o p
  IN  IF TrimRight(rooted) = <<>> THEN Root ELSE TrimRight(rooted)

Reserved == { <<Slash, name>> : name \in {"ping", "health", "metrics", "leoxy"} }
IsReserved(p) == \E r \in Reserved : p = r \/ IsPrefix(Under(r), p)

\* Load: the environment comes before the file; empty keys of the environment are dropped.
Loaded(c) == LET g == [c.global EXCEPT !.rate = IF c.env.rate = None THEN @ ELSE c.env.rate,
                                       !.keys = IF c.env.keys = {} THEN @ ELSE c.env.keys \ {Bad}]
             IN  [c EXCEPT !.global = g]

ValidSecurity(s) == /\ s.rate >= 0 /\ s.total >= 0 /\ s.maxBody >= 0
                    /\ Bad \notin s.allow \cup s.deny \cup s.trusted \cup s.internal
                    /\ s.jwt # "short"

IsStream(u) == u.protocol \in {"tcp", "udp"}
IsHTTP(u)   == u.protocol = "http" \* and its other names
ValidUpstream(u) ==
  /\ ValidSecurity(u.security)
  /\ \/ IsStream(u) /\ u.listen # None /\ u.servers # {}
     \/ /\ IsHTTP(u)
        /\ " " \notin Range(NormalizePath(u.path)) /\ ~IsReserved(NormalizePath(u.path))

Clash(u, v) == \/ IsStream(u) /\ v.protocol = u.protocol /\ v.listen = u.listen
               \/ IsHTTP(u) /\ IsHTTP(v) /\ NormalizePath(u.path) = NormalizePath(v.path)

NeedsTLS(c) == c.global.mtls \/ \E i \in DOMAIN c.upstream :
                                  IsHTTP(c.upstream[i]) /\ c.upstream[i].security.mtls
ValidateEach(c) == \* mutant of Validate: upstreams are not compared
  /\ ValidSecurity(c.global)
  /\ \A p \in c.skip : NormalizePath(p) # Root
  /\ \A i \in DOMAIN c.upstream : ValidUpstream(c.upstream[i])
  /\ c.tls.cert = c.tls.key
  /\ NeedsTLS(c) => c.tls.cert /\ c.tls.ca # None
Validate(c) == /\ ValidSecurity(c.global)
               /\ \A p \in c.skip : NormalizePath(p) # Root
               /\ \A i \in DOMAIN c.upstream : ValidUpstream(c.upstream[i])
               /\ \A i, j \in DOMAIN c.upstream : i # j => ~Clash(c.upstream[i], c.upstream[j])
               /\ c.tls.cert = c.tls.key
               /\ NeedsTLS(c) => c.tls.cert /\ c.tls.ca # None

(* Setup *)

Public   == { <<Slash, "ping">>, <<Slash, "health", Slash, "live">> }
Internal == { <<Slash, "metrics">>, <<Slash, "leoxy">>, <<Slash, "health", Slash, "ready">> }
PProf    == <<Slash, "debug", Slash, "pprof">>
BuiltIn(c) == Public \cup Internal
              \cup (IF c.pprof THEN {Under(PProf), PProf \o <<Slash, "profile">>} ELSE {})

\* What makes accessControl fail: it looks at the keys, which Validate does not.
Refused(s) == \/ s.jwt = "short" \/ Bad \in s.keys
              \/ Bad \in s.allow \cup s.deny \cup s.trusted

PatternsBare(u) == {NormalizePath(u.path)} \* mutant of Patterns: the paths under it are left out
Patterns(u) == LET p == NormalizePath(u.path) IN IF p = Root THEN {Root} ELSE {p, Under(p)}
\* The handlers are built, upstream by upstream; one without a valid server is left out.
Routed(c)   == {i \in DOMAIN c.upstream : IsHTTP(c.upstream[i]) /\ c.upstream[i].servers \ {Bad} # {}}
Registered(c) == (BuiltIn(c) \X {0}) \cup UNION { Patterns(c.upstream[i]) \X {i} : i \in Routed(c) }
\* mux.Handle panics when a pattern is registered twice.
Panics(c) == \E r, s \in Registered(c) : r # s /\ r[1] = s[1]
BadCA(c) == c.tls.cert /\ c.tls.ca = Bad
FailsLate(c) == \* mutant of Fails: a pattern registered twice is not noticed
  BadCA(c) \/ Refused(c.global) \/ \E i \in Routed(c) : Refused(c.upstream[i].security)
Fails(c) == \/ \E i \in Routed(c) : Refused(c.upstream[i].security)
            \/ Refused(c.global) \/ Panics(c) \/ BadCA(c)

\* buildTLS
ClientAuthStrict(c) == \* mutant of ClientAuth: certificates are asked for only where all need one
  IF ~c.tls.cert THEN "plain"
  ELSE IF c.tls.ca # None /\ c.global.mtls THEN "require" ELSE "none"
ClientAuth(c) == IF ~c.tls.cert THEN "plain"
                 ELSE IF c.tls.ca = None THEN "none"
                 ELSE IF c.global.mtls THEN "require" ELSE "ifGiven"
Verified(c, q)  == ClientAuth(c) \in {"ifGiven", "require"} /\ q.cert = "valid"
Handshake(c, q) == CASE ClientAuth(c) = "require" -> q.cert = "valid"
                     [] ClientAuth(c) = "ifGiven" -> q.cert # "invalid"
                     [] OTHER -> TRUE
-----------------------------------------------------------------------------
(* The client of a request *)

ClientIPLeft(q, trusted) == \* mutant of ClientIP: the first address is believed
  IF q.peer \notin trusted \/ q.forwarded = <<>> \/ Head(q.forwarded) = Bad THEN q.peer
  ELSE Head(q.forwarded)
\* GetClientIP: X-Forwarded-For from the right, past the proxies that are trusted.
ClientIP(q, trusted) ==
  LET stops == {i \in DOMAIN q.forwarded : q.forwarded[i] \notin trusted}
      last  == CHOOSE i \in stops : \A j \in stops : j <= i
  IN  IF q.peer \notin trusted THEN q.peer
      ELSE IF stops # {} THEN IF q.forwarded[last] = Bad THEN q.peer ELSE q.forwarded[last]
      ELSE IF q.forwarded = <<>> /\ q.realIP \notin {None, Bad} THEN q.realIP
      ELSE q.peer

\* path.Clean, and path.Match with patterns in which "*" stands for a name
Once(p)  == FoldLeft(LAMBDA q, x : IF x = Slash /\ q # <<>> /\ Last(q) = Slash THEN q ELSE Append(q, x), <<>>, p)
Clean(p) == IF TrimRight(Once(p)) = <<>> THEN Root ELSE TrimRight(Once(p))
Matches(p, pattern) == \/ /\ Len(p) = Len(pattern)
                          /\ \A i \in DOMAIN p : pattern[i] = p[i] \/ (pattern[i] = "*" /\ p[i] # Slash)
                       \/ p = Root /\ pattern = <<Slash, "*">>

\* accessControl, check after check: what it answers, or "pass".
Authentic(s, q) == q.keys \cap s.keys # {} \/ (s.jwt # "none" /\ q.jwt = s.jwt)
Barred(s, ip)   == ip \in s.deny \/ (s.allow # {} /\ ip \notin s.allow)
NoMethod(s, q)  == q.method = "TRACE" \/ (s.methods # {} /\ q.method \notin s.methods)
AccessAnyKey(s, q, ip) == \* mutant of Access: a key is asked for only where there is no JWT
  IF Barred(s, ip) THEN "403"
  ELSE IF NoMethod(s, q) THEN "405"
  ELSE IF s.paths # {} /\ ~\E x \in s.paths : Matches(Clean(q.path), x) THEN "404"
  ELSE IF s.keys # {} /\ s.jwt = "none" /\ ~Authentic(s, q) THEN "401"
  ELSE IF s.mtls /\ ~Verified(config, q) THEN "401"
  ELSE "pass"
Access(s, q, ip) ==
  IF Barred(s, ip) THEN "403"
  ELSE IF NoMethod(s, q) THEN "405"
  ELSE IF s.paths # {} /\ ~\E x \in s.paths : Matches(Clean(q.path), x) THEN "404"
  ELSE IF (s.keys # {} \/ s.jwt # "none") /\ ~Authentic(s, q) THEN "401"
  ELSE IF s.mtls /\ ~Verified(config, q) THEN "401"
  ELSE "pass"

\* InternalOnly
FromInside(c, q) == /\ q.forwarded = <<>> /\ q.realIP = None
                    /\ q.peer \in Loopback \cup c.global.internal

\* What a route takes from the settings of its upstream, and what from the server's.
TrustedBy(c, i) == LET own == c.upstream[i].security.trusted
                   IN  IF own # {} THEN own ELSE c.global.trusted
Limited(c, i) == LET u == c.upstream[i]
                 IN  \/ u.security.rate > 0 \/ u.security.total > 0
                     \/ NormalizePath(u.path) # Root /\ c.global.rate > 0
BodyOf(c, i) == LET u == c.upstream[i]
                IN  IF u.security.maxBody > 0 THEN u.security.maxBody
                    ELSE IF u.body > 0 THEN u.body ELSE c.global.maxBody
-----------------------------------------------------------------------------
Goes(from, to) == at = from /\ at' = to /\ UNCHANGED <<config, phase, mux, route, query, verdict>>
Says(from, v)  == /\ at = from /\ at' = "idle" /\ verdict' = v
                  /\ UNCHANGED <<config, phase, mux, route, query>>
Passes(from, v, to) == IF v = "pass" THEN Goes(from, to) ELSE Says(from, v)

Init == /\ config \in Configs /\ phase = "load" /\ mux = {}
        /\ at = "idle" /\ route = 0 /\ query = None /\ verdict = None

Load == /\ phase = "load"
        /\ config' = Loaded(config)
        /\ phase' = IF config.env.rate # Bad /\ Validate(Loaded(config)) THEN "setup" ELSE "invalid"
        /\ UNCHANGED <<mux, at, route, query, verdict>>

Setup == /\ phase = "setup"
         /\ IF Fails(config) THEN phase' = "fatal" /\ UNCHANGED mux
            ELSE phase' = "serving" /\ mux' = Registered(config)
         /\ UNCHANGED <<config, at, route, query, verdict>>

Arrive(q) == /\ phase = "serving" /\ query = None
             /\ query' = q /\ route' = 0
             /\ IF Handshake(config, q) THEN at' = "limit" /\ verdict' = None
                ELSE at' = "idle" /\ verdict' = "tls"
             /\ UNCHANGED <<config, phase, mux>>

\* The client has its answer.
Leave == /\ query # None /\ at = "idle"
         /\ query' = None /\ verdict' = None
         /\ UNCHANGED <<config, phase, mux, at, route>>

GlobalLimit == Goes("limit", "root") \/ (config.global.total > 0 /\ Says("limit", "429"))

RootProtectsAll == \* mutant of RootHandler: no path is let through
  /\ at = "root"
  /\ Passes("root", Access(config.global, query, ClientIP(query, config.global.trusted)), "mux")
RootHandler ==
  /\ at = "root"
  /\ IF query.path \in Public THEN Goes("root", "mux")
     ELSE Passes("root", Access(config.global, query, ClientIP(query, config.global.trusted)), "mux")

\* The mux takes the longest pattern; a path with an empty name is redirected, and so is
\* one that only fits once it ends in a slash.
Serves(pattern, p) == p = pattern \/ (Last(pattern) = Slash /\ IsPrefix(pattern, p))
Fitting(p) == {r \in mux : Serves(r[1], p) /\ \A s \in mux : Serves(s[1], p) => Len(s[1]) <= Len(r[1])}
Doubled(p) == \E i \in 2..Len(p) : p[i - 1] = Slash /\ p[i] = Slash
Redirects(p) == \/ Doubled(p)
                \/ /\ Under(p) \in {r[1] : r \in mux} /\ p \notin {r[1] : r \in mux}
Answer(p) == IF Redirects(p) THEN "301"
             ELSE IF Fitting(p) = {} THEN "404"
             ELSE IF p \in Internal THEN IF FromInside(config, query) THEN "internal" ELSE "404"
             ELSE "200"
Mux == \/ /\ at = "mux"
          /\ \A r \in Fitting(query.path) : r[2] = 0 \/ Redirects(query.path)
          /\ Says("mux", Answer(query.path))
       \/ /\ at = "mux" /\ ~Redirects(query.path)
          /\ \E r \in Fitting(query.path) : r[2] # 0 /\ route' = r[2]
          /\ at' = "rate"
          /\ UNCHANGED <<config, phase, mux, query, verdict>>

Rate == Goes("rate", "access") \/ (at = "rate" /\ Limited(config, route) /\ Says("rate", "429"))

RouteAccess ==
  /\ at = "access"
  /\ Passes("access", Access(config.upstream[route].security, query, ClientIP(query, TrustedBy(config, route))), "body")

BodyLate == \* mutant of Body: a body of unknown length is not read before it is forwarded
  /\ at = "body"
  /\ LET limit == BodyOf(config, route)
     IN  IF limit > 0 /\ query.declared /\ query.length > limit THEN Says("body", "413")
         ELSE Says("body", "upstream")
\* A body that is too long is refused before anything goes to the upstream: by its
\* declared length, or once it was read; a body that cannot be read is refused also.
Body == /\ at = "body"
        /\ LET limit == BodyOf(config, route)
           IN  IF limit > 0 /\ query.length > limit THEN Says("body", "413")
               ELSE \/ Says("body", "upstream")
                    \/ limit > 0 /\ ~query.declared /\ Says("body", "400")

Next == \/ Load \/ Setup \/ (\E q \in Queries : Arrive(q)) \/ Leave
        \/ GlobalLimit \/ RootHandler \/ Mux \/ Rate \/ RouteAccess \/ Body
Spec == Init /\ [][Next]_vars
-----------------------------------------------------------------------------
TypeOK ==
  /\ phase \in {"load", "setup", "serving", "invalid", "fatal"}
  /\ \A r, s \in mux : r[1] = s[1] => r = s
  /\ mux # {} <=> phase = "serving"
  /\ query \in Queries \cup {None}
  /\ at \in {"idle", "limit", "root", "mux", "rate", "access", "body"}
  /\ route \in 0..Len(config.upstream)
  /\ at \in {"rate", "access", "body"} => route \in Routed(config)
  /\ verdict \in {None, "tls", "301", "400", "401", "403", "404", "405", "413", "429", "200",
                  "internal", "upstream"}

\* docs/configuration.md: "Leoxy validates the loaded config before opening listeners" -
\* what Validate accepts is set up without a panic or an error, but for the three things it
\* does not look at: empty keys, the profiler's paths and what the CA file holds.
AcceptedStarts ==
  phase = "fatal" => \/ BadCA(config) \/ Bad \in config.global.keys
                     \/ \E i \in Routed(config) : Bad \in config.upstream[i].security.keys
                     \/ config.pprof /\ \E i \in Routed(config) :
                                          \E x \in Patterns(config.upstream[i]) : IsPrefix(PProf, x)

\* docs/configuration.md: "Leoxy forwards requests whose path starts with `/api' to this
\* upstream" - to the one with the most specific of such paths, and by whole names: /apis
\* does not start with /api.  It holds however the path is written in the configuration, but
\* for an empty name within it: Validate accepts /api//v2, whose requests go to /api.
Names(p, n) == Cardinality({i \in 1..n : p[i] # Slash}) \* the names among the first n
StartsWith(p, u) == \A i \in DOMAIN u : u[i] # Slash =>
                      \E k \in DOMAIN p : p[k] = u[i] /\ Names(p, k) = Names(u, i)
Reached(c) == {j \in Routed(c) : ~Doubled(NormalizePath(c.upstream[j].path))}
ForwardedByPath ==
  verdict = "upstream" =>
    LET path(j) == config.upstream[j].path
    IN  /\ route \in Reached(config) /\ StartsWith(query.path, path(route))
        /\ \A j \in Reached(config) : StartsWith(query.path, path(j)) =>
             Names(path(j), Len(path(j))) <= Names(path(route), Len(path(route)))

\* What reaches an upstream has passed the policy of the server and that of its route, and
\* its body has the length the most specific of the three limits allows (security.md).
Permits(s, q, trusted) ==
  /\ ClientIP(q, trusted) \notin s.deny
  /\ s.allow # {} => ClientIP(q, trusted) \in s.allow
  /\ (s.keys # {} \/ s.jwt # "none") => Authentic(s, q)
  /\ s.mtls => q.cert = "valid"
ForwardedIsPermitted ==
  verdict = "upstream" =>
    /\ Permits(config.global, query, config.global.trusted)
    /\ Permits(config.upstream[route].security, query, TrustedBy(config, route))
    /\ LET limits == {l \in 1..3 : <<config.upstream[route].security.maxBody, config.upstream[route].body,
                                    config.global.maxBody>>[l] > 0}
       IN  limits # {} => query.length <= BodyOf(config, route)

\* What a client writes into X-Forwarded-For, to the left of the address that a trusted proxy
\* saw, makes no difference to who it is taken for; the header of anyone else makes none.
HeadersFromTrustedOnly ==
  at \in {"root", "access"} =>
    LET trusted == IF at = "root" THEN config.global.trusted ELSE TrustedBy(config, route)
    IN  /\ query.peer \notin trusted => ClientIP(query, trusted) = query.peer
        /\ (\E i \in DOMAIN query.forwarded : query.forwarded[i] \notin trusted) =>
             \A forged \in {query.peer, Bad} \cup Loopback :
               ClientIP([query EXCEPT !.forwarded = <<forged>> \o @], trusted) = ClientIP(query, trusted)

\* A certificate of the client_ca always counts: wherever one is required, the listener asks
\* for it, and a request that has one is never refused for want of it.
CertificatesCount ==
  query # None /\ query.cert = "valid" =>
    /\ verdict # "tls"
    /\ \A s \in {config.global} \cup {config.upstream[i].security : i \in Routed(config)} :
         s.mtls => Verified(config, query)

\* /ping and /health/live "are public by design" (security.md): only the limit of the whole
\* server, and a handshake without the certificate it requires, keep a request from them.
PublicAnswered ==
  query # None /\ at = "idle" /\ query.path \in Public =>
    \/ verdict = "200"
    \/ verdict = "429" /\ config.global.total > 0
    \/ verdict = "tls" /\ query.cert # "valid"

\* Nobody is turned away whom the configuration lets in: the holder of a certificate, and
\* whoever asks whether the server lives.
LetIn == TypeOK /\ CertificatesCount /\ PublicAnswered
=============================================================================

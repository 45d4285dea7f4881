------------------------------- MODULE MCGate -------------------------------
(***************************************************************************)
(* Gate over two families of configurations: the paths and protocols of    *)
(* two upstreams, with next to no policy; and the policies of one          *)
(* upstream and the server, with the path fixed.                           *)
(***************************************************************************)
EXTENDS Gate

CONSTANTS lo, proxy, alice, eve

Open == [allow |-> {}, deny |-> {}, trusted |-> {}, internal |-> {}, methods |-> {}, paths |-> {},
         keys |-> {}, jwt |-> "none", mtls |-> FALSE, rate |-> 0, total |-> 0, maxBody |-> 0]
Api    == <<"/", "api">>
Plain  == [cert |-> FALSE, key |-> FALSE, ca |-> None]
Env    == [rate |-> None, keys |-> {}]
Http(path, s) == [protocol |-> "http", path |-> path, listen |-> None, servers |-> {"url"},
                  security |-> s, body |-> 0]
Config(g, u) == [global |-> g, upstream |-> u, skip |-> {}, tls |-> Plain, env |-> Env,
                 pprof |-> FALSE]

Paths == { <<>>, <<"/">>, Api, <<"api">>, <<"/", "api", "/">>, <<"/", "api", "/", "v2">>,
           <<"/", "api", "/", "/", "v2">>, <<"/", "apis">>,
           <<"/", "health", "/", "live">>, <<"/", "debug", "/", "pprof">>, <<"/", " ">>, <<"/", "/">> }
PathConfigs ==
  { [Config(Open, <<Http(p, Open), Http(q, Open)>>) EXCEPT !.pprof = x] : p, q \in Paths, x \in BOOLEAN }
  \cup { Config(Open, <<Http(Api, Open), [Http(Api, Open) EXCEPT !.protocol = p, !.listen = l, !.servers = v]>>) :
           p \in {"tcp", "ftp"}, l \in {None, ":7001"}, v \in {{}, {"url"}} }
  \cup { Config(Open, <<[Http(Api, Open) EXCEPT !.servers = v], Http(<<"/">>, Open)>>) : v \in {{}, {Bad}} }
  \cup { [Config(Open, <<Http(Api, Open)>>) EXCEPT !.skip = {p}] : p \in {<<>>, Api} }

Policies == { Open,
              [Open EXCEPT !.trusted = {proxy}, !.deny = {eve}],
              [Open EXCEPT !.trusted = {proxy}, !.allow = {alice}, !.rate = 1],
              [Open EXCEPT !.keys = {"key"}, !.maxBody = 1],
              [Open EXCEPT !.keys = {"key"}, !.jwt = "long", !.paths = {<<"/", "*">>}],
              [Open EXCEPT !.jwt = "other", !.methods = {"GET"}],
              [Open EXCEPT !.mtls = TRUE],
              [Open EXCEPT !.internal = {alice}, !.total = 1, !.rate = 1],
              [Open EXCEPT !.keys = {Bad}], [Open EXCEPT !.jwt = "short"],
              [Open EXCEPT !.deny = {Bad}], [Open EXCEPT !.rate = -1] }
TLS == { Plain, [cert |-> TRUE, key |-> TRUE, ca |-> None], [cert |-> TRUE, key |-> TRUE, ca |-> "ca"],
         [cert |-> TRUE, key |-> TRUE, ca |-> Bad], [cert |-> TRUE, key |-> FALSE, ca |-> None] }
PolicyConfigs ==
  { [Config(g, <<Http(Api, s)>>) EXCEPT !.tls = t] : g, s \in Policies, t \in TLS }
  \cup { [Config([Open EXCEPT !.keys = {Bad}], <<Http(<<"/">>, Open), Http(Api, Open)>>)
            EXCEPT !.env = [rate |-> r, keys |-> k]] : r \in {None, 1, -1, Bad}, k \in {{}, {Bad, "key"}} }
MCConfigs == PathConfigs \cup PolicyConfigs

Query == [peer |-> alice, forwarded |-> <<>>, realIP |-> None, method |-> "GET", path |-> Api,
          keys |-> {}, jwt |-> "none", cert |-> "none", length |-> 0, declared |-> TRUE]
MCQueries ==
  { [Query EXCEPT !.path = p] : p \in { <<"/">>, <<"/", "api", "/", "v2", "/", "x">>, <<"/", "apis">>, <<"/", "ping">>,
      <<"/", "/", "ping">>, <<"/", "metrics">>, <<"/", "health", "/", "live">>, <<"/", "debug", "/", "pprof">>, <<"/", "debug", "/", "pprof", "/">> } }
  \cup { [Query EXCEPT !.peer = p, !.forwarded = f, !.realIP = r, !.path = x] :
           p \in {lo, proxy, alice, eve}, r \in {None, alice},
           f \in {<<>>, <<alice>>, <<alice, eve>>, <<alice, proxy>>, <<Bad, proxy>>, <<proxy>>},
           x \in {Api, <<"/", "metrics">>} }
  \cup { [Query EXCEPT !.keys = k, !.jwt = j, !.cert = c, !.method = w] :
           k \in {{}, {"key"}}, j \in {"none", "long", "other"}, c \in {"none", "valid", "invalid"}, w \in {"GET", "POST", "TRACE"} }
  \cup { [Query EXCEPT !.keys = {"key"}, !.length = n, !.declared = d] : n \in 0..2, d \in BOOLEAN }
=============================================================================

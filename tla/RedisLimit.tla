----------------------------- MODULE RedisLimit -----------------------------
(***************************************************************************)
(* The global rate limit kept in Redis (security/redis.rate.limit.go): a   *)
(* request takes a connection from the pool or dials one and sets it up,   *)
(* sends the script of the token bucket and waits a second for the reply.  *)
(* After any error it closes the connection, and falls back to the local   *)
(* limiter or answers 503.                                                 *)
(*                                                                         *)
(* Redis may be away or slow (~steady): it then may not answer in time,    *)
(* answer with an error, cut connections or restart without its data.  A   *)
(* command it has received it may carry out after its request gave up.     *)
(*                                                                         *)
(* Tokens are counted in units, Unit of them to a token.  The clock of     *)
(* Redis may be set back, no more than a tick behind `updated', and        *)
(* forward, which is a tick like any other.                                *)
(***************************************************************************)
EXTENDS Integers, Sequences, FiniteSets

CONSTANTS Requests, Conns, NoConn,
          PoolSize,  \* redis_connect, the capacity of the channel `pool'
          Setup,     \* what a new connection is sent first: of "AUTH" and "SELECT"
          FailOpen,  \* redis_fail_open
          Unit, Rate, Burst, \* units in a token, units a tick, tokens
          NoBucket   \* the key is not there

ASSUME RedisAssumption ==
  /\ IsFiniteSet(Conns) /\ NoConn \notin Conns /\ PoolSize \in Nat
  /\ Setup \in Seq({"AUTH", "SELECT"}) /\ FailOpen \in BOOLEAN
  /\ Unit \in Nat \ {0} /\ Rate \in Nat \ {0} /\ Burst \in Nat \ {0}
  /\ NoBucket \notin [tokens : 0..Burst * Unit, age : Int]

\* pc[r] is "idle" as well once r was refused.
VARIABLES pool,    \* the idle connections (a channel, whose order makes no difference)
          link,    \* link[c]: "none", "open", "cut" by Redis, or "left": closed here while
                   \* Redis still has a command of it
          wire,    \* wire[c]: commands sent and not carried out, as [of, cmd]
          replies, \* replies[c]: replies not read, as [of, cmd, says]
          pc, conn,
          todo,    \* todo[r]: what r has yet to send or to be answered on conn[r]
          steady,
          bucket,  \* the hash of the key, [tokens, age], the age being that of `updated'
          ideal,   \* history: the units of a reference bucket
          ticket   \* history: ticket[r], who charged r: "redis", "local" or nobody

requestVars == <<pc, conn, todo>>
linkVars    == <<pool, link, wire, replies>>
bucketVars  == <<bucket, ideal>>
vars == <<linkVars, requestVars, steady, bucketVars, ticket>>

Least(a, b) == IF a <= b THEN a ELSE b
Most(a, b)  == IF a >= b THEN a ELSE b
Full        == Burst * Unit

Init == /\ pool = {}
        /\ link = [c \in Conns |-> "none"]
        /\ wire = [c \in Conns |-> <<>>] /\ replies = [c \in Conns |-> <<>>]
        /\ pc = [r \in Requests |-> "idle"] /\ conn = [r \in Requests |-> NoConn]
        /\ todo = [r \in Requests |-> <<>>]
        /\ steady = TRUE
        /\ bucket = NoBucket /\ ideal = Full
        /\ ticket = [r \in Requests |-> "nobody"]
-----------------------------------------------------------------------------
(* A request *)

Goes(r, from, to) == pc[r] \in from /\ pc' = [pc EXCEPT ![r] = to]

Holds(r, c, commands) == /\ conn' = [conn EXCEPT ![r] = c]
                         /\ todo' = [todo EXCEPT ![r] = commands]

\* A request comes, and takes a connection from the pool or goes to dial one.
Acquire(r) == /\ \/ /\ Goes(r, {"idle", "passed"}, "send")
                    /\ \E c \in pool : pool' = pool \ {c} /\ Holds(r, c, <<"EVAL">>)
                 \/ /\ Goes(r, {"idle", "passed"}, "dial") /\ pool = {}
                    /\ UNCHANGED <<pool, conn, todo>>
              /\ ticket' = [ticket EXCEPT ![r] = "nobody"]
              /\ UNCHANGED <<link, wire, replies, steady, bucketVars>>

\* What is sent on a new connection, each once the one before was answered.
Conversation == Append(Setup, "EVAL")

Dial(r) == /\ \/ /\ Goes(r, {"dial"}, "send")
                 /\ \E c \in Conns : /\ link[c] = "none"
                                     /\ link' = [link EXCEPT ![c] = "open"]
                                     /\ Holds(r, c, Conversation)
              \/ /\ Goes(r, {"dial"}, "failed") /\ ~steady
                 /\ UNCHANGED <<link, conn, todo>>
           /\ UNCHANGED <<pool, wire, replies, steady, bucketVars, ticket>>

\* conn.Close(): unread replies are gone, commands on their way are not.
Close(c) == /\ link' = [link EXCEPT ![c] = IF wire[c] = <<>> THEN "none" ELSE "left"]
            /\ replies' = [replies EXCEPT ![c] = <<>>]

FailKeepsConn(r) == \* mutant of Fail: the connection goes back to the pool
  /\ pc' = [pc EXCEPT ![r] = "failed"] /\ Holds(r, NoConn, <<>>)
  /\ pool' = pool \cup {conn[r]}
  /\ UNCHANGED <<link, wire, replies>>
Fail(r) == /\ pc' = [pc EXCEPT ![r] = "failed"] /\ Holds(r, NoConn, <<>>)
           /\ Close(conn[r])
           /\ UNCHANGED <<pool, wire>>

\* A write to a connection that was cut may go unnoticed.
Send(r) == /\ pc[r] = "send"
           /\ \/ /\ Goes(r, {"send"}, "await")
                 /\ wire' = IF link[conn[r]] = "cut" THEN wire
                            ELSE [wire EXCEPT ![conn[r]] =
                                    Append(@, [of |-> r, cmd |-> Head(todo[r])])]
                 /\ UNCHANGED <<pool, link, replies, conn, todo>>
              \/ link[conn[r]] = "cut" /\ Fail(r)
           /\ UNCHANGED <<steady, bucketVars, ticket>>

ReturnLeaks(c) == \* mutant of Return: a connection the pool has no room for stays open
  /\ pool' = IF Cardinality(pool) < PoolSize THEN pool \cup {c} ELSE pool
  /\ UNCHANGED link
Return(c) == \/ /\ Cardinality(pool) < PoolSize
                /\ pool' = pool \cup {c} /\ UNCHANGED link
             \/ /\ Cardinality(pool) >= PoolSize
                /\ link' = [link EXCEPT ![c] = "none"] /\ UNCHANGED pool

\* The next reply on the connection, whoever it is for: an error, the go-ahead for the
\* next command, or the verdict of the script.
Receive(r) ==
  LET c == conn[r]
  IN  /\ pc[r] = "await" /\ replies[c] # <<>>
      /\ \/ Head(replies[c]).says = "error" /\ Fail(r)
         \/ /\ Head(replies[c]).says # "error"
            /\ replies' = [replies EXCEPT ![c] = Tail(@)]
            /\ \/ /\ Len(todo[r]) > 1
                  /\ Goes(r, {"await"}, "send") /\ Holds(r, c, Tail(todo[r]))
                  /\ UNCHANGED <<pool, link>>
               \/ /\ Len(todo[r]) = 1
                  /\ Goes(r, {"await"},
                          IF Head(replies[c]).says = "allowed" THEN "passed" ELSE "idle")
                  /\ Holds(r, NoConn, <<>>)
                  /\ Return(c)
            /\ UNCHANGED wire
      /\ UNCHANGED <<steady, bucketVars, ticket>>

GiveUpNever(r) == \* mutant of GiveUp: the read has no deadline
  /\ pc[r] = "await" /\ link[conn[r]] = "cut" /\ Fail(r)
  /\ UNCHANGED <<steady, bucketVars, ticket>>
\* The deadline, or the end of a connection that was cut.
GiveUp(r) == /\ pc[r] = "await"
             /\ \/ ~steady
                \/ link[conn[r]] = "cut" /\ replies[conn[r]] = <<>>
             /\ Fail(r)
             /\ UNCHANGED <<steady, bucketVars, ticket>>

FallbackPasses(r) == \* mutant of Fallback: the request passes as it is
  /\ pc[r] = "failed"
  /\ IF FailOpen THEN Goes(r, {"failed"}, "passed") ELSE Goes(r, {"failed"}, "idle")
  /\ UNCHANGED <<linkVars, conn, todo, steady, bucketVars, ticket>>
\* The local limiter, which is RateLimit, lets the request pass or not.
Fallback(r) == /\ \/ /\ FailOpen /\ Goes(r, {"failed"}, "passed")
                     /\ ticket' = [ticket EXCEPT ![r] = "local"]
                  \/ Goes(r, {"failed"}, "idle") /\ UNCHANGED ticket
               /\ UNCHANGED <<linkVars, conn, todo, steady, bucketVars>>
-----------------------------------------------------------------------------
(* Redis *)

\* EXPIRE, in ticks: twice the time it takes to fill the bucket.
TtlTooShort == Most(1, (Full + 2 * Rate - 1) \div (2 * Rate)) \* mutant: half that time
Ttl == Most(1, (2 * Full + Rate - 1) \div Rate)
Aged(n) == IF bucket = NoBucket \/ bucket.age + n >= Ttl THEN NoBucket
           ELSE [bucket EXCEPT !.age = @ + n]

Tokens == IF bucket = NoBucket THEN Full
          ELSE Least(Full, bucket.tokens + Most(0, bucket.age) * Rate)

\* The script, for the request r that waits for it, or that is gone.
Evaluate(r, waits) ==
  /\ bucket' = [tokens |-> IF Tokens >= Unit THEN Tokens - Unit ELSE Tokens, age |-> 0]
  /\ ideal' = IF Tokens >= Unit THEN ideal - Unit ELSE ideal
  /\ ticket' = IF Tokens >= Unit /\ waits THEN [ticket EXCEPT ![r] = "redis"] ELSE ticket

Execute(c) ==
  LET command == Head(wire[c])
      Answers(says) == replies' = IF link[c] = "left" THEN replies
                                  ELSE [replies EXCEPT ![c] = Append(@,
                                    [of |-> command.of, cmd |-> command.cmd, says |-> says])]
  IN  /\ wire[c] # <<>>
      /\ wire' = [wire EXCEPT ![c] = Tail(@)]
      /\ link' = IF link[c] = "left" /\ Len(wire[c]) = 1 THEN [link EXCEPT ![c] = "none"]
                 ELSE link
      /\ \/ /\ command.cmd = "EVAL" /\ Evaluate(command.of, link[c] # "left")
            /\ Answers(IF Tokens >= Unit THEN "allowed" ELSE "refused")
         \/ /\ command.cmd # "EVAL" /\ Answers("ok")
            /\ UNCHANGED <<bucket, ideal, ticket>>
         \/ /\ ~steady /\ Answers("error")
            /\ UNCHANGED <<bucket, ideal, ticket>>
      /\ UNCHANGED <<pool, requestVars, steady>>

\* What Redis answered before it cut a connection may still be read.
Cuts(S) == /\ link' = [c \in Conns |-> IF c \notin S THEN link[c]
                                       ELSE IF link[c] = "open" THEN "cut"
                                       ELSE IF link[c] = "left" THEN "none" ELSE link[c]]
           /\ wire' = [c \in Conns |-> IF c \in S THEN <<>> ELSE wire[c]]
           /\ UNCHANGED replies

\* Redis, or the network, cuts a connection.
Cut(c) == /\ ~steady /\ link[c] \in {"open", "left"}
          /\ Cuts({c})
          /\ UNCHANGED <<pool, requestVars, steady, bucketVars, ticket>>

\* It starts again without its data: every bucket is full.
Restart == /\ ~steady
           /\ Cuts(Conns)
           /\ bucket' = NoBucket /\ ideal' = Full
           /\ UNCHANGED <<pool, requestVars, steady, ticket>>

Weather == /\ steady' = ~steady
           /\ UNCHANGED <<linkVars, requestVars, bucketVars, ticket>>

\* The reference bucket is refilled by every tick the clock of Redis goes forward.
Tick == /\ bucket' = Aged(1) /\ ideal' = Least(Full, ideal + Rate)
        /\ UNCHANGED <<linkVars, requestVars, steady, ticket>>
SetBack == /\ bucket # NoBucket /\ bucket.age >= 0
           /\ bucket' = Aged(-1)
           /\ UNCHANGED <<linkVars, requestVars, steady, ideal, ticket>>
-----------------------------------------------------------------------------
Request(r) == \/ Acquire(r) \/ Dial(r) \/ Send(r) \/ Receive(r) \/ GiveUp(r) \/ Fallback(r)
Next == \/ \E r \in Requests : Request(r)
        \/ \E c \in Conns : Execute(c) \/ Cut(c)
        \/ Restart \/ Weather \/ Tick \/ SetBack

Spec == Init /\ [][Next]_vars

(***************************************************************************)
(* Fairness.  A request goes on when it can; dials and reads end by their  *)
(* deadline, of whatever kind the weather is.  Redis, when steady, carries *)
(* out what it is sent, and forgets the connections that were closed.      *)
(***************************************************************************)
FairSpec == /\ Spec
            /\ \A r \in Requests : /\ WF_vars(Send(r) \/ Fallback(r))
                                   /\ SF_vars(Dial(r)) /\ SF_vars(Receive(r) \/ GiveUp(r))
            /\ \A c \in Conns : WF_vars(steady /\ Execute(c))
-----------------------------------------------------------------------------
TypeOK ==
  /\ pool \subseteq Conns
  /\ link \in [Conns -> {"none", "open", "cut", "left"}]
  /\ \A c \in Conns : /\ Len(wire[c]) <= 1 /\ Len(replies[c]) <= 1
                      /\ link[c] = "none" => wire[c] = <<>> /\ replies[c] = <<>>
  /\ pc \in [Requests -> {"idle", "dial", "send", "await", "failed", "passed"}]
  /\ conn \in [Requests -> Conns \cup {NoConn}]
  /\ \A r \in Requests : conn[r] # NoConn <=> pc[r] \in {"send", "await"}
  /\ bucket # NoBucket => bucket \in [tokens : 0..Full, age : -1..Ttl - 1]

Open == {c \in Conns : link[c] \in {"open", "cut"}}
Held == {conn[r] : r \in Requests} \ {NoConn}

\* Every open socket is idle in the pool or in the hands of one request, never both, and
\* the pool does not outgrow its capacity: no error path leaks a socket or shares one.
ConnsAccounted ==
  /\ pool \cup Held = Open /\ pool \cap Held = {}
  /\ \A r, s \in Requests : conn[r] = conn[s] /\ conn[r] # NoConn => r = s
  /\ Cardinality(pool) <= PoolSize

\* A request can only read the answer to what it asked: a connection in the pool owes
\* nobody anything, and one in use owes its request alone, the command it waits for.
\* A late answer is never taken for that of the next request.
AnswersMatch ==
  /\ \A c \in pool : wire[c] = <<>> /\ replies[c] = <<>>
  /\ \A r \in Requests :
       /\ pc[r] = "send" => wire[conn[r]] = <<>> /\ replies[conn[r]] = <<>>
       /\ pc[r] = "await" =>
            /\ Len(wire[conn[r]]) + Len(replies[conn[r]]) <= 1
            /\ \A i \in DOMAIN wire[conn[r]] :
                 wire[conn[r]][i].of = r /\ wire[conn[r]][i].cmd = Head(todo[r])
            /\ \A i \in DOMAIN replies[conn[r]] :
                 replies[conn[r]][i].of = r /\ replies[conn[r]][i].cmd = Head(todo[r])

\* No connection is lost, shared or out of step, whatever fails and whenever.
PoolSound == TypeOK /\ ConnsAccounted /\ AnswersMatch

\* Redis never says `allowed' more often than the burst and the ticks of its clock allow:
\* not by the key that expires, nor by its clock going back and forth, nor by commands
\* whose requests are gone.
NeverOverAdmits == ideal >= 0

\* A request that is let in was charged to a bucket, that of Redis or, when this failed
\* it, the local one.
AdmittedWasCharged == \A r \in Requests : pc[r] = "passed" => ticket[r] # "nobody"

\* What is admitted is charged, once at least, and no more is admitted than charges allow.
AdmissionsCharged == NeverOverAdmits /\ AdmittedWasCharged

\* Every request gets its verdict, whatever Redis does.
EveryRequestAnswered == \A r \in Requests : pc[r] \in {"dial", "send"} ~> pc[r] \in {"idle", "passed"}

\* README: fail-open is for "when Redis is unavailable" - after Redis is steady for good,
\* the connections it cut meanwhile fail a few requests and are gone, and in the end none
\* fails any more.
Recovers == <>[]steady => <>[](\A r \in Requests : pc[r] # "failed")
=============================================================================

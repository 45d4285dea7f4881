------------------------------ MODULE TcpProxy ------------------------------
(***************************************************************************)
(* One TCP upstream (TCP/tcp_index.go).  Its goroutines are                *)
(*                                                                         *)
(*   the acceptor  RunTCPProxy: accepts a connection, asks the policy for  *)
(*                 a slot, then the semaphore `connections' for a permit;  *)
(*   one handler   per connection admitted: dials the upstream, starts the *)
(*                 two copies and waits for both;                          *)
(*   two copies    per connection, one each way, which share the deadlines *)
(*                 of the two sockets;                                     *)
(*   the closer    closes the listener on shutdown.                        *)
(*                                                                         *)
(* A handler gives back its permit and its slot in two steps, the permit   *)
(* first.  Nothing waits for the handlers on shutdown.  Only reads move    *)
(* the deadlines, so time is, for each socket, that since a read last did. *)
(***************************************************************************)
EXTENDS StreamPolicy, FiniteSets

CONSTANTS Conns,          \* identities of connections, used again once closed
          MaxConnections, \* maxTCPConnections
          IdleTimeout,    \* tcpIdleTimeout, in units of model time
          NoConn, NoHost

ASSUME TcpAssumption == /\ IsFiniteSet(Conns) /\ NoConn \notin Conns /\ NoHost \notin Hosts
                        /\ MaxConnections \in Nat \ {0} /\ IdleTimeout \in Nat \ {0}

Ways  == {"up", "down"}         \* client to upstream, and back
Ends  == {"client", "upstream"} \* the two sockets of a connection

VARIABLES done, listener,
          permits,   \* the length of the channel `connections'
          apc, conn, \* the acceptor: where it is, the connection it has in hand
          host,      \* host[x]: the remote host of x, NoHost when x is no connection
          handler,   \* handler[x]: where the handler of x is
          copying,   \* copying[x][w]: where the copy of x in direction w is
          open,      \* open[x]: which sockets of x are open
          unread,    \* unread[x][e]: time since a read last moved the deadline of e
          quiet,     \* history: quiet[x], time since either copy of x last read data
          cpc        \* where the closer is

vars == <<active, done, listener, permits, apc, conn, host, handler, copying, open,
          unread, quiet, cpc>>
acceptorVars == <<apc, conn, listener>>
copyVars     == <<copying, unread, quiet>>

AllWays(v) == [w \in Ways |-> v]
AllEnds(v) == [e \in Ends |-> v]
TimedOut(x) == \E e \in Ends : unread[x][e] >= IdleTimeout

Init == /\ InitPolicy
        /\ done = FALSE /\ listener = TRUE
        /\ permits = 0
        /\ apc = "accept" /\ conn = NoConn
        /\ host = [x \in Conns |-> NoHost]
        /\ handler = [x \in Conns |-> "none"]
        /\ copying = [x \in Conns |-> AllWays("none")]
        /\ open = [x \in Conns |-> {}]
        /\ unread = [x \in Conns |-> AllEnds(0)]
        /\ quiet = [x \in Conns |-> 0]
        /\ cpc = "wait"
-----------------------------------------------------------------------------
(* The acceptor *)

Accept(x, h) == /\ apc = "accept" /\ listener
                /\ host[x] = NoHost
                /\ apc' = "acquire" /\ conn' = x
                /\ host' = [host EXCEPT ![x] = h]
                /\ open' = [open EXCEPT ![x] = {"client"}]
                /\ UNCHANGED <<active, done, listener, permits, handler, copyVars, cpc>>

\* Mutant: a closed listener is taken for a failure that may pass.
AcceptRetries == /\ apc = "accept"
                 /\ apc' = "sleep"
                 /\ UNCHANGED <<active, done, listener, permits, conn, host, handler, copyVars,
                                open, cpc>>

\* Accept fails: a closed listener, or any error once done is closed, ends the proxy;
\* after another error it sleeps, 5 ms to 1 s, and tries again.
AcceptFails == /\ apc = "accept"
               /\ \/ /\ ~listener \/ done
                     /\ apc' = "stopped" /\ listener' = FALSE
                  \/ /\ listener /\ ~done
                     /\ apc' = "sleep" /\ UNCHANGED listener
               /\ UNCHANGED <<active, done, permits, conn, host, handler, copyVars, open, cpc>>

Slept == /\ apc = "sleep" /\ apc' = "accept"
         /\ UNCHANGED <<active, done, listener, permits, conn, host, handler, copyVars, open, cpc>>

AcquireSlot == /\ apc = "acquire"
               /\ \/ /\ Acquire(host[conn]) /\ apc' = "admit"
                  \/ /\ ~CanAcquire(host[conn]) /\ apc' = "refuse" /\ UNCHANGED active
               /\ UNCHANGED <<done, listener, permits, conn, host, handler, copyVars, open, cpc>>

\* Mutant: the slot is kept when there is no permit.
AdmitKeepsSlot ==
  /\ apc = "admit"
  /\ \/ /\ permits < MaxConnections
        /\ permits' = permits + 1
        /\ handler' = [handler EXCEPT ![conn] = "dial"]
        /\ apc' = "accept" /\ conn' = NoConn
        /\ UNCHANGED active
     \/ /\ permits = MaxConnections
        /\ apc' = "refuse"
        /\ UNCHANGED <<active, permits, handler, conn>>
  /\ UNCHANGED <<done, listener, host, copyVars, open, cpc>>

\* Mutant: one permit too many.
AdmitOneMore ==
  /\ apc = "admit"
  /\ \/ /\ permits <= MaxConnections
        /\ permits' = permits + 1
        /\ handler' = [handler EXCEPT ![conn] = "dial"]
        /\ apc' = "accept" /\ conn' = NoConn
        /\ UNCHANGED active
     \/ /\ permits > MaxConnections
        /\ Release(host[conn])
        /\ apc' = "refuse"
        /\ UNCHANGED <<permits, handler, conn>>
  /\ UNCHANGED <<done, listener, host, copyVars, open, cpc>>

\* The select on the semaphore: a permit and a handler, or the slot goes back.
Admit ==
  /\ apc = "admit"
  /\ \/ /\ permits < MaxConnections
        /\ permits' = permits + 1
        /\ handler' = [handler EXCEPT ![conn] = "dial"]
        /\ apc' = "accept" /\ conn' = NoConn
        /\ UNCHANGED active
     \/ /\ permits = MaxConnections
        /\ Release(host[conn])
        /\ apc' = "refuse"
        /\ UNCHANGED <<permits, handler, conn>>
  /\ UNCHANGED <<done, listener, host, copyVars, open, cpc>>

Refuse == /\ apc = "refuse"
          /\ apc' = "accept" /\ conn' = NoConn
          /\ host' = [host EXCEPT ![conn] = NoHost]
          /\ open' = [open EXCEPT ![conn] = {}]
          /\ UNCHANGED <<active, done, listener, permits, handler, copyVars, cpc>>
-----------------------------------------------------------------------------
(* The handler of connection x, deferred calls included *)

HandlerGoes(x, from, to) == handler[x] = from /\ handler' = [handler EXCEPT ![x] = to]

Dial(x) ==
  /\ \/ /\ HandlerGoes(x, "dial", "wait")
        /\ open' = [open EXCEPT ![x] = @ \cup {"upstream"}]
        /\ copying' = [copying EXCEPT ![x] = AllWays("read")]
     \/ /\ HandlerGoes(x, "dial", "closeClient")
        /\ UNCHANGED <<open, copying>>
  /\ UNCHANGED <<active, done, permits, acceptorVars, host, unread, quiet, cpc>>

\* Mutant: the first copy to end lets the handler go on.
WaitForOne(x) == /\ HandlerGoes(x, "wait", "closeUpstream")
                 /\ \E w \in Ways : copying[x][w] = "ended"
                 /\ UNCHANGED <<active, done, permits, acceptorVars, host, copyVars, open, cpc>>

Wait(x) == /\ HandlerGoes(x, "wait", "closeUpstream")
           /\ copying[x] = AllWays("ended")
           /\ UNCHANGED <<active, done, permits, acceptorVars, host, copyVars, open, cpc>>

CloseUpstream(x) == /\ HandlerGoes(x, "closeUpstream", "closeClient")
                    /\ open' = [open EXCEPT ![x] = @ \ {"upstream"}]
                    /\ UNCHANGED <<active, done, permits, acceptorVars, host, copyVars, cpc>>

CloseClient(x) == /\ HandlerGoes(x, "closeClient", "permit")
                  /\ open' = [open EXCEPT ![x] = @ \ {"client"}]
                  /\ UNCHANGED <<active, done, permits, acceptorVars, host, copyVars, cpc>>

FreePermit(x) == /\ HandlerGoes(x, "permit", "slot")
                 /\ permits' = permits - 1
                 /\ UNCHANGED <<active, done, acceptorVars, host, copyVars, open, cpc>>

FreeSlot(x) == /\ HandlerGoes(x, "slot", "none")
               /\ Release(host[x])
               /\ host' = [host EXCEPT ![x] = NoHost]
               /\ copying' = [copying EXCEPT ![x] = AllWays("none")]
               /\ unread' = [unread EXCEPT ![x] = AllEnds(0)]
               /\ quiet' = [quiet EXCEPT ![x] = 0]
               /\ UNCHANGED <<done, permits, acceptorVars, open, cpc>>
-----------------------------------------------------------------------------
(* The copy of connection x in direction w.  A read of a TCP socket returns data *)
(* or an error, never both; once the deadline of the socket it is at has passed, *)
(* a read or a write can only fail.                                              *)

Source(w)      == IF w = "up" THEN "client" ELSE "upstream"
Destination(w) == IF w = "up" THEN "upstream" ELSE "client"
Late(x, e)     == unread[x][e] >= IdleTimeout

CopyGoes(x, w, from, to) == /\ copying[x][w] = from
                            /\ copying' = [copying EXCEPT ![x][w] = to]

\* Mutant: a read extends only the deadline of the socket it read from.
ExtendOwn(x, w) == unread' = [unread EXCEPT ![x][Source(w)] = 0]

\* client.SetDeadline and upstream.SetDeadline.
Extend(x, w) == unread' = [unread EXCEPT ![x] = AllEnds(0)]

ReadData(x, w) == /\ CopyGoes(x, w, "read", "write")
                  /\ ~Late(x, Source(w))
                  /\ Extend(x, w)
                  /\ quiet' = [quiet EXCEPT ![x] = 0]
                  /\ UNCHANGED <<active, done, permits, acceptorVars, host, handler, open, cpc>>

\* Mutant: a read that timed out is tried again.
ReadTimeoutRetries(x, w) ==
  /\ CopyGoes(x, w, "read", IF Late(x, Source(w)) THEN "read" ELSE "finish")
  /\ UNCHANGED <<active, done, permits, acceptorVars, host, handler, open, unread, quiet, cpc>>

\* The end of the stream, an error, or the deadline.
ReadFails(x, w) ==
  /\ CopyGoes(x, w, "read", "finish")
  /\ UNCHANGED <<active, done, permits, acceptorVars, host, handler, open, unread, quiet, cpc>>

\* The loop of writes, until all is written or one fails.
Write(x, w) ==
  /\ \/ CopyGoes(x, w, "write", "read") /\ ~Late(x, Destination(w))
     \/ CopyGoes(x, w, "write", "finish")
  /\ UNCHANGED <<active, done, permits, acceptorVars, host, handler, open, unread, quiet, cpc>>

\* CloseWrite, which tells the destination that there is no more, and copies.Done.
HalfClose(x, w) ==
  /\ CopyGoes(x, w, "finish", "ended")
  /\ UNCHANGED <<active, done, permits, acceptorVars, host, handler, open, unread, quiet, cpc>>
-----------------------------------------------------------------------------
(* The closer and the environment *)

CloseListener == /\ cpc = "wait" /\ done
                 /\ cpc' = "ended" /\ listener' = FALSE
                 /\ UNCHANGED <<active, done, permits, apc, conn, host, handler, copyVars, open>>

Shutdown == /\ ~done /\ done' = TRUE
            /\ UNCHANGED <<active, permits, acceptorVars, host, handler, copyVars, open, cpc>>

\* A copy that has not ended may time out; for the others no time needs to pass.
Ageing(x) == /\ \E w \in Ways : copying[x][w] \in {"read", "write"}
             /\ \E e \in Ends : unread[x][e] < IdleTimeout
Older(n)  == IF n < IdleTimeout THEN n + 1 ELSE n

Tick == /\ \E x \in Conns : Ageing(x)
        /\ unread' = [x \in Conns |-> IF Ageing(x) THEN [e \in Ends |-> Older(unread[x][e])]
                                      ELSE unread[x]]
        /\ quiet' = [x \in Conns |-> IF Ageing(x) THEN Older(quiet[x]) ELSE quiet[x]]
        /\ UNCHANGED <<active, done, permits, acceptorVars, host, handler, copying, open, cpc>>
-----------------------------------------------------------------------------
AcceptorStep == AcquireSlot \/ Admit \/ Refuse \/ Slept
Acceptor == \/ \E x \in Conns, h \in Hosts : Accept(x, h)
            \/ AcceptFails \/ AcceptorStep
Handler(x) == \/ Dial(x) \/ Wait(x) \/ CloseUpstream(x) \/ CloseClient(x)
              \/ FreePermit(x) \/ FreeSlot(x)
Copy(x, w) == ReadData(x, w) \/ ReadFails(x, w) \/ Write(x, w) \/ HalfClose(x, w)

Next == \/ Acceptor \/ (\E x \in Conns : Handler(x) \/ \E w \in Ways : Copy(x, w))
        \/ CloseListener \/ Shutdown \/ Tick

Spec == Init /\ [][Next]_vars

(***************************************************************************)
(* Fairness.  A goroutine that can go on goes on, the dial and the writes  *)
(* by their deadlines; a read is only bound to return once its deadline    *)
(* passed.  Nobody waits for a mutex for long, so weak fairness does.      *)
(***************************************************************************)
CopyStep(x, w) == Write(x, w) \/ HalfClose(x, w) \/ (Late(x, Source(w)) /\ ReadFails(x, w))
FairSpec == /\ Spec
            /\ WF_vars(AcceptorStep) /\ WF_vars(~listener /\ AcceptFails)
            /\ WF_vars(CloseListener) /\ WF_vars(Tick)
            /\ \A x \in Conns : WF_vars(Handler(x)) /\ \A w \in Ways : WF_vars(CopyStep(x, w))
-----------------------------------------------------------------------------
TypeOK ==
  /\ active \in [Hosts -> Nat] /\ done \in BOOLEAN /\ listener \in BOOLEAN
  /\ permits \in 0..MaxConnections
  /\ apc \in {"accept", "sleep", "acquire", "admit", "refuse", "stopped"}
  /\ conn \in Conns \cup {NoConn}
  /\ conn # NoConn <=> apc \in {"acquire", "admit", "refuse"}
  /\ host \in [Conns -> Hosts \cup {NoHost}]
  /\ handler \in [Conns -> {"none", "dial", "wait", "closeUpstream", "closeClient", "permit",
                            "slot"}]
  /\ copying \in [Conns -> [Ways -> {"none", "read", "write", "finish", "ended"}]]
  /\ open \in [Conns -> SUBSET Ends]
  /\ unread \in [Conns -> [Ends -> 0..IdleTimeout]] /\ quiet \in [Conns -> 0..IdleTimeout]
  /\ cpc \in {"wait", "ended"}

HasPermit(x) == handler[x] \notin {"none", "slot"}
HoldsSlot(x) == handler[x] # "none" \/ (apc = "admit" /\ conn = x)
PermitHolders == {x \in Conns : HasPermit(x)}
SlotsOf(h)    == {x \in Conns : HoldsSlot(x) /\ host[x] = h}

\* The policy's count of a host is the number of its connections, and the semaphore
\* holds a permit per handler, wherever an accepted connection was turned away and
\* however a handler ended: a slot or a permit that leaked would shut a host, or
\* everyone, out for good.
SlotsMatchConnections ==
  /\ \A h \in Hosts : active[h] = Cardinality(SlotsOf(h))
  /\ permits = Cardinality(PermitHolders)

\* While a copy runs, both its sockets are open: the direction that ends first does not
\* cut off the other, so a client that is done sending still gets its answer; and a
\* socket that is open has a handler, or the acceptor, that will close it.
SocketsOwned ==
  \A x \in Conns :
    /\ \A w \in Ways : copying[x][w] \in {"read", "write", "finish"} => open[x] = Ends
    /\ "client" \in open[x] => \/ handler[x] \in {"dial", "wait", "closeUpstream", "closeClient"}
                               \/ conn = x
    /\ "upstream" \in open[x] => handler[x] \in {"wait", "closeUpstream"}

\* What these rest on: a connection belongs to the acceptor or to a handler, which know
\* its host; the handler waits while its copies run, and only then.
Ownership ==
  /\ conn # NoConn => handler[conn] = "none" /\ host[conn] \in Hosts /\ open[conn] = {"client"}
  /\ \A x \in Conns :
       /\ handler[x] # "none" => host[x] \in Hosts
       /\ handler[x] = "none" => copying[x] = AllWays("none") /\ "upstream" \notin open[x]
       /\ handler[x] = "dial" => copying[x] = AllWays("none") /\ open[x] = {"client"}
       /\ handler[x] = "wait" => open[x] = Ends
       /\ handler[x] \in {"closeUpstream", "closeClient", "permit", "slot"} =>
            \A w \in Ways : copying[x][w] \in {"none", "ended"}

\* A connection times out only if neither direction carried data for the timeout: a long
\* download keeps the silent upload direction alive.
TimeoutsAreIdle == \A x \in Conns : TimedOut(x) => quiet[x] >= IdleTimeout
-----------------------------------------------------------------------------
\* A connection that carries no data is given up in the end, whatever its peers do and
\* whichever of its copies ended before.
IdleConnectionsEnd ==
  \A x \in Conns : quiet[x] > 0 ~> quiet[x] = 0

\* Once done is closed the acceptor returns, even from the sleep after an error.
ShutdownStops == done ~> apc = "stopped"
-----------------------------------------------------------------------------
(* The abstract specification: the streams served are the handlers with a permit. *)
served == [x \in Conns |-> IF HasPermit(x) THEN host[x] ELSE NoHost]

Admission == INSTANCE StreamAdmission WITH
  Streams    <- Conns,
  Admissible <- {h \in Hosts : Permitted(h)},
  Capacity   <- MaxConnections,
  place      <- served

\* Slot and permit, taken and given back in separate steps, admit exactly the streams
\* the abstract specification lets in.
ImplementsAdmission == Admission!Spec
=============================================================================

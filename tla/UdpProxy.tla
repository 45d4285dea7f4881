------------------------------ MODULE UdpProxy ------------------------------
(***************************************************************************)
(* One UDP upstream (UDP/udp.index.go).  Its goroutines are                *)
(*                                                                         *)
(*   the reader    RunUDPProxy: takes a datagram off the listening socket, *)
(*                 finds or creates the session of its client, forwards it;*)
(*   one relay     per session: copies upstream datagrams back to the      *)
(*                 client and, when it ends, closes and removes the session*)
(*   the sweeper   every 30 s deletes the sessions idle for 5 minutes;     *)
(*   the closer    on shutdown closes the listener, then every session.    *)
(*                                                                         *)
(* They share the session table (under the table's mutex), the sockets,    *)
(* and the policy's counter (under the policy's mutex).  A critical section*)
(* of the table is one step, except the sweeper's, which takes the policy's*)
(* mutex once per session: it is a step per session, and whoever needs the *)
(* table's mutex waits for LockFree.                                       *)
(*                                                                         *)
(* Time is relative: age[s] is the time since s.lastActivity, saturating   *)
(* at MaxAge, so that a behaviour may last for ever in finitely many       *)
(* states.                                                                 *)
(***************************************************************************)
EXTENDS StreamPolicy, FiniteSets

CONSTANTS Clients,      \* client addresses (host and port)
          HostOf,       \* HostOf[c]: the host of address c
          Sessions,     \* identities of *udpSession objects; one is used again
                        \* only when nothing refers to it any more
          MaxSessions,  \* maxUDPSessions
          IdleTimeout,  \* udpSessionIdleTimeout, in units of model time
          MaxLag,       \* bound: how old a tick can be when the sweeper has the lock
          NoSession, NoClient

ASSUME UdpAssumption == /\ HostOf \in [Clients -> Hosts]
                        /\ IsFiniteSet(Sessions)
                        /\ NoSession \notin Sessions
                        /\ NoClient \notin Clients \cup Hosts
                        /\ MaxSessions \in Nat
                        /\ IdleTimeout \in Nat \ {0}
                        /\ MaxLag \in Nat

VARIABLES done,      \* the done channel is closed
          listener,  \* the listening socket is open
          table,     \* sessionTable.sessions
          owner,     \* owner[s]: session.client, NoClient when s is no object
          age,       \* age[s]: time since session.lastActivity
          open,      \* the sessions whose upstream socket is open
          relay,     \* relay[s]: where the relay goroutine of s is
          rpc, client, session,  \* the reader: where it is, its two locals
          spc, lag, todo,        \* the sweeper: where, age of its tick, keys to visit
          cpc        \* where the closer is

readerVars == <<rpc, client, session>>
sweepVars  == <<spc, lag, todo>>
vars == <<active, done, listener, table, owner, age, open, relay,
          readerVars, sweepVars, cpc>>

MaxAge   == IdleTimeout + MaxLag
LockFree == spc # "sweep"
InTable(s) == \E c \in Clients : table[c] = s
Size     == Cardinality({c \in Clients : table[c] # NoSession})
Full     == Size >= MaxSessions
\* Nothing refers to s: neither a relay, nor the table, nor the reader.
Unused(s) == relay[s] = "none" /\ ~InTable(s) /\ session # s
-----------------------------------------------------------------------------
Init == /\ InitPolicy
        /\ done = FALSE
        /\ listener = TRUE
        /\ table = [c \in Clients |-> NoSession]
        /\ owner = [s \in Sessions |-> NoClient]
        /\ age = [s \in Sessions |-> 0]
        /\ open = {}
        /\ relay = [s \in Sessions |-> "none"]
        /\ rpc = "recv" /\ client = NoClient /\ session = NoSession
        /\ spc = "select" /\ lag = 0 /\ todo = {}
        /\ cpc = "wait"
-----------------------------------------------------------------------------
(* The reader *)

\* The end of an iteration of the loop, reached by `continue` as well.
NextDatagram == rpc' = "recv" /\ client' = NoClient /\ session' = NoSession

Receive(c) == /\ rpc = "recv" /\ listener
              /\ rpc' = "lookup" /\ client' = c
              /\ UNCHANGED <<active, done, listener, table, owner, age, open,
                             relay, session, sweepVars, cpc>>

\* Mutant: a read error of the listener is retried, whatever the error.
StopReadingRetries == /\ rpc = "recv"
                      /\ rpc' = "recv" /\ listener' = FALSE
                      /\ UNCHANGED <<active, done, table, owner, age, open, relay,
                                     client, session, sweepVars, cpc>>

\* ReadFromUDP fails: the listener was closed, or another error of the socket.
\* Either way the proxy returns and its deferred call closes the listener.
StopReading == /\ rpc = "recv"
               /\ rpc' = "stopped" /\ listener' = FALSE
               /\ UNCHANGED <<active, done, table, owner, age, open, relay,
                              client, session, sweepVars, cpc>>

Lookup == /\ rpc = "lookup" /\ LockFree
          /\ \/ /\ table[client] = NoSession
                /\ rpc' = "check"
                /\ UNCHANGED <<age, session>>
             \/ /\ table[client] # NoSession
                /\ rpc' = "write" /\ session' = table[client]
                /\ age' = [age EXCEPT ![table[client]] = 0]
          /\ UNCHANGED <<active, done, listener, table, owner, open, relay,
                         client, sweepVars, cpc>>

\* create, lines 87-92: the lock is released again before the slot is acquired.
CheckFull == /\ rpc = "check" /\ LockFree
             /\ \/ Full /\ NextDatagram
                \/ ~Full /\ rpc' = "acquire" /\ UNCHANGED <<client, session>>
             /\ UNCHANGED <<active, done, listener, table, owner, age, open,
                            relay, sweepVars, cpc>>

\* The identity of the session to come is fixed here, with its slot.
AcquireSlot ==
  /\ rpc = "acquire"
  /\ \/ /\ ~CanAcquire(HostOf[client])
        /\ NextDatagram
        /\ UNCHANGED <<active, owner>>
     \/ /\ Acquire(HostOf[client])
        /\ \E s \in Sessions : /\ Unused(s)
                               /\ session' = s
                               /\ owner' = [owner EXCEPT ![s] = client]
        /\ rpc' = "dial"
        /\ UNCHANGED client
  /\ UNCHANGED <<done, listener, table, age, open, relay, sweepVars, cpc>>

\* The slot is given back and the session object dropped.
AbandonSession == /\ Release(HostOf[client])
                  /\ owner' = [owner EXCEPT ![session] = NoClient]
                  /\ NextDatagram

Dial == /\ rpc = "dial"
        /\ \/ /\ rpc' = "insert"
              /\ open' = open \cup {session}
              /\ age' = [age EXCEPT ![session] = 0]
              /\ UNCHANGED <<active, owner, client, session>>
           \/ /\ AbandonSession
              /\ UNCHANGED <<open, age>>
        /\ UNCHANGED <<done, listener, table, relay, sweepVars, cpc>>

\* The relay is started with the insertion: until it runs it is at its read.
Insert == /\ rpc = "insert" /\ LockFree
          /\ \/ /\ Full
                /\ AbandonSession
                /\ open' = open \ {session}
                /\ UNCHANGED <<table, relay>>
             \/ /\ ~Full
                /\ table' = [table EXCEPT ![client] = session]
                /\ relay' = [relay EXCEPT ![session] = "read"]
                /\ rpc' = "write"
                /\ UNCHANGED <<active, owner, open, client, session>>
          /\ UNCHANGED <<done, listener, age, sweepVars, cpc>>

\* session.connection.Write: the socket may have been closed since Lookup; an
\* error is logged at most, the datagram is lost and the loop goes on.
Forward == /\ rpc = "write"
           /\ NextDatagram
           /\ UNCHANGED <<active, done, listener, table, owner, age, open,
                          relay, sweepVars, cpc>>
-----------------------------------------------------------------------------
(* The relay of a session *)

RelayGoes(s, from, to) == relay[s] = from /\ relay' = [relay EXCEPT ![s] = to]

RelayRead(s) == /\ RelayGoes(s, "read", "touch")
                /\ s \in open
                /\ UNCHANGED <<active, done, listener, table, owner, age, open,
                               readerVars, sweepVars, cpc>>

\* Mutant: a read error of the upstream socket is retried, whatever the error.
RelayReadRetries(s) == /\ RelayGoes(s, "read", "read")
                       /\ UNCHANGED <<active, done, listener, table, owner, age,
                                      open, readerVars, sweepVars, cpc>>

\* Read fails: the socket was closed, or the upstream refused a datagram.
RelayReadFails(s) == /\ RelayGoes(s, "read", "close")
                     /\ UNCHANGED <<active, done, listener, table, owner, age,
                                    open, readerVars, sweepVars, cpc>>

RelayTouch(s) == /\ LockFree
                 /\ RelayGoes(s, "touch", "write")
                 /\ age' = [age EXCEPT ![s] = 0]
                 /\ UNCHANGED <<active, done, listener, table, owner, open,
                                readerVars, sweepVars, cpc>>

\* WriteToUDP on the listener fails once the listener is closed.
RelayWrite(s) == /\ \/ listener /\ RelayGoes(s, "write", "read")
                    \/ RelayGoes(s, "write", "close")
                 /\ UNCHANGED <<active, done, listener, table, owner, age, open,
                                readerVars, sweepVars, cpc>>

\* Mutant: the relay leaves its socket to the sweeper.
RelayLeavesOpen(s) == /\ RelayGoes(s, "close", "remove")
                      /\ UNCHANGED <<active, done, listener, table, owner, age,
                                     open, readerVars, sweepVars, cpc>>

RelayClose(s) == /\ RelayGoes(s, "close", "remove")
                 /\ open' = open \ {s}
                 /\ UNCHANGED <<active, done, listener, table, owner, age,
                                readerVars, sweepVars, cpc>>

\* Mutants: without the identity check; and with it, but the slot given back anyway.
RemoveAny(s) == /\ table' = [table EXCEPT ![owner[s]] = NoSession]
                /\ Release(HostOf[owner[s]])
RemoveReleasing(s) ==
  /\ table' = [table EXCEPT ![owner[s]] = IF @ = s THEN NoSession ELSE @]
  /\ Release(HostOf[owner[s]])

\* remove: the entry is deleted only if it still is this session's.
RemoveOwn(s) ==
  \/ /\ table[owner[s]] = s
     /\ table' = [table EXCEPT ![owner[s]] = NoSession]
     /\ Release(HostOf[owner[s]])
  \/ /\ table[owner[s]] # s
     /\ UNCHANGED <<table, active>>

RelayRemove(s) == /\ LockFree
                  /\ RelayGoes(s, "remove", "none")
                  /\ RemoveOwn(s)
                  /\ owner' = [owner EXCEPT ![s] = NoClient]
                  /\ age' = [age EXCEPT ![s] = 0]
                  /\ UNCHANGED <<done, listener, open, readerVars, sweepVars, cpc>>
-----------------------------------------------------------------------------
(* The sweeper, the closer and the environment *)

\* A tick is received and the lock taken l time units after it fired.
SweepLock(l) == /\ spc = "select"
                /\ spc' = "sweep" /\ lag' = l
                /\ todo' = {c \in Clients : table[c] # NoSession}
                /\ UNCHANGED <<active, done, listener, table, owner, age, open,
                               relay, readerVars, cpc>>

\* now.Sub(lastActivity) >= udpSessionIdleTimeout, for the tick's now.
Expired(s) == age[s] >= IdleTimeout + lag

SweepKey(c) ==
  /\ spc = "sweep" /\ c \in todo
  /\ todo' = todo \ {c}
  /\ \/ /\ Expired(table[c])
        /\ table' = [table EXCEPT ![c] = NoSession]
        /\ Release(HostOf[owner[table[c]]])
        /\ open' = open \ {table[c]}
        /\ age' = [age EXCEPT ![table[c]] = 0]
     \/ /\ ~Expired(table[c])
        /\ UNCHANGED <<table, active, open, age>>
  /\ UNCHANGED <<done, listener, owner, relay, readerVars, spc, lag, cpc>>

\* Mutant: the sweeper sweeps once.
SweepOnce == /\ spc = "sweep" /\ todo = {}
             /\ spc' = "stopped" /\ lag' = 0
             /\ UNCHANGED <<active, done, listener, table, owner, age, open,
                            relay, readerVars, todo, cpc>>

SweepUnlock == /\ spc = "sweep" /\ todo = {}
               /\ spc' = "select" /\ lag' = 0
               /\ UNCHANGED <<active, done, listener, table, owner, age, open,
                              relay, readerVars, todo, cpc>>

SweepStop == /\ spc = "select" /\ done
             /\ spc' = "stopped"
             /\ UNCHANGED <<active, done, listener, table, owner, age, open,
                            relay, readerVars, lag, todo, cpc>>

\* Mutant: the listener is left to the reader's deferred call.
CloseListenerLater == /\ cpc = "wait" /\ done
                      /\ cpc' = "closeAll"
                      /\ UNCHANGED <<active, done, listener, table, owner, age,
                                     open, relay, readerVars, sweepVars>>

CloseListener == /\ cpc = "wait" /\ done
                 /\ cpc' = "closeAll" /\ listener' = FALSE
                 /\ UNCHANGED <<active, done, table, owner, age, open, relay,
                                readerVars, sweepVars>>

CloseAll == /\ cpc = "closeAll" /\ LockFree
            /\ cpc' = "ended"
            /\ open' = open \ {table[c] : c \in Clients}
            /\ UNCHANGED <<active, done, listener, table, owner, age, relay,
                           readerVars, sweepVars>>

Shutdown == /\ ~done
            /\ done' = TRUE
            /\ UNCHANGED <<active, listener, table, owner, age, open, relay,
                           readerVars, sweepVars, cpc>>

\* The sessions that are in the table, or may still get there: nobody reads the
\* lastActivity of another, so the model lets only these grow old.
Ageing(s) == (InTable(s) \/ (rpc = "insert" /\ session = s)) /\ age[s] < MaxAge

\* Time does not pass inside the sweeper's critical section: nothing changes a
\* lastActivity there and the tick's now is fixed, so it would change no outcome.
Tick == /\ LockFree
        /\ \E s \in Sessions : Ageing(s)
        /\ age' = [s \in Sessions |-> IF Ageing(s) THEN age[s] + 1 ELSE age[s]]
        /\ UNCHANGED <<active, done, listener, table, owner, open, relay,
                       readerVars, sweepVars, cpc>>
-----------------------------------------------------------------------------
Reader == \/ \E c \in Clients : Receive(c)
          \/ StopReading \/ Lookup \/ CheckFull \/ AcquireSlot \/ Dial \/ Insert
          \/ Forward
Relay(s) == \/ RelayRead(s) \/ RelayReadFails(s) \/ RelayTouch(s) \/ RelayWrite(s)
            \/ RelayClose(s) \/ RelayRemove(s)
Sweeper == \/ \E l \in 0..MaxLag : SweepLock(l)
           \/ \E c \in Clients : SweepKey(c)
           \/ SweepUnlock \/ SweepStop
Closer == CloseListener \/ CloseAll

Next == Reader \/ (\E s \in Sessions : Relay(s)) \/ Sweeper \/ Closer \/ Shutdown \/ Tick

Spec == Init /\ [][Next]_vars
-----------------------------------------------------------------------------
(***************************************************************************)
(* Fairness.  A goroutine that can take its next step takes it in the end: *)
(* strong fairness, because a goroutine that waits for the table's mutex   *)
(* finds it free only now and then, and sync.Mutex hands it over to a      *)
(* waiter after 1 ms whoever else asks for it.  The sweeper's select does  *)
(* not prefer its ticker for ever over done: it chooses at random, and the *)
(* ticker is empty for 30 s after a sweep.  Nothing is assumed of clients, *)
(* of upstreams, of errors, nor that a shutdown is ever requested.         *)
(***************************************************************************)
ReaderStep == \/ Lookup \/ CheckFull \/ AcquireSlot \/ Dial \/ Insert \/ Forward
              \/ (~listener /\ StopReading)
RelayStep(s) == \/ RelayTouch(s) \/ RelayWrite(s) \/ RelayClose(s) \/ RelayRemove(s)
                \/ (s \notin open /\ RelayReadFails(s))
SweepStep == \/ \E l \in 0..MaxLag : SweepLock(l)
             \/ \E c \in Clients : SweepKey(c)
             \/ SweepUnlock

FairSpec == /\ Spec
            /\ SF_vars(ReaderStep)
            /\ \A s \in Sessions : SF_vars(RelayStep(s))
            /\ WF_vars(SweepStep) /\ SF_vars(SweepStop)
            /\ SF_vars(Closer)
            /\ SF_vars(Tick)
-----------------------------------------------------------------------------
(* Safety *)

\* The types, and that the reader's locals are there where they are used: a
\* datagram is written to a session only where there is one.
TypeOK ==
  /\ active \in [Hosts -> Nat] /\ done \in BOOLEAN /\ listener \in BOOLEAN
  /\ table \in [Clients -> Sessions \cup {NoSession}]
  /\ owner \in [Sessions -> Clients \cup {NoClient}]
  /\ age \in [Sessions -> 0..MaxAge]
  /\ open \subseteq Sessions
  /\ relay \in [Sessions -> {"none", "read", "touch", "write", "close", "remove"}]
  /\ rpc \in {"recv", "lookup", "check", "acquire", "dial", "insert", "write",
               "stopped"}
  /\ rpc \in {"recv", "stopped"} => client = NoClient /\ session = NoSession
  /\ rpc \notin {"recv", "stopped"} => client \in Clients
  /\ rpc \in {"lookup", "check", "acquire"} => session = NoSession
  /\ rpc \in {"dial", "insert", "write"} => session \in Sessions
  /\ spc \in {"select", "sweep", "stopped"} /\ lag \in 0..MaxLag
  /\ todo \subseteq Clients
  /\ cpc \in {"wait", "closeAll", "ended"}

\* The sessions a slot of the policy is held for: those of the table, and the one
\* the reader is creating.
HoldsSlot(s) == InTable(s) \/ (rpc \in {"dial", "insert"} /\ session = s)
SlotsOf(h)   == {s \in Sessions : HoldsSlot(s) /\ HostOf[owner[s]] = h}

\* The policy's count of a host is the number of its sessions, whichever of the
\* sweeper and the relay removes one, and whether or not a creation is abandoned:
\* no slot is leaked (the host would be locked out) nor given back twice (the host
\* would exceed max_conns_per_ip; Release's floor would hide it).
SlotsMatchSessions == \A h \in Hosts : active[h] = Cardinality(SlotsOf(h))

\* Every open upstream socket has someone who will close it: the reader that is
\* creating its session, or the session's relay; and no entry of the table is left
\* behind by its relay, which is the only one to remove it if the sweeper stopped.
SocketsOwned ==
  /\ \A s \in open : (rpc = "insert" /\ session = s) \/ relay[s] \notin {"none", "remove"}
  /\ \A s \in Sessions : InTable(s) => relay[s] # "none"

\* Who refers to a session, which SlotsMatchSessions rests on: an entry of the table
\* is a session of its own client that some relay will remove; the reader creates a
\* session only for a client that has none, and nothing else knows of it yet; the
\* sweeper only visits keys that have an entry.
Ownership ==
  /\ \A c \in Clients :
       table[c] # NoSession => owner[table[c]] = c /\ relay[table[c]] # "none"
  /\ \A s \in Sessions : relay[s] # "none" => owner[s] \in Clients
  /\ rpc \in {"check", "acquire", "dial", "insert"} => table[client] = NoSession
  /\ rpc \in {"dial", "insert"} => owner[session] = client /\ relay[session] = "none"
  /\ spc = "sweep" => \A c \in todo : table[c] # NoSession

\* After closeAll at most one upstream socket is open, that of the session the
\* reader was creating when the listener was closed: the listener is closed first,
\* so the reader can only finish the datagram it had in hand.
AtMostOneStraggler == cpc = "ended" => Cardinality(open) <= 1

\* A client loses its session only because that session was idle for the timeout or
\* because that session's own relay ended.  In particular the relay of a session the
\* sweeper already deleted never takes down the session that replaced it.
RemovalJustified ==
  \A c \in Clients :
    (table[c] # NoSession /\ table'[c] # table[c]) =>
      /\ table'[c] = NoSession
      /\ \/ spc = "sweep" /\ age[table[c]] >= IdleTimeout
         \/ relay[table[c]] = "remove" /\ relay'[table[c]] = "none"
SessionLossJustified == [][RemovalJustified]_vars
-----------------------------------------------------------------------------
(* Liveness *)

\* A session whose socket is closed does not stay in the table, where it would
\* swallow the datagrams of its client.
ClosedSessionsLeave ==
  \A s \in Sessions : InTable(s) /\ s \notin open ~> ~InTable(s)

\* A session both sides forgot is found by the sweeper, unless the proxy stops.
IdleSessionsLeave ==
  \A s \in Sessions :
    InTable(s) /\ age[s] > 0 ~> ~InTable(s) \/ age[s] = 0 \/ done

\* No session stays in the table for ever that is closed or that nobody uses: each would
\* keep a slot of its host, and a closed one would swallow what its client sends.
DeadSessionsLeave == ClosedSessionsLeave /\ IdleSessionsLeave

\* Once done is closed the reader, the sweeper and the closer all return, whatever
\* they were doing.
ShutdownStops ==
  done ~> rpc = "stopped" /\ spc = "stopped" /\ cpc = "ended"
-----------------------------------------------------------------------------
(* The abstract specification: the sessions that hold a slot are the streams the *)
(* upstream serves.                                                              *)
served == [s \in Sessions |-> IF HoldsSlot(s) THEN HostOf[owner[s]] ELSE NoClient]

Admission == INSTANCE StreamAdmission WITH
  Streams    <- Sessions,
  Admissible <- {h \in Hosts : Permitted(h)},
  Capacity   <- MaxSessions,
  NoHost     <- NoClient,
  place      <- served

\* The counter, the table and the two mutexes together serve exactly the streams
\* the abstract specification lets in.
ImplementsAdmission == Admission!Spec
=============================================================================

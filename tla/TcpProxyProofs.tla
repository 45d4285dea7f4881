--------------------------- MODULE TcpProxyProofs ---------------------------
(***************************************************************************)
(* TcpProxy proved for any connections, hosts and limits: the accounting   *)
(* of slots and permits, the ownership of sockets, the deadlines, and that *)
(* it implements StreamAdmission.                                          *)
(***************************************************************************)
EXTENDS TcpProxy, FiniteSetTheorems, TLAPS

\* The two sockets' deadlines always move together.
DeadlinesAgree == \A x \in Conns : \A e \in Ends : unread[x][e] = quiet[x]

\* The policy never counts more streams of a host than it may.
WithinLimit == MaxPerIP > 0 => \A h \in Hosts : active[h] <= MaxPerIP

\* The acceptor asks the semaphore only for a host the lists permit.
OnlyPermitted == apc = "admit" => Permitted(host[conn])

IInv == /\ TypeOK /\ Ownership /\ SlotsMatchConnections /\ SocketsOwned
        /\ DeadlinesAgree /\ WithinLimit /\ OnlyPermitted

USE PolicyAssumption, TcpAssumption

LEMMA HoldersFinite ==
  /\ IsFiniteSet(PermitHolders) /\ Cardinality(PermitHolders) \in Nat
  /\ \A h : IsFiniteSet(SlotsOf(h)) /\ Cardinality(SlotsOf(h)) \in Nat
<1>1. PermitHolders \subseteq Conns /\ \A h : SlotsOf(h) \subseteq Conns
  BY DEF PermitHolders, SlotsOf
<1> QED BY <1>1, FS_Subset, FS_CardinalityType

\* A step that changes neither the counts nor who holds what keeps them in agreement.
LEMMA CountsUntouched ==
  ASSUME SlotsMatchConnections, active' = active, permits' = permits,
         \A x \in Conns : /\ HasPermit(x)' <=> HasPermit(x)
                          /\ HoldsSlot(x)' <=> HoldsSlot(x)
                          /\ HoldsSlot(x) => host'[x] = host[x]
  PROVE  SlotsMatchConnections'
<1>1. PermitHolders' = PermitHolders
  BY DEF PermitHolders
<1>2. ASSUME NEW h \in Hosts PROVE SlotsOf(h)' = SlotsOf(h)
  BY DEF SlotsOf
<1> QED BY <1>1, <1>2 DEF SlotsMatchConnections

\* A slot that is taken, or given back, is counted for its host and no other.
LEMMA SlotTaken ==
  ASSUME \A h \in Hosts : active[h] = Cardinality(SlotsOf(h)), TypeOK,
         NEW x \in Conns, NEW g \in Hosts,
         ~HoldsSlot(x), HoldsSlot(x)', host'[x] = g,
         \A y \in Conns \ {x} : /\ HoldsSlot(y)' <=> HoldsSlot(y)
                                /\ HoldsSlot(y) => host'[y] = host[y],
         active' = [active EXCEPT ![g] = @ + 1]
  PROVE  \A h \in Hosts : active'[h] = Cardinality(SlotsOf(h))'
<1>1. SlotsOf(g)' = SlotsOf(g) \cup {x} /\ x \notin SlotsOf(g)
  BY DEF SlotsOf
<1>2. Cardinality(SlotsOf(g))' = Cardinality(SlotsOf(g)) + 1
  <2>1. IsFiniteSet(SlotsOf(g))
    BY HoldersFinite
  <2>2. Cardinality(SlotsOf(g) \cup {x}) = Cardinality(SlotsOf(g)) + 1
    BY <1>1, <2>1, FS_AddElement
  <2> QED BY <1>1, <2>2
<1>3. ASSUME NEW h \in Hosts \ {g} PROVE SlotsOf(h)' = SlotsOf(h)
  BY DEF SlotsOf
<1> QED BY <1>2, <1>3 DEF TypeOK

LEMMA SlotFreed ==
  ASSUME \A h \in Hosts : active[h] = Cardinality(SlotsOf(h)), TypeOK,
         NEW x \in Conns, NEW g \in Hosts,
         HoldsSlot(x), ~HoldsSlot(x)', host[x] = g,
         \A y \in Conns \ {x} : /\ HoldsSlot(y)' <=> HoldsSlot(y)
                                /\ HoldsSlot(y) => host'[y] = host[y],
         Release(g)
  PROVE  \A h \in Hosts : active'[h] = Cardinality(SlotsOf(h))'
<1>1. SlotsOf(g)' = SlotsOf(g) \ {x} /\ x \in SlotsOf(g)
  BY DEF SlotsOf
<1>2. /\ Cardinality(SlotsOf(g))' = Cardinality(SlotsOf(g)) - 1
      /\ Cardinality(SlotsOf(g))' \in Nat /\ Cardinality(SlotsOf(g)) \in Nat
  <2>1. IsFiniteSet(SlotsOf(g))
    BY HoldersFinite
  <2>2. /\ Cardinality(SlotsOf(g) \ {x}) = Cardinality(SlotsOf(g)) - 1
        /\ IsFiniteSet(SlotsOf(g) \ {x})
    BY <1>1, <2>1, FS_RemoveElement
  <2>3. Cardinality(SlotsOf(g) \ {x}) \in Nat /\ Cardinality(SlotsOf(g)) \in Nat
    BY <2>1, <2>2, FS_CardinalityType
  <2> QED BY <1>1, <2>2, <2>3
<1>3. active'[g] = Cardinality(SlotsOf(g))'
  BY <1>2 DEF Release, TypeOK
<1>4. ASSUME NEW h \in Hosts \ {g} PROVE SlotsOf(h)' = SlotsOf(h)
  BY DEF SlotsOf
<1> QED BY <1>3, <1>4 DEF Release, TypeOK

\* Likewise a permit.
LEMMA PermitTaken ==
  ASSUME NEW x \in Conns, ~HasPermit(x), HasPermit(x)',
         \A y \in Conns \ {x} : HasPermit(y)' <=> HasPermit(y)
  PROVE  Cardinality(PermitHolders)' = Cardinality(PermitHolders) + 1
<1>1. PermitHolders' = PermitHolders \cup {x} /\ x \notin PermitHolders
  BY DEF PermitHolders
<1> QED BY <1>1, HoldersFinite, FS_AddElement

LEMMA PermitFreed ==
  ASSUME NEW x \in Conns, HasPermit(x), ~HasPermit(x)',
         \A y \in Conns \ {x} : HasPermit(y)' <=> HasPermit(y)
  PROVE  /\ Cardinality(PermitHolders)' = Cardinality(PermitHolders) - 1
         /\ Cardinality(PermitHolders) - 1 \in Nat
<1>1. PermitHolders' = PermitHolders \ {x} /\ x \in PermitHolders
  BY DEF PermitHolders
<1>2. Cardinality(PermitHolders)' \in Nat
  BY <1>1, HoldersFinite, FS_RemoveElement, FS_CardinalityType
<1> QED BY <1>1, <1>2, HoldersFinite, FS_RemoveElement
-----------------------------------------------------------------------------
LEMMA InitInv == Init => IInv
<1> SUFFICES ASSUME Init PROVE IInv
  OBVIOUS
<1> USE DEF Init, InitPolicy
<1>1. TypeOK
  <2>1. done \in BOOLEAN /\ listener \in BOOLEAN
    OBVIOUS
  <2>2. active \in [Hosts -> Nat] /\ permits \in 0..MaxConnections
    OBVIOUS
  <2>3. unread \in [Conns -> [Ends -> 0..IdleTimeout]] /\ quiet \in [Conns -> 0..IdleTimeout]
    BY DEF AllEnds
  <2>4. copying \in [Conns -> [Ways -> {"none", "read", "write", "finish", "ended"}]]
    BY DEF AllWays
  <2> QED BY <2>1, <2>2, <2>3, <2>4 DEF TypeOK
<1>2. Ownership /\ SocketsOwned
  BY DEF Ownership, SocketsOwned, AllWays
<1>3. DeadlinesAgree /\ WithinLimit /\ OnlyPermitted
  BY DEF DeadlinesAgree, WithinLimit, OnlyPermitted, AllEnds
<1>4. PermitHolders = {} /\ \A h \in Hosts : SlotsOf(h) = {}
  BY DEF PermitHolders, HasPermit, SlotsOf, HoldsSlot
<1>5. SlotsMatchConnections
  BY <1>4, FS_EmptySet DEF SlotsMatchConnections
<1> QED BY <1>1, <1>2, <1>3, <1>5 DEF IInv

\* Every step keeps the types; that a permit is there to give back is known from the
\* handler that holds it.
LEMMA TypeStep == TypeOK /\ Ownership /\ SlotsMatchConnections /\ [Next]_vars => TypeOK'
<1> SUFFICES ASSUME TypeOK, Ownership, SlotsMatchConnections, [Next]_vars PROVE TypeOK'
  OBVIOUS
<1> USE DEF TypeOK, acceptorVars, copyVars, HandlerGoes, CopyGoes
<1>1. ASSUME NEW x \in Conns, NEW h \in Hosts, Accept(x, h) PROVE TypeOK'
  BY <1>1 DEF Accept, Ends
<1>2. CASE AcceptFails
  BY <1>2 DEF AcceptFails
<1>3. CASE Slept
  BY <1>3 DEF Slept
<1>4. CASE AcquireSlot
  BY <1>4 DEF AcquireSlot, Acquire
<1>5. CASE Admit
  BY <1>5 DEF Admit, Release
<1>6. CASE Refuse
  BY <1>6 DEF Refuse
<1>7. ASSUME NEW x \in Conns, Handler(x) PROVE TypeOK'
  <2>1. CASE Dial(x)
    <3>1. copying' \in [Conns -> [Ways -> {"none", "read", "write", "finish", "ended"}]]
      <4>1. AllWays("read") \in [Ways -> {"none", "read", "write", "finish", "ended"}]
        BY DEF AllWays
      <4> QED BY <2>1, <4>1 DEF Dial
    <3>2. open' \in [Conns -> SUBSET Ends]
      BY <2>1 DEF Dial, Ends
    <3>3. handler' \in [Conns -> {"none", "dial", "wait", "closeUpstream", "closeClient",
                                  "permit", "slot"}]
      BY <2>1 DEF Dial
    <3> QED BY <2>1, <3>1, <3>2, <3>3 DEF Dial
  <2>2. CASE Wait(x) \/ CloseUpstream(x) \/ CloseClient(x)
    <3>1. open' \in [Conns -> SUBSET Ends]
      BY <2>2 DEF Wait, CloseUpstream, CloseClient
    <3>2. handler' \in [Conns -> {"none", "dial", "wait", "closeUpstream", "closeClient",
                                  "permit", "slot"}]
      BY <2>2 DEF Wait, CloseUpstream, CloseClient
    <3> QED BY <2>2, <3>1, <3>2 DEF Wait, CloseUpstream, CloseClient
  <2>3. CASE FreePermit(x)
    <3>1. HasPermit(x) /\ ~HasPermit(x)'
          /\ \A y \in Conns \ {x} : HasPermit(y)' <=> HasPermit(y)
      BY <2>3 DEF FreePermit, HasPermit
    <3>2. permits - 1 \in 0..MaxConnections
      BY <3>1, PermitFreed DEF SlotsMatchConnections
    <3> QED BY <2>3, <3>2 DEF FreePermit
  <2>4. CASE FreeSlot(x)
    <3>0. /\ AllWays("none") \in [Ways -> {"none", "read", "write", "finish", "ended"}]
          /\ AllEnds(0) \in [Ends -> 0..IdleTimeout]
      BY DEF AllWays, AllEnds
    <3>1. copying' \in [Conns -> [Ways -> {"none", "read", "write", "finish", "ended"}]]
      BY <2>4, <3>0 DEF FreeSlot
    <3>2. /\ unread' \in [Conns -> [Ends -> 0..IdleTimeout]]
          /\ quiet' \in [Conns -> 0..IdleTimeout]
      BY <2>4, <3>0 DEF FreeSlot
    <3>3. active' \in [Hosts -> Nat]
      <4>1. host[x] \in Hosts /\ Release(host[x])
        BY <2>4 DEF FreeSlot, Ownership
      <4> QED BY <4>1 DEF Release
    <3> QED BY <2>4, <3>1, <3>2, <3>3 DEF FreeSlot
  <2> QED BY <1>7, <2>1, <2>2, <2>3, <2>4 DEF Handler
<1>8. ASSUME NEW x \in Conns, NEW w \in Ways, Copy(x, w) PROVE TypeOK'
  <2>1. copying' \in [Conns -> [Ways -> {"none", "read", "write", "finish", "ended"}]]
    <3>1. \E v \in {"read", "write", "finish", "ended"} : copying' = [copying EXCEPT ![x][w] = v]
      BY <1>8 DEF Copy, ReadData, ReadFails, Write, HalfClose
    <3> QED BY <3>1
  <2>2. CASE ReadData(x, w)
    <3>1. /\ unread' \in [Conns -> [Ends -> 0..IdleTimeout]]
          /\ quiet' \in [Conns -> 0..IdleTimeout]
      BY <2>2 DEF ReadData, Extend, AllEnds
    <3> QED BY <2>1, <2>2, <3>1 DEF ReadData
  <2>3. CASE ReadFails(x, w) \/ Write(x, w) \/ HalfClose(x, w)
    <3>1. UNCHANGED <<active, done, permits, acceptorVars, host, handler, open, unread, quiet,
                      cpc>>
      BY <2>3 DEF ReadFails, Write, HalfClose
    <3> QED BY <2>1, <3>1
  <2> QED BY <1>8, <2>2, <2>3 DEF Copy
<1>9. CASE CloseListener
  BY <1>9 DEF CloseListener
<1>10. CASE Shutdown
  BY <1>10 DEF Shutdown
<1>11. CASE Tick
  BY <1>11 DEF Tick, Older
<1>12. CASE UNCHANGED vars
  BY <1>12 DEF vars
<1> QED BY <1>1, <1>2, <1>3, <1>4, <1>5, <1>6, <1>7, <1>8, <1>9, <1>10, <1>11, <1>12
        DEF Next, Acceptor, AcceptorStep

\* A step of the handler of x leaves the sockets, copies and host of the others alone.
LEMMA HandlerIsLocal ==
  ASSUME TypeOK, NEW x \in Conns, Handler(x)
  PROVE  /\ UNCHANGED <<conn, apc>>
         /\ \A y \in Conns \ {x} : /\ handler'[y] = handler[y] /\ host'[y] = host[y]
                                   /\ copying'[y] = copying[y] /\ open'[y] = open[y]
<1> USE DEF TypeOK, acceptorVars, copyVars, HandlerGoes
<1>1. CASE Dial(x)
  BY <1>1 DEF Dial
<1>2. CASE Wait(x) \/ FreePermit(x)
  BY <1>2 DEF Wait, FreePermit
<1>3. CASE CloseUpstream(x) \/ CloseClient(x)
  BY <1>3 DEF CloseUpstream, CloseClient
<1>4. CASE FreeSlot(x)
  BY <1>4 DEF FreeSlot
<1> QED BY <1>1, <1>2, <1>3, <1>4 DEF Handler

\* What it does to x itself.
LEMMA HandlerOwnStep ==
  ASSUME TypeOK, NEW x \in Conns, Handler(x)
  PROVE  \/ /\ handler[x] = "dial" /\ handler'[x] = "wait" /\ host'[x] = host[x]
            /\ open'[x] = open[x] \cup {"upstream"} /\ copying'[x] = AllWays("read")
         \/ /\ handler[x] = "dial" /\ handler'[x] = "closeClient"
            /\ host'[x] = host[x] /\ open'[x] = open[x] /\ copying'[x] = copying[x]
         \/ /\ handler[x] = "wait" /\ handler'[x] = "closeUpstream" /\ host'[x] = host[x]
            /\ copying[x] = AllWays("ended") /\ open'[x] = open[x] /\ copying'[x] = copying[x]
         \/ /\ handler[x] = "closeUpstream" /\ handler'[x] = "closeClient" /\ host'[x] = host[x]
            /\ open'[x] = open[x] \ {"upstream"} /\ copying'[x] = copying[x]
         \/ /\ handler[x] = "closeClient" /\ handler'[x] = "permit" /\ host'[x] = host[x]
            /\ open'[x] = open[x] \ {"client"} /\ copying'[x] = copying[x]
         \/ /\ handler[x] = "permit" /\ handler'[x] = "slot"
            /\ host'[x] = host[x] /\ open'[x] = open[x] /\ copying'[x] = copying[x]
         \/ /\ handler[x] = "slot" /\ handler'[x] = "none" /\ open'[x] = open[x]
            /\ copying'[x] = AllWays("none")
<1> USE DEF TypeOK, acceptorVars, copyVars, HandlerGoes
<1>1. CASE Dial(x)
  BY <1>1 DEF Dial
<1>2. CASE Wait(x)
  BY <1>2 DEF Wait
<1>3. CASE CloseUpstream(x)
  BY <1>3 DEF CloseUpstream
<1>4. CASE CloseClient(x)
  BY <1>4 DEF CloseClient
<1>5. CASE FreePermit(x)
  BY <1>5 DEF FreePermit
<1>6. CASE FreeSlot(x)
  BY <1>6 DEF FreeSlot
<1> QED BY <1>1, <1>2, <1>3, <1>4, <1>5, <1>6 DEF Handler

\* Every step keeps the acceptor's connection apart from those of the handlers, and the
\* copies running only while their handler waits.
LEMMA OwnershipStep == TypeOK /\ Ownership /\ SocketsOwned /\ [Next]_vars => Ownership'
<1> SUFFICES ASSUME TypeOK, Ownership, SocketsOwned, [Next]_vars PROVE Ownership'
  OBVIOUS
<1> USE DEF TypeOK, Ownership, acceptorVars, copyVars, HandlerGoes, CopyGoes
<1>1. ASSUME NEW x \in Conns, NEW h \in Hosts, Accept(x, h) PROVE Ownership'
  BY <1>1 DEF Accept
<1>2. CASE AcceptFails \/ Slept \/ AcquireSlot
  BY <1>2 DEF AcceptFails, Slept, AcquireSlot
<1>3. CASE Admit
  BY <1>3 DEF Admit, SocketsOwned
<1>4. CASE Refuse
  BY <1>4 DEF Refuse
<1>5. ASSUME NEW x \in Conns, Handler(x) PROVE Ownership'
  <2>1. /\ handler[x] # "none" /\ conn' = conn /\ conn # x
        /\ \A y \in Conns \ {x} : /\ handler'[y] = handler[y] /\ host'[y] = host[y]
                                  /\ copying'[y] = copying[y] /\ open'[y] = open[y]
    BY <1>5, HandlerIsLocal, HandlerOwnStep
  <2> SUFFICES /\ handler'[x] # "none" => host'[x] \in Hosts
               /\ handler'[x] = "none" => /\ copying'[x] = AllWays("none")
                                          /\ "upstream" \notin open'[x]
               /\ handler'[x] # "dial"
               /\ handler'[x] = "wait" => open'[x] = Ends
               /\ handler'[x] \in {"closeUpstream", "closeClient", "permit", "slot"} =>
                    \A w \in Ways : copying'[x][w] \in {"none", "ended"}
    BY <2>1
  <2>2. /\ host[x] \in Hosts
        /\ handler[x] = "dial" => copying[x] = AllWays("none") /\ open[x] = {"client"}
        /\ handler[x] \in {"closeUpstream", "closeClient", "permit", "slot"} =>
             \A w \in Ways : copying[x][w] \in {"none", "ended"}
        /\ handler[x] = "slot" => "upstream" \notin open[x]
    BY <2>1 DEF SocketsOwned
  <2>3. TypeOK /\ Handler(x)
    BY <1>5
  <2> HIDE DEF TypeOK, Ownership
  <2> QED BY <2>1, <2>2, <2>3, HandlerOwnStep DEF AllWays, Ends
<1>6. ASSUME NEW x \in Conns, NEW w \in Ways, Copy(x, w) PROVE Ownership'
  <2>1. /\ \E v \in {"read", "write", "finish", "ended"} : copying' = [copying EXCEPT ![x][w] = v]
        /\ copying[x][w] \in {"read", "write", "finish"}
        /\ UNCHANGED <<conn, host, handler, open>>
    BY <1>6 DEF Copy, ReadData, ReadFails, Write, HalfClose
  <2>2. handler[x] = "wait"
    BY <2>1 DEF AllWays
  <2> QED BY <2>1, <2>2
<1>7. CASE CloseListener \/ Shutdown \/ Tick \/ UNCHANGED vars
  BY <1>7 DEF CloseListener, Shutdown, Tick, vars
<1> QED BY <1>1, <1>2, <1>3, <1>4, <1>5, <1>6, <1>7 DEF Next, Acceptor, AcceptorStep

\* Every step keeps the sockets of a running copy open and every open socket owned.
LEMMA SocketsStep ==
  TypeOK /\ Ownership /\ SocketsOwned /\ [Next]_vars => SocketsOwned'
<1> SUFFICES ASSUME TypeOK, Ownership, SocketsOwned, [Next]_vars PROVE SocketsOwned'
  OBVIOUS
<1> USE DEF TypeOK, Ownership, SocketsOwned, acceptorVars, copyVars, HandlerGoes, CopyGoes
<1>1. ASSUME NEW x \in Conns, NEW h \in Hosts, Accept(x, h) PROVE SocketsOwned'
  BY <1>1 DEF Accept, AllWays
<1>2. CASE AcceptFails \/ Slept \/ AcquireSlot
  BY <1>2 DEF AcceptFails, Slept, AcquireSlot
<1>3. CASE Admit
  BY <1>3 DEF Admit
<1>4. CASE Refuse
  BY <1>4 DEF Refuse, AllWays
<1>5. ASSUME NEW x \in Conns, Handler(x) PROVE SocketsOwned'
  <2>1. /\ conn' = conn /\ conn # x
        /\ \A y \in Conns \ {x} : /\ handler'[y] = handler[y] /\ open'[y] = open[y]
                                  /\ copying'[y] = copying[y]
    BY <1>5, HandlerIsLocal, HandlerOwnStep
  <2> SUFFICES /\ \A w \in Ways : copying'[x][w] \in {"read", "write", "finish"} =>
                                     open'[x] = Ends
               /\ "client" \in open'[x] => handler'[x] \in {"dial", "wait", "closeUpstream",
                                                             "closeClient"}
               /\ "upstream" \in open'[x] => handler'[x] \in {"wait", "closeUpstream"}
    BY <2>1
  <2>2. /\ open[x] \subseteq Ends
        /\ handler[x] = "dial" => copying[x] = AllWays("none") /\ open[x] = {"client"}
        /\ handler[x] \in {"closeUpstream", "closeClient", "permit", "slot"} =>
             \A w \in Ways : copying[x][w] \in {"none", "ended"}
        /\ "client" \in open[x] => handler[x] \in {"dial", "wait", "closeUpstream", "closeClient"}
        /\ "upstream" \in open[x] => handler[x] \in {"wait", "closeUpstream"}
    BY <2>1
  <2>3. TypeOK /\ Handler(x)
    BY <1>5
  <2> HIDE DEF TypeOK, Ownership, SocketsOwned
  <2>4. CASE handler[x] = "dial"
    BY <2>2, <2>3, <2>4, HandlerOwnStep DEF AllWays, Ends
  <2>5. CASE handler[x] # "dial"
    BY <2>2, <2>3, <2>5, HandlerOwnStep DEF AllWays
  <2> QED BY <2>4, <2>5
<1>6. ASSUME NEW x \in Conns, NEW w \in Ways, Copy(x, w) PROVE SocketsOwned'
  <2>1. /\ \E v \in {"read", "write", "finish", "ended"} : copying' = [copying EXCEPT ![x][w] = v]
        /\ copying[x][w] \in {"read", "write", "finish"}
        /\ UNCHANGED <<conn, handler, open>>
    BY <1>6 DEF Copy, ReadData, ReadFails, Write, HalfClose
  <2> QED BY <2>1
<1>7. CASE CloseListener \/ Shutdown \/ Tick \/ UNCHANGED vars
  BY <1>7 DEF CloseListener, Shutdown, Tick, vars
<1> QED BY <1>1, <1>2, <1>3, <1>4, <1>5, <1>6, <1>7 DEF Next, Acceptor, AcceptorStep

\* A read moves both deadlines, so they stay where the last read of either copy was.
LEMMA DeadlinesStep == TypeOK /\ DeadlinesAgree /\ [Next]_vars => DeadlinesAgree'
<1> SUFFICES ASSUME TypeOK, DeadlinesAgree, [Next]_vars PROVE DeadlinesAgree'
  OBVIOUS
<1> USE DEF TypeOK, DeadlinesAgree, copyVars, AllEnds
<1>1. ASSUME UNCHANGED <<unread, quiet>> PROVE DeadlinesAgree'
  BY <1>1
<1>2. ASSUME NEW x \in Conns, FreeSlot(x) PROVE DeadlinesAgree'
  BY <1>2 DEF FreeSlot
<1>3. ASSUME NEW x \in Conns, NEW w \in Ways, ReadData(x, w) PROVE DeadlinesAgree'
  BY <1>3 DEF ReadData, Extend
<1>4. CASE Tick
  BY <1>4 DEF Tick
<1> QED BY <1>1, <1>2, <1>3, <1>4
        DEF Next, Acceptor, AcceptorStep, Accept, AcceptFails, Slept, AcquireSlot, Admit,
            Refuse, Handler, Dial, Wait, CloseUpstream, CloseClient, FreePermit, Copy,
            ReadFails, Write, HalfClose, CloseListener, Shutdown, vars

\* Only Acquire counts up, and it looks at the limit first.
LEMMA LimitStep == TypeOK /\ Ownership /\ WithinLimit /\ [Next]_vars => WithinLimit'
<1> SUFFICES ASSUME TypeOK, Ownership, WithinLimit, [Next]_vars PROVE WithinLimit'
  OBVIOUS
<1>1. ASSUME UNCHANGED active PROVE WithinLimit'
  BY <1>1 DEF WithinLimit
<1>2. ASSUME NEW h \in Hosts, Release(h) PROVE WithinLimit'
  BY <1>2 DEF WithinLimit, Release, TypeOK
<1>3. ASSUME NEW h \in Hosts, Acquire(h) PROVE WithinLimit'
  BY <1>3 DEF WithinLimit, Acquire, CanAcquire, TypeOK
<1>4. CASE AcquireSlot
  BY <1>1, <1>3, <1>4 DEF AcquireSlot, Ownership, TypeOK
<1>5. CASE Admit
  BY <1>1, <1>2, <1>5 DEF Admit, Ownership, TypeOK
<1>6. ASSUME NEW x \in Conns, FreeSlot(x) PROVE WithinLimit'
  BY <1>2, <1>6 DEF FreeSlot, HandlerGoes, Ownership
<1> QED BY <1>1, <1>4, <1>5, <1>6
        DEF Next, Acceptor, AcceptorStep, Accept, AcceptFails, Slept,
            Refuse, Handler, Dial, Wait, CloseUpstream, CloseClient, FreePermit, Copy,
            ReadData, ReadFails, Write, HalfClose, CloseListener, Shutdown, Tick, vars

\* Every step keeps both counts in agreement with who holds a slot and a permit.  They
\* change hands in AcquireSlot, Admit, FreePermit and FreeSlot.
LEMMA CountsStep ==
  TypeOK /\ Ownership /\ SlotsMatchConnections /\ [Next]_vars => SlotsMatchConnections'
<1> SUFFICES ASSUME TypeOK, Ownership, SlotsMatchConnections, [Next]_vars
             PROVE  SlotsMatchConnections'
  OBVIOUS
<1>1. ASSUME UNCHANGED <<active, permits, host, handler>>,
             apc' # "admit", apc # "admit"
      PROVE  SlotsMatchConnections'
  BY <1>1, CountsUntouched DEF HasPermit, HoldsSlot
<1>2. ASSUME UNCHANGED <<active, permits, host, handler, apc, conn>>
      PROVE  SlotsMatchConnections'
  BY <1>2, CountsUntouched DEF HasPermit, HoldsSlot
<1>3. ASSUME NEW x \in Conns, NEW h \in Hosts, Accept(x, h) PROVE SlotsMatchConnections'
  <2>1. /\ handler[x] = "none" /\ host' = [host EXCEPT ![x] = h] /\ apc = "accept"
        /\ apc' = "acquire" /\ UNCHANGED <<active, permits, handler>>
    BY <1>3 DEF Accept, Ownership, TypeOK
  <2> QED BY <2>1, CountsUntouched DEF HasPermit, HoldsSlot, TypeOK
<1>4. CASE AcceptFails \/ Slept
  BY <1>1, <1>4 DEF AcceptFails, Slept
<1>5. CASE AcquireSlot
  <2>1. PICK x \in Conns : x = conn
    BY <1>5 DEF AcquireSlot, TypeOK
  <2>2. /\ apc = "acquire" /\ handler[x] = "none" /\ host[x] \in Hosts
        /\ UNCHANGED <<permits, host, handler, conn>>
    BY <1>5, <2>1 DEF AcquireSlot, Ownership, TypeOK
  <2>3. CASE active' = active /\ apc' = "refuse"
    BY <1>1, <2>2, <2>3
  <2>4. CASE Acquire(host[x]) /\ apc' = "admit"
    <3>1. ~HoldsSlot(x) /\ HoldsSlot(x)'
      BY <2>1, <2>2, <2>4 DEF HoldsSlot
    <3>2. \A y \in Conns \ {x} : HoldsSlot(y)' <=> HoldsSlot(y)
      BY <2>1, <2>2, <2>4 DEF HoldsSlot
    <3>3. \A h \in Hosts : active'[h] = Cardinality(SlotsOf(h))'
      BY <2>2, <2>4, <3>1, <3>2, SlotTaken DEF Acquire, SlotsMatchConnections
    <3>4. PermitHolders' = PermitHolders
      BY <2>2 DEF PermitHolders, HasPermit
    <3> QED BY <2>2, <3>3, <3>4 DEF SlotsMatchConnections
  <2> QED BY <1>5, <2>1, <2>3, <2>4 DEF AcquireSlot
<1>6. CASE Admit
  <2>1. PICK x \in Conns : x = conn
    BY <1>6 DEF Admit, TypeOK
  <2>2. apc = "admit" /\ handler[x] = "none" /\ host[x] \in Hosts /\ host' = host
    BY <1>6, <2>1 DEF Admit, Ownership, TypeOK
  <2>3. CASE permits' = permits + 1 /\ handler' = [handler EXCEPT ![x] = "dial"]
             /\ apc' = "accept" /\ active' = active
    <3>1. ~HasPermit(x) /\ HasPermit(x)'
          /\ \A y \in Conns \ {x} : HasPermit(y)' <=> HasPermit(y)
      BY <2>2, <2>3 DEF HasPermit, TypeOK
    <3>2. permits' = Cardinality(PermitHolders)'
      BY <2>3, <3>1, PermitTaken DEF SlotsMatchConnections
    <3>3. \A y \in Conns : HoldsSlot(y)' <=> HoldsSlot(y)
      BY <2>1, <2>2, <2>3 DEF HoldsSlot, TypeOK
    <3>4. ASSUME NEW h \in Hosts PROVE SlotsOf(h)' = SlotsOf(h)
      BY <2>2, <3>3 DEF SlotsOf
    <3> QED BY <2>3, <3>2, <3>4 DEF SlotsMatchConnections
  <2>4. CASE Release(host[x]) /\ apc' = "refuse" /\ UNCHANGED <<permits, handler, conn>>
    <3>1. HoldsSlot(x) /\ ~HoldsSlot(x)'
      BY <2>1, <2>2, <2>4 DEF HoldsSlot
    <3>2. \A y \in Conns \ {x} : HoldsSlot(y)' <=> HoldsSlot(y)
      BY <2>1, <2>2, <2>4 DEF HoldsSlot
    <3>3. \A h \in Hosts : active'[h] = Cardinality(SlotsOf(h))'
      BY <2>2, <2>4, <3>1, <3>2, SlotFreed DEF SlotsMatchConnections
    <3>4. PermitHolders' = PermitHolders
      BY <2>4 DEF PermitHolders, HasPermit
    <3> QED BY <2>4, <3>3, <3>4 DEF SlotsMatchConnections
  <2> QED BY <1>6, <2>1, <2>3, <2>4 DEF Admit
<1>7. CASE Refuse
  <2>1. /\ conn \in Conns /\ handler[conn] = "none" /\ apc = "refuse" /\ apc' = "accept"
        /\ host' = [host EXCEPT ![conn] = NoHost] /\ UNCHANGED <<active, permits, handler>>
    BY <1>7 DEF Refuse, Ownership, TypeOK
  <2> QED BY <2>1, CountsUntouched DEF HasPermit, HoldsSlot, TypeOK
<1>8. ASSUME NEW x \in Conns, Handler(x) PROVE SlotsMatchConnections'
  <2>1. ASSUME NEW f \in {"dial", "wait", "closeUpstream", "closeClient"},
               NEW t \in {"wait", "closeUpstream", "closeClient", "permit"},
               HandlerGoes(x, f, t), UNCHANGED <<active, permits, host, acceptorVars>>
        PROVE  SlotsMatchConnections'
    BY <2>1, CountsUntouched DEF HandlerGoes, HasPermit, HoldsSlot, TypeOK, acceptorVars
  <2>2. CASE Dial(x) \/ Wait(x) \/ CloseUpstream(x) \/ CloseClient(x)
    BY <2>1, <2>2 DEF Dial, Wait, CloseUpstream, CloseClient
  <2>3. CASE FreePermit(x)
    <3>1. /\ handler[x] = "permit" /\ handler' = [handler EXCEPT ![x] = "slot"]
          /\ permits' = permits - 1 /\ UNCHANGED <<active, host, apc, conn>>
      BY <2>3 DEF FreePermit, HandlerGoes, acceptorVars
    <3>2. HasPermit(x) /\ ~HasPermit(x)'
          /\ \A y \in Conns \ {x} : HasPermit(y)' <=> HasPermit(y)
      BY <3>1 DEF HasPermit, TypeOK
    <3>3. permits' = Cardinality(PermitHolders)'
      BY <3>1, <3>2, PermitFreed DEF SlotsMatchConnections
    <3>4. \A y \in Conns : HoldsSlot(y)' <=> HoldsSlot(y)
      BY <3>1 DEF HoldsSlot, TypeOK
    <3>5. ASSUME NEW h \in Hosts PROVE SlotsOf(h)' = SlotsOf(h)
      BY <3>1, <3>4 DEF SlotsOf
    <3> QED BY <3>1, <3>3, <3>5 DEF SlotsMatchConnections
  <2>4. CASE FreeSlot(x)
    <3>1. /\ handler[x] = "slot" /\ handler' = [handler EXCEPT ![x] = "none"]
          /\ host[x] \in Hosts /\ host' = [host EXCEPT ![x] = NoHost] /\ Release(host[x])
          /\ UNCHANGED <<permits, apc, conn>>
      BY <2>4 DEF FreeSlot, HandlerGoes, acceptorVars, Ownership
    <3>2. HoldsSlot(x) /\ ~HoldsSlot(x)'
      BY <3>1 DEF HoldsSlot, Ownership, TypeOK
    <3>3. \A y \in Conns \ {x} : /\ HoldsSlot(y)' <=> HoldsSlot(y)
                                 /\ host'[y] = host[y]
      BY <3>1 DEF HoldsSlot, TypeOK
    <3>4. \A h \in Hosts : active'[h] = Cardinality(SlotsOf(h))'
      BY <3>1, <3>2, <3>3, SlotFreed DEF SlotsMatchConnections
    <3>5. PermitHolders' = PermitHolders
      BY <3>1 DEF PermitHolders, HasPermit, TypeOK
    <3> QED BY <3>1, <3>4, <3>5 DEF SlotsMatchConnections
  <2> QED BY <1>8, <2>2, <2>3, <2>4 DEF Handler
<1>9. ASSUME NEW x \in Conns, NEW w \in Ways, Copy(x, w) PROVE SlotsMatchConnections'
  BY <1>2, <1>9 DEF Copy, ReadData, ReadFails, Write, HalfClose, acceptorVars
<1>10. CASE CloseListener \/ Shutdown \/ Tick \/ UNCHANGED vars
  BY <1>2, <1>10 DEF CloseListener, Shutdown, Tick, vars, acceptorVars
<1> QED BY <1>3, <1>4, <1>5, <1>6, <1>7, <1>8, <1>9, <1>10
        DEF Next, Acceptor, AcceptorStep
\* Nothing but Acquire leads to the semaphore, and the handlers leave the host alone of
\* the connection the acceptor has in hand.
LEMMA PermittedStep == TypeOK /\ Ownership /\ OnlyPermitted /\ [Next]_vars => OnlyPermitted'
<1> SUFFICES ASSUME TypeOK, Ownership, OnlyPermitted, [Next]_vars PROVE OnlyPermitted'
  OBVIOUS
<1> USE DEF OnlyPermitted, Permitted
<1>1. ASSUME apc' # "admit" PROVE OnlyPermitted'
  BY <1>1
<1>2. ASSUME UNCHANGED <<apc, conn, host>> PROVE OnlyPermitted'
  BY <1>2
<1>3. CASE AcquireSlot
  BY <1>3 DEF AcquireSlot, Acquire, CanAcquire
<1>4. ASSUME NEW x \in Conns, FreeSlot(x) PROVE OnlyPermitted'
  <2>1. apc = "admit" => conn # x /\ conn \in Conns
    BY <1>4 DEF FreeSlot, HandlerGoes, Ownership, TypeOK
  <2>2. apc' = apc /\ conn' = conn /\ host' = [host EXCEPT ![x] = NoHost]
    BY <1>4 DEF FreeSlot, acceptorVars
  <2> QED BY <2>1, <2>2 DEF TypeOK
<1> QED BY <1>1, <1>2, <1>3, <1>4
        DEF Next, Acceptor, AcceptorStep, Accept, AcceptFails, Slept, Admit, Refuse,
            Handler, Dial, Wait, CloseUpstream, CloseClient, FreePermit, Copy, ReadData,
            ReadFails, Write, HalfClose, CloseListener, Shutdown, Tick, vars, acceptorVars
-----------------------------------------------------------------------------
LEMMA InvariantStep == IInv /\ [Next]_vars => IInv'
BY TypeStep, OwnershipStep, CountsStep, SocketsStep, DeadlinesStep, LimitStep, PermittedStep
   DEF IInv

\* The invariant holds throughout every execution, whatever the interleaving of the
\* acceptor, the handlers, the copies and the closer.
THEOREM Invariant == Spec => []IInv
BY InitInv, InvariantStep, PTL DEF Spec

\* Every variable keeps its type; in particular the semaphore never holds more permits
\* than its capacity, nor is one taken from an empty one.
THEOREM TypeCorrect == Spec => []TypeOK
BY Invariant, PTL DEF IInv

\* The policy's count of a host is the number of its connections and the semaphore holds
\* a permit per handler: for any limits, wherever a connection is turned away, nothing is
\* leaked or given back twice.
THEOREM SlotAccounting == Spec => []SlotsMatchConnections
BY Invariant, PTL DEF IInv

\* Both sockets are open while a copy runs, and every open socket has someone to close it.
THEOREM SocketOwnership == Spec => []SocketsOwned
BY Invariant, PTL DEF IInv

\* A deadline passes only when neither direction carried data for the timeout: the two
\* copies move the deadlines of both sockets, so these cannot drift apart.
THEOREM TimeoutsIdle == Spec => []TimeoutsAreIdle
<1>1. IInv => TimeoutsAreIdle
  BY DEF IInv, DeadlinesAgree, TimeoutsAreIdle, TimedOut
<1> QED BY <1>1, Invariant, PTL
-----------------------------------------------------------------------------
(* The refinement: Admit lets a stream in, FreePermit lets it go. *)

\* The streams served are the holders of a permit, and those of a host hold its slots.
LEMMA ServedHold ==
  ASSUME TypeOK, Ownership
  PROVE  /\ Admission!Served = PermitHolders
         /\ \A h \in Hosts : Admission!ServedOf(h) \subseteq SlotsOf(h)
<1>1. \A x \in Conns : HasPermit(x) => host[x] \in Hosts
  BY DEF HasPermit, Ownership
<1>2. \A x \in Conns : served[x] # NoHost <=> HasPermit(x)
  BY <1>1, TcpAssumption DEF served
<1>3. \A x \in Conns, h \in Hosts : served[x] = h => HasPermit(x) /\ host[x] = h
  BY TcpAssumption DEF served
<1> QED BY <1>2, <1>3 DEF Admission!Served, Admission!ServedOf, PermitHolders, SlotsOf, HasPermit,
                          HoldsSlot

\* A permit that is free and a slot that was counted make room for one more stream.  (The
\* instance has a Cardinality of its own, hence its definition below.)
LEMMA AdmitEnters == IInv /\ Admit => [Admission!Next]_served
<1> SUFFICES ASSUME IInv, Admit PROVE [Admission!Next]_served
  OBVIOUS
<1> USE DEF IInv
<1>1. PICK x \in Conns : x = conn
  BY DEF Admit, TypeOK
<1>2. PICK h \in Hosts : h = host[x]
  BY <1>1 DEF Admit, TypeOK, Ownership
<1>3. /\ apc = "admit" /\ handler[x] = "none" /\ host' = host /\ Permitted(h)
  BY <1>1, <1>2 DEF Admit, Ownership, TypeOK, OnlyPermitted
<1>4. CASE permits < MaxConnections /\ handler' = [handler EXCEPT ![x] = "dial"]
  <2>1. served[x] = NoHost /\ served' = [served EXCEPT ![x] = h]
    BY <1>2, <1>3, <1>4 DEF served, HasPermit, TypeOK
  <2>2. Cardinality(Admission!Served) < MaxConnections
    BY <1>4, ServedHold DEF SlotsMatchConnections
  <2>3. ASSUME MaxPerIP > 0 PROVE Cardinality(Admission!ServedOf(h)) < MaxPerIP
    <3>1. x \in SlotsOf(h) /\ x \notin Admission!ServedOf(h)
      BY <1>1, <1>2, <1>3, <2>1, TcpAssumption DEF SlotsOf, HoldsSlot, Admission!ServedOf
    <3>2. Admission!ServedOf(h) \subseteq SlotsOf(h) /\ Admission!ServedOf(h) # SlotsOf(h)
      BY <3>1, ServedHold
    <3>3. Cardinality(Admission!ServedOf(h)) < Cardinality(SlotsOf(h))
          /\ Cardinality(Admission!ServedOf(h)) \in Nat
      BY <3>2, HoldersFinite, FS_Subset, FS_CardinalityType
    <3>4. Cardinality(SlotsOf(h)) <= MaxPerIP
      BY <2>3 DEF SlotsMatchConnections, WithinLimit
    <3> QED BY <2>3, <3>3, <3>4, HoldersFinite, PolicyAssumption
  <2>4. Admission!Enter(x, h)
    BY <1>3, <2>1, <2>2, <2>3 DEF Admission!Enter, Cardinality, Admission!Cardinality
  <2> QED BY <2>4 DEF Admission!Next
<1>5. CASE UNCHANGED handler
  BY <1>3, <1>5 DEF served, HasPermit
<1> QED BY <1>1, <1>4, <1>5 DEF Admit

\* Every other step leaves the streams served as they are, but for the last of them a
\* handler takes before it gives back its slot.
LEMMA StepRefines == IInv /\ [Next]_vars => [Admission!Next]_served
<1> SUFFICES ASSUME IInv, [Next]_vars PROVE [Admission!Next]_served
  OBVIOUS
<1>1. TypeOK /\ Ownership
  BY DEF IInv
<1>2. ASSUME \A y \in Conns : (HasPermit(y)' <=> HasPermit(y)) /\ (HasPermit(y) => host'[y] = host[y])
      PROVE  served' = served
  BY <1>2 DEF served
<1>3. ASSUME UNCHANGED <<host, handler>> PROVE served' = served
  BY <1>2, <1>3 DEF HasPermit
<1>4. ASSUME NEW x \in Conns, NEW h \in Hosts, Accept(x, h) PROVE served' = served
  BY <1>1, <1>2, <1>4 DEF Accept, HasPermit, Ownership, TypeOK
<1>5. CASE Refuse
  BY <1>1, <1>2, <1>5 DEF Refuse, HasPermit, Ownership, TypeOK
<1>6. ASSUME NEW x \in Conns, FreePermit(x) PROVE Admission!Next
  <2>1. /\ handler[x] = "permit" /\ handler' = [handler EXCEPT ![x] = "slot"] /\ host' = host
        /\ host[x] \in Hosts
    BY <1>1, <1>6 DEF FreePermit, HandlerGoes, Ownership
  <2>2. served[x] # NoHost /\ served' = [served EXCEPT ![x] = NoHost]
    BY <1>1, <2>1, TcpAssumption DEF served, HasPermit, TypeOK
  <2> QED BY <2>2 DEF Admission!Leave, Admission!Next
<1>7. ASSUME NEW x \in Conns, FreeSlot(x) PROVE served' = served
  BY <1>1, <1>2, <1>7 DEF FreeSlot, HandlerGoes, HasPermit, TypeOK
<1>8. ASSUME NEW x \in Conns,
             NEW f \in {"dial", "wait", "closeUpstream", "closeClient"},
             NEW t \in {"wait", "closeUpstream", "closeClient", "permit"},
             HandlerGoes(x, f, t), host' = host
      PROVE  served' = served
  BY <1>1, <1>2, <1>8 DEF HandlerGoes, HasPermit, TypeOK
<1>9. ASSUME NEW x \in Conns, Dial(x) \/ Wait(x) \/ CloseUpstream(x) \/ CloseClient(x)
      PROVE  served' = served
  BY <1>8, <1>9 DEF Dial, Wait, CloseUpstream, CloseClient
<1> QED BY <1>3, <1>4, <1>5, <1>6, <1>7, <1>9, AdmitEnters
        DEF Next, Acceptor, AcceptorStep, AcceptFails, Slept, AcquireSlot, Handler, Copy,
            ReadData, ReadFails, Write, HalfClose, CloseListener, Shutdown, Tick, vars

\* TcpProxy admits and serves exactly as StreamAdmission says: permitted hosts only, at
\* most MaxPerIP streams of a host and MaxConnections in all, for any number of each.
THEOREM Refinement == Spec => ImplementsAdmission
<1>1. Init => Admission!Init
  BY DEF Init, Admission!Init, served, HasPermit
<1>2. IInv /\ [Next]_vars => [Admission!Next]_served
  BY StepRefines
<1> QED BY <1>1, <1>2, Invariant, PTL DEF Spec, ImplementsAdmission, Admission!Spec
=============================================================================

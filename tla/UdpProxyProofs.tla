--------------------------- MODULE UdpProxyProofs ---------------------------
(***************************************************************************)
(* UdpProxy proved for any number of clients, hosts, sessions and for any  *)
(* limits.  IInv is the inductive invariant.  Every step leaves the slots  *)
(* of the policy alone, takes one or frees one (SlotsMove); both the       *)
(* accounting and the refinement of StreamAdmission follow from that.      *)
(***************************************************************************)
EXTENDS UdpProxy, FiniteSetTheorems, TLAPS

IInv == TypeOK /\ Ownership /\ SlotsMatchSessions /\ SocketsOwned

USE PolicyAssumption, UdpAssumption

LEMMA SlotsFinite ==
  ASSUME NEW h
  PROVE  IsFiniteSet(SlotsOf(h)) /\ Cardinality(SlotsOf(h)) \in Nat
BY FS_Subset, FS_CardinalityType DEF SlotsOf

\* A step that changes neither the counter, nor who holds a slot, nor the owner of a
\* holder keeps them in agreement.
LEMMA SlotsUntouched ==
  ASSUME SlotsMatchSessions, active' = active,
         \A s \in Sessions : HoldsSlot(s)' <=> HoldsSlot(s),
         \A s \in Sessions : HoldsSlot(s) => owner'[s] = owner[s]
  PROVE  SlotsMatchSessions'
<1>1. ASSUME NEW h \in Hosts PROVE SlotsOf(h)' = SlotsOf(h)
  BY DEF SlotsOf
<1> QED BY <1>1 DEF SlotsMatchSessions

\* A step that gives session x a slot counts it for the host of its owner.
LEMMA SlotTaken ==
  ASSUME SlotsMatchSessions, TypeOK,
         NEW x \in Sessions, NEW g \in Hosts,
         ~HoldsSlot(x), HoldsSlot(x)', HostOf[owner'[x]] = g,
         \A s \in Sessions \ {x} : HoldsSlot(s)' <=> HoldsSlot(s),
         \A s \in Sessions \ {x} : HoldsSlot(s) => owner'[s] = owner[s],
         active' = [active EXCEPT ![g] = @ + 1]
  PROVE  SlotsMatchSessions'
<1>1. SlotsOf(g)' = SlotsOf(g) \cup {x} /\ x \notin SlotsOf(g)
  BY DEF SlotsOf
<1>2. Cardinality(SlotsOf(g))' = Cardinality(SlotsOf(g)) + 1
  <2>1. IsFiniteSet(SlotsOf(g))
    BY SlotsFinite
  <2>2. Cardinality(SlotsOf(g) \cup {x}) = Cardinality(SlotsOf(g)) + 1
    BY <1>1, <2>1, FS_AddElement
  <2> QED BY <1>1, <2>2
<1>3. ASSUME NEW h \in Hosts \ {g} PROVE SlotsOf(h)' = SlotsOf(h)
  BY DEF SlotsOf
<1> QED BY <1>2, <1>3 DEF SlotsMatchSessions, TypeOK

\* A step that takes the slot of session x away, and calls Release for its host,
\* takes exactly one from the count of that host: the floor of Release is not met.
LEMMA SlotFreed ==
  ASSUME SlotsMatchSessions, TypeOK,
         NEW x \in Sessions, NEW g \in Hosts,
         HoldsSlot(x), ~HoldsSlot(x)', HostOf[owner[x]] = g,
         \A s \in Sessions \ {x} : HoldsSlot(s)' <=> HoldsSlot(s),
         \A s \in Sessions \ {x} : HoldsSlot(s) => owner'[s] = owner[s],
         Release(g)
  PROVE  SlotsMatchSessions'
<1>1. SlotsOf(g)' = SlotsOf(g) \ {x} /\ x \in SlotsOf(g)
  BY DEF SlotsOf
<1>2. IsFiniteSet(SlotsOf(g))
  BY SlotsFinite
<1>3. /\ Cardinality(SlotsOf(g))' = Cardinality(SlotsOf(g)) - 1
      /\ Cardinality(SlotsOf(g))' \in Nat /\ Cardinality(SlotsOf(g)) \in Nat
  <2>1. /\ Cardinality(SlotsOf(g) \ {x}) = Cardinality(SlotsOf(g)) - 1
        /\ IsFiniteSet(SlotsOf(g) \ {x})
    BY <1>1, <1>2, FS_RemoveElement
  <2>2. Cardinality(SlotsOf(g) \ {x}) \in Nat /\ Cardinality(SlotsOf(g)) \in Nat
    BY <1>2, <2>1, FS_CardinalityType
  <2> QED BY <1>1, <2>1, <2>2
<1>4. active'[g] = Cardinality(SlotsOf(g))'
  BY <1>3 DEF Release, SlotsMatchSessions, TypeOK
<1>5. ASSUME NEW h \in Hosts \ {g} PROVE SlotsOf(h)' = SlotsOf(h)
  BY DEF SlotsOf
<1> QED BY <1>4, <1>5 DEF Release, SlotsMatchSessions, TypeOK

-----------------------------------------------------------------------------
LEMMA InitInv == Init => IInv
<1> SUFFICES ASSUME Init PROVE IInv
  OBVIOUS
<1>1. TypeOK
  <2>1. done \in BOOLEAN /\ listener \in BOOLEAN
    BY DEF Init
  <2>2. /\ active \in [Hosts -> Nat]
        /\ age \in [Sessions -> 0..MaxAge]
        /\ lag \in 0..MaxLag
    BY DEF Init, InitPolicy, MaxAge
  <2>3. /\ table \in [Clients -> Sessions \cup {NoSession}]
        /\ owner \in [Sessions -> Clients \cup {NoClient}]
        /\ relay \in [Sessions -> {"none", "read", "touch", "write", "close", "remove"}]
    BY DEF Init
  <2> QED BY <2>1, <2>2, <2>3 DEF Init, TypeOK
<1>2. Ownership /\ SocketsOwned
  BY DEF Init, Ownership, SocketsOwned, InTable
<1>3. ASSUME NEW h \in Hosts PROVE SlotsOf(h) = {}
  BY DEF Init, SlotsOf, HoldsSlot, InTable
<1>4. SlotsMatchSessions
  BY <1>3, FS_EmptySet DEF Init, InitPolicy, SlotsMatchSessions
<1> QED BY <1>1, <1>2, <1>4 DEF IInv

\* Every step keeps the types.
LEMMA TypeStep == TypeOK /\ Ownership /\ [Next]_vars => TypeOK'
<1> SUFFICES ASSUME TypeOK, Ownership, [Next]_vars PROVE TypeOK'
  OBVIOUS
<1> USE DEF TypeOK, readerVars, sweepVars, LockFree, RelayGoes
<1>1. ASSUME NEW c \in Clients, Receive(c) PROVE TypeOK'
  BY <1>1 DEF Receive
<1>2. CASE StopReading
  BY <1>2 DEF StopReading
<1>3. CASE Lookup
  BY <1>3 DEF Lookup, MaxAge
<1>4. CASE CheckFull
  BY <1>4 DEF CheckFull, NextDatagram
<1>5. CASE AcquireSlot
  BY <1>5 DEF AcquireSlot, Acquire, NextDatagram
<1>6. CASE Dial
  BY <1>6 DEF Dial, AbandonSession, Release, NextDatagram, MaxAge
<1>7. CASE Insert
  BY <1>7 DEF Insert, AbandonSession, Release, NextDatagram
<1>8. CASE Forward
  BY <1>8 DEF Forward, NextDatagram
<1>9. ASSUME NEW s \in Sessions, Relay(s) PROVE TypeOK'
  <2>1. CASE RelayRead(s) \/ RelayReadFails(s) \/ RelayWrite(s) \/ RelayClose(s)
    BY <2>1 DEF RelayRead, RelayReadFails, RelayWrite, RelayClose
  <2>2. CASE RelayTouch(s)
    BY <2>2 DEF RelayTouch, MaxAge
  <2>3. CASE RelayRemove(s)
    BY <2>3 DEF RelayRemove, RemoveOwn, Release, MaxAge, Ownership
  <2> QED BY <1>9, <2>1, <2>2, <2>3 DEF Relay
<1>10. ASSUME NEW l \in 0..MaxLag, SweepLock(l) PROVE TypeOK'
  BY <1>10 DEF SweepLock
<1>11. ASSUME NEW c \in Clients, SweepKey(c) PROVE TypeOK'
  BY <1>11 DEF SweepKey, Release, Ownership, MaxAge
<1>12. CASE SweepUnlock \/ SweepStop \/ Shutdown \/ Closer
  <2>1. CASE SweepUnlock
    BY <2>1 DEF SweepUnlock
  <2>2. CASE SweepStop
    BY <2>2 DEF SweepStop
  <2>3. CASE Shutdown
    BY <2>3 DEF Shutdown
  <2>4. CASE CloseListener
    BY <2>4 DEF CloseListener
  <2>5. CASE CloseAll
    BY <2>5 DEF CloseAll
  <2> QED BY <1>12, <2>1, <2>2, <2>3, <2>4, <2>5 DEF Closer
<1>13. CASE Tick
  BY <1>13 DEF Tick, Ageing, MaxAge
<1>14. CASE UNCHANGED vars
  BY <1>14 DEF vars
<1> QED BY <1>1, <1>2, <1>3, <1>4, <1>5, <1>6, <1>7, <1>8, <1>9, <1>10, <1>11, <1>12,
           <1>13, <1>14 DEF Next, Reader, Sweeper

\* Every step keeps the references to sessions consistent: what is inserted is the
\* client's own session with its relay, and what ends is referred to by nobody.
LEMMA OwnershipStep == TypeOK /\ Ownership /\ [Next]_vars => Ownership'
<1> SUFFICES ASSUME TypeOK, Ownership, [Next]_vars PROVE Ownership'
  OBVIOUS
<1> USE DEF TypeOK, Ownership, readerVars, sweepVars, LockFree, RelayGoes
<1>1. ASSUME NEW c \in Clients, Receive(c) PROVE Ownership'
  BY <1>1 DEF Receive
<1>2. CASE StopReading
  BY <1>2 DEF StopReading
<1>3. CASE Lookup
  BY <1>3 DEF Lookup
<1>4. CASE CheckFull
  BY <1>4 DEF CheckFull, NextDatagram
<1>5. CASE AcquireSlot
  BY <1>5 DEF AcquireSlot, Unused, InTable, NextDatagram
<1>6. CASE Dial
  BY <1>6 DEF Dial, AbandonSession, NextDatagram
<1>7. CASE Insert
  BY <1>7 DEF Insert, AbandonSession, NextDatagram
<1>8. CASE Forward
  BY <1>8 DEF Forward, NextDatagram
<1>9. ASSUME NEW s \in Sessions, Relay(s) PROVE Ownership'
  <2>1. CASE RelayRead(s) \/ RelayReadFails(s) \/ RelayWrite(s) \/ RelayClose(s)
    BY <2>1 DEF RelayRead, RelayReadFails, RelayWrite, RelayClose
  <2>2. CASE RelayTouch(s)
    BY <2>2 DEF RelayTouch
  <2>3. CASE RelayRemove(s)
    BY <2>3 DEF RelayRemove, RemoveOwn
  <2> QED BY <1>9, <2>1, <2>2, <2>3 DEF Relay
<1>10. ASSUME NEW l \in 0..MaxLag, SweepLock(l) PROVE Ownership'
  BY <1>10 DEF SweepLock
<1>11. ASSUME NEW c \in Clients, SweepKey(c) PROVE Ownership'
  BY <1>11 DEF SweepKey
<1>12. CASE SweepUnlock \/ SweepStop \/ Shutdown \/ Closer
  BY <1>12 DEF SweepUnlock, SweepStop, Shutdown, Closer, CloseListener, CloseAll
<1>13. CASE Tick
  BY <1>13 DEF Tick
<1>14. CASE UNCHANGED vars
  BY <1>14 DEF vars
<1> QED BY <1>1, <1>2, <1>3, <1>4, <1>5, <1>6, <1>7, <1>8, <1>9, <1>10, <1>11, <1>12,
           <1>13, <1>14 DEF Next, Reader, Sweeper

\* Every step leaves each open socket with someone to close it.
LEMMA SocketsStep ==
  TypeOK /\ Ownership /\ SocketsOwned /\ [Next]_vars => SocketsOwned'
<1> SUFFICES ASSUME TypeOK, Ownership, SocketsOwned, [Next]_vars PROVE SocketsOwned'
  OBVIOUS
<1> USE DEF SocketsOwned, InTable, TypeOK, Ownership, readerVars, sweepVars, RelayGoes
<1>1. ASSUME NEW c \in Clients, Receive(c) PROVE SocketsOwned'
  BY <1>1 DEF Receive
<1>2. CASE StopReading \/ Lookup \/ CheckFull \/ Forward
  BY <1>2 DEF StopReading, Lookup, CheckFull, Forward, NextDatagram
<1>3. CASE AcquireSlot
  BY <1>3 DEF AcquireSlot, NextDatagram
<1>4. CASE Dial
  BY <1>4 DEF Dial, AbandonSession, NextDatagram
<1>5. CASE Insert
  BY <1>5 DEF Insert, AbandonSession, NextDatagram
<1>6. ASSUME NEW s \in Sessions, Relay(s) PROVE SocketsOwned'
  <2>1. CASE RelayRead(s) \/ RelayReadFails(s) \/ RelayTouch(s) \/ RelayWrite(s)
    BY <2>1 DEF RelayRead, RelayReadFails, RelayTouch, RelayWrite
  <2>2. CASE RelayClose(s)
    BY <2>2 DEF RelayClose
  <2>3. CASE RelayRemove(s)
    BY <2>3 DEF RelayRemove, RemoveOwn
  <2> QED BY <1>6, <2>1, <2>2, <2>3 DEF Relay
<1>7. CASE Sweeper
  BY <1>7 DEF Sweeper, SweepLock, SweepKey, SweepUnlock, SweepStop
<1>8. CASE Shutdown \/ Closer
  BY <1>8 DEF Shutdown, Closer, CloseListener, CloseAll
<1>9. CASE Tick
  BY <1>9 DEF Tick
<1>10. CASE UNCHANGED vars
  BY <1>10 DEF vars
<1> QED BY <1>1, <1>2, <1>3, <1>4, <1>5, <1>6, <1>7, <1>8, <1>9, <1>10 DEF Next, Reader
\* What a step can do to the slots: leave them, take one, free one.
Others(x) == \A s \in Sessions \ {x} : /\ HoldsSlot(s)' <=> HoldsSlot(s)
                                       /\ HoldsSlot(s) => owner'[s] = owner[s]
Kept     == /\ active' = active
            /\ \A s \in Sessions : /\ HoldsSlot(s)' <=> HoldsSlot(s)
                                   /\ HoldsSlot(s) => owner'[s] = owner[s]
Taken(x) == /\ ~HoldsSlot(x) /\ HoldsSlot(x)' /\ Others(x)
            /\ rpc = "acquire" /\ owner'[x] \in Clients /\ Acquire(HostOf[owner'[x]])
Freed(x) == /\ HoldsSlot(x) /\ ~HoldsSlot(x)' /\ Others(x)
            /\ owner[x] \in Clients /\ Release(HostOf[owner[x]])
Moved    == Kept \/ \E x \in Sessions : Taken(x) \/ Freed(x)

\* Every step does one of these: AcquireSlot takes a slot; Dial and Insert (abandoned),
\* RelayRemove and SweepKey free one; Insert otherwise turns the slot of the reader's
\* creation into that of a table entry.
LEMMA SlotsMove == TypeOK /\ Ownership /\ [Next]_vars => Moved
<1> SUFFICES ASSUME TypeOK, Ownership, [Next]_vars PROVE Moved
  OBVIOUS
<1> USE DEF Moved, Kept, Others
<1>1. ASSUME UNCHANGED <<active, table, owner>>,
             rpc' \notin {"dial", "insert"}, rpc \notin {"dial", "insert"}
      PROVE  Moved
  BY <1>1 DEF HoldsSlot, InTable
<1>2. ASSUME UNCHANGED <<active, table, owner, rpc, session>> PROVE Moved
  BY <1>2 DEF HoldsSlot, InTable
<1>3. CASE \E c \in Clients : Receive(c)
  BY <1>1, <1>3 DEF Receive
<1>4. CASE StopReading \/ Lookup \/ CheckFull \/ Forward
  BY <1>1, <1>4 DEF StopReading, Lookup, CheckFull, Forward, NextDatagram
<1>5. CASE AcquireSlot
  <2>1. CASE UNCHANGED <<active, owner>> /\ NextDatagram
    BY <1>1, <1>5, <2>1 DEF AcquireSlot, NextDatagram
  <2>2. ASSUME Acquire(HostOf[client]), rpc' = "dial",
               NEW s \in Sessions, Unused(s), session' = s,
               owner' = [owner EXCEPT ![s] = client]
        PROVE  Moved
    <3>1. table' = table /\ rpc = "acquire" /\ client \in Clients
      BY <1>5 DEF AcquireSlot, TypeOK
    <3>2. ~HoldsSlot(s) /\ HoldsSlot(s)'
      BY <2>2, <3>1 DEF HoldsSlot, Unused
    <3>3. \A t \in Sessions \ {s} : (HoldsSlot(t)' <=> HoldsSlot(t)) /\ owner'[t] = owner[t]
      BY <2>2, <3>1 DEF HoldsSlot, InTable, TypeOK
    <3>4. owner'[s] = client /\ HostOf[client] \in Hosts
      BY <2>2, <3>1, UdpAssumption DEF TypeOK
    <3> QED BY <2>2, <3>1, <3>2, <3>3, <3>4 DEF Taken
  <2>3. \/ UNCHANGED <<active, owner>> /\ NextDatagram
        \/ /\ Acquire(HostOf[client]) /\ rpc' = "dial"
           /\ \E s \in Sessions : /\ Unused(s) /\ session' = s
                                  /\ owner' = [owner EXCEPT ![s] = client]
    BY <1>5 DEF AcquireSlot
  <2> QED BY <2>1, <2>2, <2>3
<1>6. ASSUME AbandonSession, rpc \in {"dial", "insert"}, table' = table
      PROVE  Moved
  <2>1. PICK x \in Sessions : x = session
    BY <1>6 DEF TypeOK
  <2>2. owner[x] = client /\ client \in Clients /\ HostOf[client] \in Hosts
    BY <1>6, <2>1, UdpAssumption DEF Ownership, TypeOK
  <2>3. ~InTable(x)
    BY <1>6, <2>1 DEF InTable, Ownership, TypeOK
  <2>4. rpc' = "recv" /\ owner' = [owner EXCEPT ![x] = NoClient] /\ Release(HostOf[client])
    BY <1>6, <2>1 DEF AbandonSession, NextDatagram
  <2>5. HoldsSlot(x) /\ ~HoldsSlot(x)'
    BY <1>6, <2>1, <2>3, <2>4 DEF HoldsSlot, InTable
  <2>6. \A t \in Sessions \ {x} : (HoldsSlot(t)' <=> HoldsSlot(t)) /\ owner'[t] = owner[t]
    BY <1>6, <2>1, <2>4 DEF HoldsSlot, InTable, TypeOK
  <2> QED BY <2>2, <2>4, <2>5, <2>6 DEF Freed
<1>7. CASE Dial
  BY <1>2, <1>6, <1>7 DEF Dial, HoldsSlot, InTable
<1>8. CASE Insert
  <2>1. CASE AbandonSession
    <3>1. rpc = "insert" /\ table' = table
      BY <1>8, <2>1 DEF Insert, AbandonSession, NextDatagram
    <3> QED BY <1>6, <2>1, <3>1
  <2>2. CASE /\ table' = [table EXCEPT ![client] = session]
             /\ rpc' = "write" /\ UNCHANGED <<active, owner>>
    <3>1. rpc = "insert" /\ client \in Clients /\ session \in Sessions
          /\ table[client] = NoSession
      BY <1>8 DEF Insert, TypeOK, Ownership
    <3>2. \A t \in Sessions : HoldsSlot(t)' <=> HoldsSlot(t)
      BY <2>2, <3>1, UdpAssumption DEF HoldsSlot, InTable, TypeOK
    <3> QED BY <2>2, <3>2
  <2> QED BY <1>8, <2>1, <2>2 DEF Insert
<1>9. ASSUME NEW s \in Sessions, Relay(s) PROVE Moved
  <2>1. CASE RelayRead(s) \/ RelayReadFails(s) \/ RelayTouch(s) \/ RelayWrite(s)
             \/ RelayClose(s)
    BY <1>2, <2>1 DEF RelayRead, RelayReadFails, RelayTouch, RelayWrite, RelayClose,
                      readerVars
  <2>2. CASE RelayRemove(s)
    <3>1. /\ relay[s] = "remove" /\ owner[s] \in Clients /\ HostOf[owner[s]] \in Hosts
          /\ owner' = [owner EXCEPT ![s] = NoClient]
          /\ rpc' = rpc /\ session' = session
      BY <2>2, UdpAssumption DEF RelayRemove, RelayGoes, readerVars, Ownership, TypeOK
    <3>2. ~(rpc \in {"dial", "insert"} /\ session = s)
      BY <3>1 DEF Ownership
    <3>3. \A t \in Sessions \ {s} : owner'[t] = owner[t]
      BY <3>1 DEF TypeOK
    <3>4. CASE table[owner[s]] = s
      <4>1. table' = [table EXCEPT ![owner[s]] = NoSession] /\ Release(HostOf[owner[s]])
        BY <2>2, <3>4 DEF RelayRemove, RemoveOwn
      <4>2. HoldsSlot(s)
        BY <3>1, <3>4 DEF HoldsSlot, InTable
      <4>3. ~HoldsSlot(s)'
        BY <3>1, <3>2, <3>4, <4>1, UdpAssumption DEF HoldsSlot, InTable, Ownership, TypeOK
      <4>4. \A t \in Sessions \ {s} : HoldsSlot(t)' <=> HoldsSlot(t)
        BY <3>1, <3>4, <4>1, UdpAssumption DEF HoldsSlot, InTable, TypeOK
      <4> QED BY <3>1, <3>3, <4>1, <4>2, <4>3, <4>4 DEF Freed
    <3>5. CASE table[owner[s]] # s
      <4>1. UNCHANGED <<table, active>>
        BY <2>2, <3>5 DEF RelayRemove, RemoveOwn
      <4>2. ~HoldsSlot(s)
        BY <3>2, <3>5, UdpAssumption DEF HoldsSlot, InTable, Ownership, TypeOK
      <4>3. \A t \in Sessions : HoldsSlot(t)' <=> HoldsSlot(t)
        BY <3>1, <4>1 DEF HoldsSlot, InTable
      <4> QED BY <3>3, <4>1, <4>2, <4>3
    <3> QED BY <3>4, <3>5
  <2> QED BY <1>9, <2>1, <2>2 DEF Relay
<1>10. ASSUME NEW l \in 0..MaxLag, SweepLock(l) PROVE Moved
  BY <1>2, <1>10 DEF SweepLock, readerVars
<1>11. ASSUME NEW c \in Clients, SweepKey(c) PROVE Moved
  <2>1. /\ table[c] \in Sessions /\ owner[table[c]] = c /\ HostOf[c] \in Hosts
        /\ owner' = owner /\ rpc' = rpc /\ session' = session
        /\ relay[table[c]] # "none"
    BY <1>11, UdpAssumption DEF SweepKey, readerVars, Ownership, TypeOK
  <2>2. CASE UNCHANGED <<table, active>>
    BY <1>2, <2>1, <2>2
  <2>3. CASE table' = [table EXCEPT ![c] = NoSession] /\ Release(HostOf[c])
    <3>1. PICK x \in Sessions : x = table[c]
      BY <2>1
    <3>2. HoldsSlot(x)
      BY <3>1 DEF HoldsSlot, InTable
    <3>3. ~(rpc \in {"dial", "insert"} /\ session = x)
      BY <2>1, <3>1 DEF Ownership
    <3>4. ~HoldsSlot(x)'
      BY <2>1, <2>3, <3>1, <3>3, UdpAssumption DEF HoldsSlot, InTable, Ownership, TypeOK
    <3>5. \A t \in Sessions \ {x} : HoldsSlot(t)' <=> HoldsSlot(t)
      BY <2>1, <2>3, <3>1, UdpAssumption DEF HoldsSlot, InTable, TypeOK
    <3> QED BY <2>1, <2>3, <3>1, <3>2, <3>4, <3>5 DEF Freed
  <2> QED BY <1>11, <2>1, <2>2, <2>3 DEF SweepKey
<1>12. CASE SweepUnlock \/ SweepStop \/ Shutdown \/ Closer \/ Tick
  BY <1>2, <1>12 DEF SweepUnlock, SweepStop, Shutdown, Closer, CloseListener, CloseAll,
                     Tick, readerVars
<1>13. CASE UNCHANGED vars
  BY <1>2, <1>13 DEF vars, readerVars
<1> QED BY <1>3, <1>4, <1>5, <1>7, <1>8, <1>9, <1>10, <1>11, <1>12, <1>13
        DEF Next, Reader, Sweeper

\* Every step keeps the policy's counts in agreement with the slots.
LEMMA SlotsStep ==
  TypeOK /\ Ownership /\ SlotsMatchSessions /\ [Next]_vars => SlotsMatchSessions'
<1> SUFFICES ASSUME TypeOK, Ownership, SlotsMatchSessions, [Next]_vars
             PROVE  SlotsMatchSessions'
  OBVIOUS
<1>1. CASE Kept
  BY <1>1, SlotsUntouched DEF Kept
<1>2. ASSUME NEW x \in Sessions, Taken(x) PROVE SlotsMatchSessions'
  BY <1>2, SlotTaken DEF Taken, Others, Acquire
<1>3. ASSUME NEW x \in Sessions, Freed(x) PROVE SlotsMatchSessions'
  BY <1>3, SlotFreed DEF Freed, Others
<1> QED BY <1>1, <1>2, <1>3, SlotsMove DEF Moved
-----------------------------------------------------------------------------
LEMMA InvariantStep == IInv /\ [Next]_vars => IInv'
BY TypeStep, OwnershipStep, SlotsStep, SocketsStep DEF IInv

\* The invariant holds throughout every execution, whatever the interleaving of the
\* reader, the relays, the sweeper and the closer.
THEOREM Invariant == Spec => []IInv
<1>1. Init => IInv
  BY InitInv
<1>2. IInv /\ [Next]_vars => IInv'
  BY InvariantStep
<1> QED BY <1>1, <1>2, PTL DEF Spec

\* The reader never forwards a datagram without a session, and every variable keeps
\* its type: lookup and create return nil only where RunUDPProxy continues.
THEOREM TypeCorrect == Spec => []TypeOK
BY Invariant, PTL DEF IInv

\* The count of the policy is the number of sessions of each host: for any number of
\* clients and any limits, no slot of a host is leaked or given back twice.
THEOREM SlotAccounting == Spec => []SlotsMatchSessions
BY Invariant, PTL DEF IInv

\* Every open upstream socket has a goroutine that will close it, and every entry of
\* the table a relay that will remove it.
THEOREM SocketOwnership == Spec => []SocketsOwned
BY Invariant, PTL DEF IInv
-----------------------------------------------------------------------------
\* Only the sweeper, for a session that is idle, and the relay of that very session take
\* an entry away; the reader inserts only where there is none.
LEMMA RemovalStep == IInv /\ [Next]_vars => RemovalJustified
<1> SUFFICES ASSUME IInv, [Next]_vars,
                    NEW c \in Clients, table[c] # NoSession, table'[c] # table[c]
             PROVE  /\ table'[c] = NoSession
                    /\ \/ spc = "sweep" /\ age[table[c]] >= IdleTimeout
                       \/ relay[table[c]] = "remove" /\ relay'[table[c]] = "none"
  BY DEF RemovalJustified
<1>1. TypeOK /\ Ownership
  BY DEF IInv
<1>2. ~Insert
  BY <1>1 DEF Insert, AbandonSession, Ownership, TypeOK
<1>3. ASSUME NEW d \in Clients, SweepKey(d)
      PROVE  table'[c] = NoSession /\ spc = "sweep" /\ age[table[c]] >= IdleTimeout
  <2>1. d = c /\ Expired(table[c]) /\ spc = "sweep" /\ table' = [table EXCEPT ![c] = NoSession]
    BY <1>1, <1>3 DEF SweepKey, TypeOK
  <2>2. table[c] \in Sessions /\ age[table[c]] \in Nat /\ lag \in Nat
    BY <1>1 DEF TypeOK, MaxAge
  <2> QED BY <1>1, <2>1, <2>2 DEF Expired, TypeOK
<1>4. ASSUME NEW s \in Sessions, RelayRemove(s)
      PROVE  table'[c] = NoSession /\ relay[table[c]] = "remove" /\ relay'[table[c]] = "none"
  <2>1. table[owner[s]] = s /\ table' = [table EXCEPT ![owner[s]] = NoSession]
    BY <1>4 DEF RelayRemove, RemoveOwn
  <2>2. owner[s] = c /\ table[c] = s
    BY <1>1, <2>1 DEF TypeOK
  <2> QED BY <1>1, <1>4, <2>1, <2>2 DEF RelayRemove, RelayGoes, TypeOK
<1> QED BY <1>2, <1>3, <1>4
        DEF Next, Reader, Receive, StopReading, Lookup, CheckFull, AcquireSlot, Dial, Forward,
            Relay, RelayRead, RelayReadFails, RelayTouch, RelayWrite, RelayClose, Sweeper,
            SweepLock, SweepUnlock, SweepStop, Closer, CloseListener, CloseAll, Shutdown, Tick,
            vars

\* A client loses its session only to the sweeper, after the timeout, or to the relay of
\* that very session; never to the relay of a session it had before.
THEOREM LossJustified == Spec => SessionLossJustified
<1>1. IInv /\ [Next]_vars => [RemovalJustified]_vars
  BY RemovalStep
<1> QED BY <1>1, Invariant, PTL DEF Spec, SessionLossJustified
-----------------------------------------------------------------------------
(* Shutdown: what closeAll leaves open *)

\* The reader is at a place where it has not opened a socket for its datagram.
NothingDialed == rpc \in {"lookup", "check", "acquire", "dial"}

\* A socket that is open belongs to a session of the table or to the one in creation; so
\* closeAll leaves at most the latter's, and a reader that has no listener any more opens
\* at most one, for the datagram it has in hand.
Stragglers ==
  /\ cpc # "wait" => ~listener
  /\ \A s \in open : InTable(s) \/ (rpc = "insert" /\ session = s)
  /\ cpc = "ended" => /\ NothingDialed => open = {}
                      /\ rpc = "insert" => open \subseteq {session}
                      /\ \A s, t \in open : s = t

LEMMA StragglersStep == IInv /\ Stragglers /\ [Next]_vars => Stragglers'
<1> SUFFICES ASSUME IInv, Stragglers, [Next]_vars PROVE Stragglers'
  OBVIOUS
<1>1. TypeOK /\ Ownership /\ SocketsOwned
  BY DEF IInv
<1> USE DEF Stragglers, NothingDialed, InTable, readerVars, sweepVars
<1>2. ASSUME NEW c \in Clients, Receive(c) PROVE Stragglers'
  BY <1>2 DEF Receive
<1>3. CASE StopReading \/ Lookup \/ CheckFull \/ Forward
  BY <1>3 DEF StopReading, Lookup, CheckFull, Forward, NextDatagram
<1>4. CASE AcquireSlot
  BY <1>4 DEF AcquireSlot, NextDatagram
<1>5. CASE Dial
  BY <1>5 DEF Dial, AbandonSession, NextDatagram
<1>6. CASE Insert
  <2>1. client \in Clients /\ table[client] = NoSession
    BY <1>1, <1>6 DEF Insert, TypeOK, Ownership
  <2> QED BY <1>1, <1>6, <2>1 DEF Insert, AbandonSession, NextDatagram, TypeOK
<1>7. ASSUME NEW s \in Sessions, Relay(s) PROVE Stragglers'
  <2>1. CASE RelayRead(s) \/ RelayReadFails(s) \/ RelayTouch(s) \/ RelayWrite(s) \/ RelayClose(s)
    BY <2>1 DEF RelayRead, RelayReadFails, RelayTouch, RelayWrite, RelayClose
  <2>2. CASE RelayRemove(s)
    <3>1. s \notin open /\ owner[s] \in Clients
      BY <1>1, <2>2 DEF RelayRemove, RelayGoes, SocketsOwned, Ownership
    <3>2. ASSUME NEW t \in open, InTable(t) PROVE InTable(t)'
      BY <1>1, <2>2, <3>1, <3>2 DEF RelayRemove, RemoveOwn, TypeOK
    <3> QED BY <2>2, <3>2 DEF RelayRemove
  <2> QED BY <1>7, <2>1, <2>2 DEF Relay
<1>8. CASE Sweeper
  <2>1. ASSUME NEW c \in Clients, SweepKey(c) PROVE Stragglers'
    BY <1>1, <2>1 DEF SweepKey, TypeOK
  <2> QED BY <1>8, <2>1 DEF Sweeper, SweepLock, SweepUnlock, SweepStop
<1>9. CASE Closer
  BY <1>9 DEF Closer, CloseListener, CloseAll
<1>10. CASE Shutdown \/ Tick \/ UNCHANGED vars
  BY <1>10 DEF Shutdown, Tick, vars
<1> QED BY <1>2, <1>3, <1>4, <1>5, <1>6, <1>7, <1>8, <1>9, <1>10 DEF Next, Reader

\* Once closeAll has run one upstream socket is open at most, whatever the reader and the
\* relays were doing when the listener was closed.
THEOREM OneStraggler == Spec => []AtMostOneStraggler
<1>1. Init => Stragglers
  BY DEF Init, Stragglers, NothingDialed
<1>2. IInv /\ Stragglers => AtMostOneStraggler
  <2> SUFFICES ASSUME IInv, Stragglers, cpc = "ended" PROVE Cardinality(open) <= 1
    BY DEF AtMostOneStraggler
  <2>1. CASE open = {}
    BY <2>1, FS_EmptySet
  <2>2. ASSUME NEW s \in open PROVE Cardinality(open) <= 1
    <3>1. \A t \in open : t = s
      BY <2>2 DEF Stragglers
    <3>2. open = {s}
      BY <2>2, <3>1
    <3>3. Cardinality({s}) = 1
      BY FS_Singleton
    <3> QED BY <3>2, <3>3
  <2> QED BY <2>1, <2>2
<1> QED BY <1>1, <1>2, StragglersStep, Invariant, PTL DEF Spec
-----------------------------------------------------------------------------
(* The refinement: AcquireSlot lets a stream in; whatever gives a slot back lets one go. *)

Tabled == {s \in Sessions : InTable(s)}
Keys   == {c \in Clients : table[c] # NoSession}

\* The table holds as many sessions as it has keys.
LEMMA TableSize ==
  ASSUME TypeOK, Ownership
  PROVE  /\ IsFiniteSet(Keys) /\ Size = Cardinality(Tabled)
         /\ Size = Cardinality(Keys) /\ Size \in Nat
<1> DEFINE f == [s \in Tabled |-> owner[s]]
<1>1. IsFiniteSet(Tabled)
  BY FS_Subset DEF Tabled
<1>2. \A s \in Tabled : owner[s] \in Keys /\ table[owner[s]] = s
  BY DEF Tabled, Keys, InTable, Ownership, TypeOK
<1>3. \A c \in Keys : table[c] \in Tabled /\ f[table[c]] = c
  BY DEF Tabled, Keys, InTable, Ownership, TypeOK
<1>4. f \in Bijection(Tabled, Keys)
  BY <1>2, <1>3 DEF Bijection, Injection, Surjection, IsInjective
<1>5. ExistsBijection(Tabled, Keys)
  BY <1>4 DEF ExistsBijection
<1> QED BY <1>1, <1>5, FS_Bijection, FS_CardinalityType DEF Size, Keys
\* The reader is alone to insert: the room it found in CheckFull is there when it takes
\* the slot.
Room == rpc = "acquire" => Size < MaxSessions

LEMMA RoomStep == IInv /\ Room /\ [Next]_vars => Room'
<1> SUFFICES ASSUME IInv, Room, [Next]_vars, rpc' = "acquire"
             PROVE  Size' < MaxSessions
  BY DEF Room
<1>1. TypeOK /\ Ownership
  BY DEF IInv
<1>2. CASE CheckFull
  <2>1. Size' = Size /\ ~Full
    BY <1>2 DEF CheckFull, NextDatagram, Size
  <2> QED BY <1>1, <2>1, TableSize DEF Full
<1>3. ~Insert
  BY DEF Insert, AbandonSession, NextDatagram
<1>4. ASSUME rpc = "acquire", Keys' \subseteq Keys PROVE Size' < MaxSessions
  <2>1. IsFiniteSet(Keys) /\ Size = Cardinality(Keys) /\ Size \in Nat
    BY <1>1, TableSize
  <2>2. /\ Size' = Cardinality(Keys') /\ Cardinality(Keys') \in Nat
        /\ Cardinality(Keys') <= Cardinality(Keys)
    BY <1>4, <2>1, FS_Subset, FS_CardinalityType DEF Size, Keys
  <2> QED BY <1>4, <2>1, <2>2 DEF Room
<1>5. ASSUME rpc = "acquire", table' = table PROVE Size' < MaxSessions
  BY <1>4, <1>5 DEF Keys
<1>6. ASSUME NEW s \in Sessions, RelayRemove(s) PROVE Size' < MaxSessions
  <2>1. rpc = "acquire" /\ Keys' \subseteq Keys
    BY <1>1, <1>6 DEF RelayRemove, RemoveOwn, readerVars, Keys, TypeOK
  <2> QED BY <1>4, <2>1
<1>7. ASSUME NEW c \in Clients, SweepKey(c) PROVE Size' < MaxSessions
  <2>1. rpc = "acquire" /\ Keys' \subseteq Keys
    BY <1>1, <1>7 DEF SweepKey, readerVars, Keys, TypeOK
  <2> QED BY <1>4, <2>1
<1> QED BY <1>2, <1>3, <1>5, <1>6, <1>7
        DEF Next, Reader, Receive, StopReading, Lookup, AcquireSlot, Dial, Forward,
            AbandonSession, NextDatagram,
            Relay, RelayRead, RelayReadFails, RelayTouch, RelayWrite, RelayClose, Sweeper,
            SweepLock, SweepUnlock, SweepStop, Closer, CloseListener, CloseAll, Shutdown, Tick,
            vars, readerVars

\* The streams served are the sessions with a slot, host by host; while the reader asks
\* for one, they are those of the table.
LEMMA ServedHold ==
  ASSUME TypeOK, Ownership
  PROVE  /\ \A x \in Sessions : HoldsSlot(x) => owner[x] \in Clients /\ HostOf[owner[x]] \in Hosts
         /\ \A x \in Sessions : served[x] = NoClient <=> ~HoldsSlot(x)
         /\ \A h \in Hosts : Admission!ServedOf(h) = SlotsOf(h)
         /\ rpc = "acquire" => Admission!Served = Tabled
<1>1. \A x \in Sessions : HoldsSlot(x) => owner[x] \in Clients /\ HostOf[owner[x]] \in Hosts
  BY DEF HoldsSlot, InTable, Ownership, TypeOK
<1>2. \A x \in Sessions : served[x] = NoClient <=> ~HoldsSlot(x)
  BY <1>1 DEF served
<1>3. \A h \in Hosts : Admission!ServedOf(h) = SlotsOf(h)
  BY <1>1 DEF served, Admission!ServedOf, SlotsOf
<1>4. rpc = "acquire" => Admission!Served = Tabled
  BY <1>2 DEF Admission!Served, Tabled, HoldsSlot
<1> QED BY <1>1, <1>2, <1>3, <1>4

\* Every step lets one stream in, lets one go, or leaves the streams served alone.
LEMMA StepRefines == IInv /\ Room /\ [Next]_vars => [Admission!Next]_served
<1> SUFFICES ASSUME IInv, Room, [Next]_vars PROVE [Admission!Next]_served
  OBVIOUS
<1>1. TypeOK /\ Ownership /\ SlotsMatchSessions
  BY DEF IInv
<1>2. CASE Kept
  <2>1. served' = served
    BY <1>2 DEF Kept, served
  <2> QED BY <2>1
<1>3. ASSUME NEW x \in Sessions, Taken(x) PROVE Admission!Next
  <2>1. PICK h \in Hosts : h = HostOf[owner'[x]]
    BY <1>3 DEF Taken
  <2>2. served[x] = NoClient /\ served' = [served EXCEPT ![x] = h]
    BY <1>1, <1>3, <2>1, ServedHold DEF served, Taken, Others
  <2>3. h \in {g \in Hosts : Permitted(g)} /\ (MaxPerIP > 0 => active[h] < MaxPerIP)
    BY <1>3, <2>1 DEF Taken, Acquire, CanAcquire
  <2>4. Cardinality(Admission!Served) < MaxSessions
    BY <1>1, <1>3, ServedHold, TableSize DEF Taken, Room
  <2>5. Cardinality(Admission!ServedOf(h)) = active[h]
    BY <1>1, ServedHold DEF SlotsMatchSessions
  <2>6. Admission!Enter(x, h)
    BY <2>2, <2>3, <2>4, <2>5 DEF Admission!Enter, Cardinality, Admission!Cardinality
  <2> QED BY <2>6 DEF Admission!Next
<1>4. ASSUME NEW x \in Sessions, Freed(x) PROVE Admission!Next
  <2>1. served[x] # NoClient
    BY <1>1, <1>4, ServedHold DEF Freed
  <2>2. served' = [served EXCEPT ![x] = NoClient]
    BY <1>4 DEF served, Freed, Others
  <2> QED BY <2>1, <2>2 DEF Admission!Leave, Admission!Next
<1> QED BY <1>1, <1>2, <1>3, <1>4, SlotsMove DEF Moved

\* UdpProxy admits and serves exactly as StreamAdmission says: permitted hosts only, at
\* most MaxPerIP sessions of a host and MaxSessions in all.
THEOREM Refinement == Spec => ImplementsAdmission
<1>1. Init => Room /\ Admission!Init
  BY DEF Init, Room, Admission!Init, served, HoldsSlot, InTable
<1>2. IInv /\ Room /\ [Next]_vars => Room' /\ [Admission!Next]_served
  BY RoomStep, StepRefines
<1> QED BY <1>1, <1>2, Invariant, PTL DEF Spec, ImplementsAdmission, Admission!Spec
=============================================================================

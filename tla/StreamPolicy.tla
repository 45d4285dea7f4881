---------------------------- MODULE StreamPolicy ----------------------------
(***************************************************************************)
(* The admission policy of one TCP or UDP upstream (shared/policy.go): an  *)
(* allow list, a deny list and a counter of the streams each client host   *)
(* has open.  The counter is protected by a mutex of its own, so Acquire   *)
(* and Release are each one step; the proxies that call them are in        *)
(* UdpProxy and TcpProxy.                                                  *)
(*                                                                         *)
(* A host is an address without its port.  Whether an address lies in a    *)
(* network is data the properties do not look into: DenyHosts are the      *)
(* hosts some deny network contains (or whose text is no IP address),      *)
(* AllowHosts those some allow network contains.                           *)
(***************************************************************************)
EXTENDS Naturals

CONSTANTS Hosts,      \* client hosts
          DenyHosts,  \* hosts of the deny networks
          AllowHosts, \* hosts of the allow networks; {} when no list is configured
          MaxPerIP    \* max_conns_per_ip; 0 for no limit

ASSUME PolicyAssumption == /\ DenyHosts \subseteq Hosts
                           /\ AllowHosts \subseteq Hosts
                           /\ MaxPerIP \in Nat

VARIABLE active       \* active[h]: the policy's count for h (absent key: 0)

\* The lists are looked at before the counter, deny first.
Permitted(h) == h \notin DenyHosts /\ (AllowHosts # {} => h \in AllowHosts)

\* Mutant: the limit is off by one.
CanAcquireOneMore(h) == Permitted(h) /\ (MaxPerIP > 0 => active[h] <= MaxPerIP)

CanAcquire(h) == Permitted(h) /\ (MaxPerIP > 0 => active[h] < MaxPerIP)

Acquire(h) == CanAcquire(h) /\ active' = [active EXCEPT ![h] = @ + 1]

\* A host whose count is 1 or less loses its entry: the count cannot go below 0,
\* which also means that a release too many goes unnoticed.
Release(h) == active' = [active EXCEPT ![h] = IF @ <= 1 THEN 0 ELSE @ - 1]

InitPolicy == active = [h \in Hosts |-> 0]
=============================================================================

--------------------------- MODULE StreamAdmission ---------------------------
(***************************************************************************)
(* What a stream upstream promises about the clients it serves, whatever   *)
(* the protocol: a stream is let in only if its host is permitted, has     *)
(* fewer than MaxPerIP streams, and the upstream fewer than Capacity; once *)
(* in, it keeps its place until it leaves, and leaving frees that place    *)
(* and no other.  There is no counter here: the places are the streams     *)
(* themselves.  UdpProxy and TcpProxy implement this specification.        *)
(***************************************************************************)
EXTENDS Naturals, FiniteSets

CONSTANTS Streams, Hosts, Admissible, MaxPerIP, Capacity, NoHost

VARIABLE place  \* place[x]: the host stream x is served for, NoHost if it is not

Served    == {x \in Streams : place[x] # NoHost}
ServedOf(h) == {x \in Streams : place[x] = h}

Init == place = [x \in Streams |-> NoHost]

Enter(x, h) == /\ place[x] = NoHost
               /\ h \in Admissible
               /\ MaxPerIP > 0 => Cardinality(ServedOf(h)) < MaxPerIP
               /\ Cardinality(Served) < Capacity
               /\ place' = [place EXCEPT ![x] = h]

Leave(x) == /\ place[x] # NoHost
            /\ place' = [place EXCEPT ![x] = NoHost]

Next == \E x \in Streams : Leave(x) \/ \E h \in Hosts : Enter(x, h)

Spec == Init /\ [][Next]_place
=============================================================================

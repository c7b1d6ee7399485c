------------------------------ MODULE NatHandler ------------------------------
(***************************************************************************)
(* The translation table of tp2's NAT (nat_handler.py): which public port  *)
(* stands for which protocol and private address and port.  Two            *)
(* dictionaries, one per direction, and a pool of free ports; entries      *)
(* expire ENTRY_TIMEOUT seconds after they were made, but are only removed *)
(* by the next operation on the table.  icmp_handler.py is the same table  *)
(* with identifiers for ports and a single protocol.                       *)
(*                                                                         *)
(* PUBLIC_IP is the only public address, so it is left out of the keys.    *)
(* Time is the age of each entry; past the timeout ages are all the same.  *)
(***************************************************************************)
EXTENDS Integers, Functions

CONSTANTS
  Protocols,    \* TCP and UDP
  Endpoints,    \* pairs of a private address and port
  Ports,        \* PAT_PORT_MIN..PAT_PORT_MAX
  EntryTimeout  \* ENTRY_TIMEOUT

ASSUME NatAssumption == Ports \subseteq Nat /\ EntryTimeout \in Nat

VARIABLES
  nat_table,        \* by protocol and endpoint: the public port, and its age
  reverse_nat,      \* by protocol and public port: the endpoint
  public_port_pool  \* the free ports

natVars == <<nat_table, reverse_nat, public_port_pool>>

Keys == Protocols \X Endpoints
ReverseKey(k) == <<k[1], nat_table[k].public_port>>
Oldest == EntryTimeout + 1

NatInit ==
  /\ nat_table = [k \in {} |-> [public_port |-> 0, age |-> 0]]
  /\ reverse_nat = [r \in {} |-> 0]
  /\ public_port_pool = Ports
-----------------------------------------------------------------------------
(* What _reap_nat_table leaves: it begins both operations.                  *)

\* Faulty: an entry expires a second early.
ExpiredEarly == {k \in DOMAIN nat_table : nat_table[k].age >= EntryTimeout}

Expired == {k \in DOMAIN nat_table : nat_table[k].age > EntryTimeout}
Live == DOMAIN nat_table \ Expired
\* Faulty: the reverse entries of expired flows stay.
LiveReverseAll == DOMAIN reverse_nat

LiveReverse == DOMAIN reverse_nat \ {ReverseKey(k) : k \in Expired}
\* Faulty: the ports of expired flows are not released.
ReleasedNone == public_port_pool

Released == public_port_pool \union {nat_table[k].public_port : k \in Expired}

\* Nothing else happens.
Reap ==
  /\ nat_table' = Restrict(nat_table, Live)
  /\ reverse_nat' = Restrict(reverse_nat, LiveReverse)
  /\ public_port_pool' = Released

\* Both dictionaries get the entry of k.
Enter(k, port, endpoint) ==
  /\ nat_table' = [x \in Live \union {k} |->
       IF x = k THEN [public_port |-> port, age |-> 0] ELSE nat_table[x]]
  /\ reverse_nat' = [r \in LiveReverse \union {<<k[1], port>>} |->
       IF r = <<k[1], port>> THEN endpoint ELSE reverse_nat[r]]

Lowest(port) == \A other \in Released : port <= other

\* Faulty: the reverse entry holds the whole key; the port stays in the pool.
AllocateKey(k, port) ==
  Lowest(port) /\ Enter(k, port, k) /\ public_port_pool' = Released \ {port}
AllocateKeep(k, port) ==
  Lowest(port) /\ Enter(k, port, k[2]) /\ public_port_pool' = Released

\* The entry of k is made, with the lowest free port.
Allocate(k, port) ==
  Lowest(port) /\ Enter(k, port, k[2]) /\ public_port_pool' = Released \ {port}

\* create_pat_entry, for the first packet of a flow from inside: the entry is
\* found, cannot be made because no port is free, or is made.
Find(k) == k \in Live /\ Reap
Refuse(k) == k \notin Live /\ Released = {} /\ Reap
Create(k) == k \notin Live /\ \E port \in Released : Allocate(k, port)

\* get_reverse_entry, for a packet from outside to any port.
GetReverseEntry == Reap

\* A second passes.
Tick ==
  /\ nat_table' = [k \in DOMAIN nat_table |->
       [nat_table[k] EXCEPT !.age = IF @ < Oldest THEN @ + 1 ELSE @]]
  /\ UNCHANGED <<reverse_nat, public_port_pool>>

NatNext ==
  \/ \E k \in Keys : Find(k) \/ Refuse(k) \/ Create(k)
  \/ GetReverseEntry
  \/ Tick

NatSpec == NatInit /\ [][NatNext]_natVars
-----------------------------------------------------------------------------
\* Every variable has its type.
NatTypeOK ==
  /\ DOMAIN nat_table \subseteq Keys
  /\ \A k \in DOMAIN nat_table :
       nat_table[k] \in [public_port : Ports, age : 0..Oldest]
  /\ DOMAIN reverse_nat \subseteq Protocols \X Ports
  /\ \A r \in DOMAIN reverse_nat : reverse_nat[r] \in Endpoints
  /\ public_port_pool \subseteq Ports

\* The two dictionaries are each other's inverse after every expiry and reuse:
\* an answer to a public port reaches the endpoint the port was given to, and a
\* removed entry leaves no trace in the other direction (_reap_nat_table).
TablesAgree ==
  /\ \A k \in DOMAIN nat_table :
       ReverseKey(k) \in DOMAIN reverse_nat /\ reverse_nat[ReverseKey(k)] = k[2]
  /\ \A r \in DOMAIN reverse_nat :
       \E k \in DOMAIN nat_table : r = ReverseKey(k)

\* No two entries share a public port, not even one of TCP and one of UDP, and
\* no port in use is handed out again (allocate_public_port, release_public_port).
PortsExclusive ==
  /\ \A k, l \in DOMAIN nat_table :
       nat_table[k].public_port = nat_table[l].public_port => k = l
  /\ \A k \in DOMAIN nat_table : nat_table[k].public_port \notin public_port_pool

\* No port is lost: each is free or assigned, so that a flow is refused only
\* when as many others hold a port as there are ports (_reap_nat_table).
NoPortLost ==
  Ports = public_port_pool \union {nat_table[k].public_port : k \in DOMAIN nat_table}

\* A flow keeps its public port for ENTRY_TIMEOUT seconds, whatever others do.
StableMapping ==
  [][\A k \in DOMAIN nat_table : nat_table[k].age <= EntryTimeout =>
       /\ k \in DOMAIN nat_table'
       /\ nat_table'[k].public_port = nat_table[k].public_port]_natVars
=============================================================================

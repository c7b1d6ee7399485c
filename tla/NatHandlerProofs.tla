--------------------------- MODULE NatHandlerProofs ---------------------------
(***************************************************************************)
(* Theorems about NatHandler, for any set of ports, endpoints and          *)
(* protocols and any timeout.  The invariants of its run are inductive     *)
(* together: that a port belongs to one entry only is what lets the reap   *)
(* remove a reverse entry without touching that of a live flow, and what   *)
(* the two dictionaries agree on is what tells that a new port is free.    *)
(***************************************************************************)
EXTENDS NatHandler, TLAPS

NatInv == NatTypeOK /\ TablesAgree /\ PortsExclusive /\ NoPortLost

\* The initial tables satisfy the invariant.
LEMMA NatInitInv == NatInit => NatInv
  BY NatAssumption DEF NatInit, NatInv, NatTypeOK, TablesAgree, PortsExclusive, NoPortLost,
     ReverseKey

\* A live flow's reverse entry survives the reap, and only those do.
LEMMA LiveTables ==
  ASSUME NatInv
  PROVE  /\ \A k \in Live : ReverseKey(k) \in LiveReverse
         /\ \A r \in LiveReverse : \E k \in Live : r = ReverseKey(k)
         /\ \A k \in Live : nat_table[k].public_port \notin Released
         /\ Released \subseteq Ports
         /\ Ports = Released \union {nat_table[k].public_port : k \in Live}
<1> USE DEF NatInv, NatTypeOK
<1>1. \A k, l \in DOMAIN nat_table : ReverseKey(k) = ReverseKey(l) => k = l
  BY DEF ReverseKey, PortsExclusive
<1>2. \A k \in Live : ReverseKey(k) \in LiveReverse
  BY <1>1 DEF Live, LiveReverse, Expired, TablesAgree
<1>3. \A r \in LiveReverse : \E k \in Live : r = ReverseKey(k)
  BY DEF Live, LiveReverse, Expired, TablesAgree
<1>4. \A k \in Live : nat_table[k].public_port \notin Released
  BY DEF Live, Released, Expired, PortsExclusive
<1>5. Released \subseteq Ports
  BY DEF Released, Expired
<1>6. Ports = Released \union {nat_table[k].public_port : k \in Live}
  BY DEF Released, Live, Expired, NoPortLost
<1> QED
  BY <1>2, <1>3, <1>4, <1>5, <1>6

\* Removing the expired entries preserves the invariant and the live flows.
LEMMA ReapStep ==
  ASSUME NatInv, Reap
  PROVE  NatInv' /\ \A k \in Live : k \in DOMAIN nat_table' /\ nat_table'[k] = nat_table[k]
<1> USE DEF NatInv
<1>1. /\ DOMAIN nat_table' = Live /\ \A k \in Live : nat_table'[k] = nat_table[k]
      /\ DOMAIN reverse_nat' = LiveReverse
      /\ \A r \in LiveReverse : reverse_nat'[r] = reverse_nat[r]
      /\ public_port_pool' = Released
  BY DEF Reap, Restrict
<1>2. Live \subseteq DOMAIN nat_table /\ LiveReverse \subseteq DOMAIN reverse_nat
  BY DEF Live, LiveReverse
<1>3. \A k \in Live : ReverseKey(k)' = ReverseKey(k)
  BY <1>1 DEF ReverseKey
<1>4. NatTypeOK'
  BY <1>1, <1>2, LiveTables DEF NatTypeOK, Oldest
<1>5. TablesAgree'
  BY <1>1, <1>2, <1>3, LiveTables DEF TablesAgree
<1>6. PortsExclusive'
  BY <1>1, <1>2, LiveTables DEF PortsExclusive
<1>7. NoPortLost'
  BY <1>1, <1>2, LiveTables DEF NoPortLost
<1> QED
  BY <1>1, <1>4, <1>5, <1>6, <1>7

\* A new entry preserves the invariant and the live flows.
LEMMA CreateStep ==
  ASSUME NatInv, NEW k \in Keys, k \notin Live, NEW port \in Released, Allocate(k, port)
  PROVE  NatInv' /\ \A l \in Live : l \in DOMAIN nat_table' /\ nat_table'[l] = nat_table[l]
<1> USE DEF NatInv
<1> DEFINE new == <<k[1], port>>
<1>1. /\ DOMAIN nat_table' = Live \union {k}
      /\ nat_table'[k] = [public_port |-> port, age |-> 0]
      /\ \A l \in Live : nat_table'[l] = nat_table[l]
      /\ DOMAIN reverse_nat' = LiveReverse \union {new} /\ reverse_nat'[new] = k[2]
      /\ \A r \in LiveReverse \ {new} : reverse_nat'[r] = reverse_nat[r]
      /\ public_port_pool' = Released \ {port}
  BY DEF Allocate, Enter
<1>2. Live \subseteq DOMAIN nat_table /\ LiveReverse \subseteq DOMAIN reverse_nat
  BY DEF Live, LiveReverse
<1>3. (\A l \in Live : ReverseKey(l)' = ReverseKey(l)) /\ ReverseKey(k)' = new
  BY <1>1 DEF ReverseKey
<1>4. \A l \in Live : ReverseKey(l) # new
  BY LiveTables DEF ReverseKey
<1>5. k[1] \in Protocols /\ k[2] \in Endpoints /\ port \in Ports
  BY LiveTables DEF Keys
<1>6. NatTypeOK'
  <2>1. DOMAIN nat_table' \subseteq Keys
    BY <1>1, <1>2 DEF NatTypeOK
  <2>2. nat_table'[k] \in [public_port : Ports, age : 0..Oldest]
    BY <1>1, <1>5, NatAssumption DEF Oldest
  <2>3. \A l \in Live : nat_table'[l] \in [public_port : Ports, age : 0..Oldest]
    BY <1>1, <1>2 DEF NatTypeOK
  <2>4. DOMAIN reverse_nat' \subseteq Protocols \X Ports
    BY <1>1, <1>2, <1>5 DEF NatTypeOK
  <2>5. \A r \in DOMAIN reverse_nat' : reverse_nat'[r] \in Endpoints
    BY <1>1, <1>2, <1>5 DEF NatTypeOK
  <2> QED
    BY <1>1, <2>1, <2>2, <2>3, <2>4, <2>5, LiveTables DEF NatTypeOK, Oldest
<1>7. TablesAgree'
  <2>1. \A l \in Live : reverse_nat'[ReverseKey(l)] = l[2]
    BY <1>1, <1>2, <1>4, LiveTables DEF TablesAgree
  <2> QED
    BY <1>1, <1>3, <2>1, LiveTables DEF TablesAgree
<1>8. PortsExclusive'
  BY <1>1, <1>2, LiveTables DEF PortsExclusive
<1>9. NoPortLost'
  BY <1>1, LiveTables DEF NoPortLost
<1> QED
  BY <1>1, <1>6, <1>7, <1>8, <1>9

\* The passing of time changes ages only.
LEMMA TickStep ==
  ASSUME NatInv, Tick
  PROVE  /\ NatInv'
         /\ \A k \in Live : /\ k \in DOMAIN nat_table'
                            /\ nat_table'[k].public_port = nat_table[k].public_port
<1> USE DEF NatInv
<1>1. /\ DOMAIN nat_table' = DOMAIN nat_table
      /\ \A k \in DOMAIN nat_table :
           /\ nat_table'[k] \in [public_port : Ports, age : 0..Oldest]
           /\ nat_table'[k].public_port = nat_table[k].public_port
      /\ UNCHANGED <<reverse_nat, public_port_pool>>
  BY NatAssumption DEF Tick, NatTypeOK, Oldest
<1>2. \A k \in DOMAIN nat_table : ReverseKey(k)' = ReverseKey(k)
  BY <1>1 DEF ReverseKey
<1>3. NatTypeOK'
  BY <1>1 DEF NatTypeOK, Oldest
<1>4. TablesAgree'
  BY <1>1, <1>2 DEF TablesAgree
<1>5. PortsExclusive' /\ NoPortLost'
  BY <1>1 DEF PortsExclusive, NoPortLost
<1> QED
  BY <1>1, <1>3, <1>4, <1>5 DEF Live

\* Every step preserves the invariant and leaves the live flows their ports.
LEMMA NatNextInv ==
  ASSUME NatInv, [NatNext]_natVars
  PROVE  /\ NatInv'
         /\ \A k \in Live : /\ k \in DOMAIN nat_table'
                            /\ nat_table'[k].public_port = nat_table[k].public_port
<1>1. CASE Reap
  BY <1>1, ReapStep
<1>2. ASSUME NEW k \in Keys, Create(k)
      PROVE  /\ NatInv'
             /\ \A l \in Live : /\ l \in DOMAIN nat_table'
                                /\ nat_table'[l].public_port = nat_table[l].public_port
  BY <1>2, CreateStep DEF Create
<1>3. CASE Tick
  BY <1>3, TickStep
<1>4. CASE UNCHANGED natVars
  <2>1. UNCHANGED <<nat_table, reverse_nat, public_port_pool>>
    BY <1>4 DEF natVars
  <2> QED
    BY <2>1 DEF NatInv, NatTypeOK, TablesAgree, PortsExclusive, NoPortLost, ReverseKey, Live,
       Oldest
<1> QED
  BY <1>1, <1>2, <1>3, <1>4 DEF NatNext, Find, Refuse, GetReverseEntry

\* The tables have their types, agree with each other, never give a port to two
\* flows and lose none, whatever the order of requests, lookups and expiries.
THEOREM NatInvariance ==
  NatSpec => [](NatTypeOK /\ TablesAgree /\ PortsExclusive /\ NoPortLost)
<1>1. NatInv /\ [NatNext]_natVars => NatInv'
  BY NatNextInv
<1>2. NatSpec => []NatInv
  BY NatInitInv, <1>1, PTL DEF NatSpec
<1>3. NatInv => NatTypeOK /\ TablesAgree /\ PortsExclusive /\ NoPortLost
  BY DEF NatInv
<1> QED
  BY <1>2, <1>3, PTL

\* The tables have their types.
THEOREM NatTypeCorrect == NatSpec => []NatTypeOK
  BY NatInvariance, PTL

\* A public port belongs to one flow, or to none and is then in the pool.
THEOREM PortsAreExclusive == NatSpec => []PortsExclusive
  BY NatInvariance, PTL

\* Every port is in the pool or in the table, however many flows expired.
THEOREM NoPortIsLost == NatSpec => []NoPortLost
  BY NatInvariance, PTL

\* A flow keeps its public port until its entry expires (create_pat_entry finds
\* it, no other request takes the port).
THEOREM NatStable == NatSpec => StableMapping
<1>1. NatInv /\ [NatNext]_natVars => NatInv'
  BY NatNextInv
<1>2. NatSpec => []NatInv
  BY NatInitInv, <1>1, PTL DEF NatSpec
<1>3. NatInv /\ [NatNext]_natVars =>
        [\A k \in DOMAIN nat_table : nat_table[k].age <= EntryTimeout =>
           /\ k \in DOMAIN nat_table'
           /\ nat_table'[k].public_port = nat_table[k].public_port]_natVars
  <2> SUFFICES ASSUME NatInv, [NatNext]_natVars,
                      NEW k \in DOMAIN nat_table, nat_table[k].age <= EntryTimeout
               PROVE  /\ k \in DOMAIN nat_table'
                      /\ nat_table'[k].public_port = nat_table[k].public_port
    OBVIOUS
  <2>1. nat_table[k].age \in Int
    BY DEF NatInv, NatTypeOK
  <2>2. k \in Live
    BY <2>1, NatAssumption DEF Live, Expired
  <2> QED
    BY <2>2, NatNextInv
<1> QED
  BY <1>2, <1>3, PTL DEF NatSpec, StableMapping
=============================================================================

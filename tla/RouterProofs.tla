----------------------------- MODULE RouterProofs -----------------------------
(***************************************************************************)
(* Theorems about ProtoRouter, for any hosts, ports and timeout, and any   *)
(* number of packets.  Two things carry them.  The router's steps are      *)
(* steps of NatHandler, for its own table and for that of ICMP, so that    *)
(* what is proved of NatHandler holds for both.  And a queue exists only   *)
(* while its address is unknown and is in the order of arrival, but for    *)
(* packets that were queued again; these are incoming ones, since the      *)
(* destination of an outgoing or a local packet is known by the time it is *)
(* handled again.                                                          *)
(***************************************************************************)
EXTENDS ProtoRouter, SequenceTheorems, TLAPS

\* The theorems of NatHandler about the two tables.
PatT == INSTANCE NatHandlerProofs WITH Endpoints <- Hosts
IcmpT == INSTANCE NatHandlerProofs
  WITH Protocols <- {"ICMP"}, Endpoints <- Hosts, nat_table <- icmp_table,
       reverse_nat <- reverse_icmp, public_port_pool <- icmp_id_pool

\* What the router does to its tables.
PatStep ==
  \/ UNCHANGED natVars
  \/ \E k \in Protocols \X Hosts : Pat!Find(k) \/ Pat!Refuse(k) \/ Pat!Create(k)
  \/ Pat!GetReverseEntry
  \/ Pat!Tick
IcmpStep ==
  \/ UNCHANGED icmpVars
  \/ \E h \in Hosts : Icmp!RefuseEntry(h) \/ Icmp!CreateEntry(h)
  \/ Icmp!GetReverse
  \/ Icmp!IcmpTick

\* They are steps of NatHandler.
LEMMA PatSteps == ASSUME PatStep PROVE [Pat!NatNext]_(Pat!natVars)
  BY DEF PatStep, natVars, Pat!natVars, Pat!NatNext, Pat!Keys

LEMMA PatIsNat == ASSUME [Pat!NatNext]_(Pat!natVars) PROVE [PatT!NatNext]_(PatT!natVars)
<1> USE DEF Pat!natVars, PatT!natVars, Pat!Keys, PatT!Keys, Pat!Find, PatT!Find, Pat!Refuse,
        PatT!Refuse, Pat!Create, PatT!Create, Pat!Allocate, PatT!Allocate, Pat!Enter,
        PatT!Enter, Pat!Lowest, PatT!Lowest, Pat!Reap, PatT!Reap, Pat!Live, PatT!Live,
        Pat!Expired, PatT!Expired, Pat!LiveReverse, PatT!LiveReverse, Pat!Released,
        PatT!Released, Pat!ReverseKey, PatT!ReverseKey, Pat!Restrict, PatT!Restrict,
        Pat!GetReverseEntry, PatT!GetReverseEntry, Pat!Tick, PatT!Tick, Pat!Oldest, PatT!Oldest
<1> QED
  BY DEF Pat!NatNext, PatT!NatNext

LEMMA IcmpSteps == ASSUME IcmpStep PROVE [Icmp!Table!NatNext]_(Icmp!Table!natVars)
  BY DEF IcmpStep, icmpVars, Icmp!Table!natVars, Icmp!Table!NatNext, Icmp!Table!Keys, Icmp!RefuseEntry,
     Icmp!CreateEntry, Icmp!GetReverse, Icmp!IcmpTick, Icmp!Table!GetReverseEntry

LEMMA IcmpIsNat ==
  ASSUME [Icmp!Table!NatNext]_(Icmp!Table!natVars) PROVE [IcmpT!NatNext]_(IcmpT!natVars)
<1> USE DEF Icmp!Table!natVars, IcmpT!natVars, Icmp!Table!Keys, IcmpT!Keys, Icmp!Table!Find,
        IcmpT!Find, Icmp!Table!Refuse, IcmpT!Refuse, Icmp!Table!Create, IcmpT!Create,
        Icmp!Table!Allocate, IcmpT!Allocate, Icmp!Table!Enter, IcmpT!Enter, Icmp!Table!Lowest,
        IcmpT!Lowest, Icmp!Table!Reap, IcmpT!Reap, Icmp!Table!Live, IcmpT!Live,
        Icmp!Table!Expired, IcmpT!Expired, Icmp!Table!LiveReverse, IcmpT!LiveReverse,
        Icmp!Table!Released, IcmpT!Released, Icmp!Table!ReverseKey, IcmpT!ReverseKey,
        Icmp!Table!Restrict, IcmpT!Restrict, Icmp!Table!GetReverseEntry, IcmpT!GetReverseEntry,
        Icmp!Table!Tick, IcmpT!Tick, Icmp!Table!Oldest, IcmpT!Oldest
<1> QED
  BY DEF Icmp!Table!NatNext, IcmpT!NatNext

LEMMA Parameters == Ports \subseteq Nat /\ EntryTimeout \in Nat /\ MaxPackets \in Nat
  BY RouterAssumption, ArpAssumption

\* The tables keep what is proved of NatHandler.
LEMMA TablesKept ==
  ASSUME PatT!NatInv, IcmpT!NatInv, PatStep, IcmpStep
  PROVE  PatT!NatInv' /\ IcmpT!NatInv'
<1>1. PatT!NatInv'
  BY PatSteps, PatIsNat, PatT!NatNextInv, Parameters
<1>2. IcmpT!NatInv'
  BY IcmpSteps, IcmpIsNat, IcmpT!NatNextInv, Parameters
<1> QED
  BY <1>1, <1>2

LEMMA TablesInit == Init => PatT!NatInv /\ IcmpT!NatInv
<1>1. Init => PatT!NatInit /\ IcmpT!NatInit
  BY DEF Init, Pat!NatInit, PatT!NatInit, Icmp!IcmpInit, Icmp!Table!NatInit, IcmpT!NatInit
<1> QED
  BY <1>1, PatT!NatInitInv, IcmpT!NatInitInv, Parameters
-----------------------------------------------------------------------------
\* The packets of s are in the order of their arrival, those in late apart, which
\* come after packets that arrived later.
Sorted(s, late) ==
  \A m, n \in DOMAIN s : m < n => s[m].n < s[n].n \/ s[n] \in late

\* What every queue holds.
WaitingOK ==
  \A x \in DOMAIN waiting_queue :
    /\ waiting_queue[x] \in Seq(Arrived) /\ Sorted(waiting_queue[x], requeued)
    /\ \A m \in DOMAIN waiting_queue[x] :
         waiting_queue[x][m].kind # "in" => waiting_queue[x][m].dst = x
TodoOK ==
  /\ todo \in Seq(Arrived) /\ Sorted(todo, requeued)
  /\ \A m \in DOMAIN todo : todo[m].kind # "in" => Known(todo[m].dst)

RouterInv ==
  /\ RouterTypeOK
  /\ PatT!NatInv /\ IcmpT!NatInv
  /\ QueuedUnknown /\ WaitingOK /\ TodoOK /\ InOrder

\* The fields of a packet of each kind.
LEMMA PacketTypes ==
  ASSUME NEW n, NEW p \in Packets(n)
  PROVE  /\ p.n = n /\ p.kind \in {"out", "in", "local"}
         /\ p.kind = "out" => p.src \in Hosts /\ p.dst \in Remotes /\ p.proto \in Protocols \union {"ICMP"}
         /\ p.kind = "in" => p.src \in Remotes /\ p.dst \in Ports /\ p.proto \in Protocols \union {"ICMP"}
         /\ p.kind = "local" => p.src \in Hosts /\ p.dst \in Hosts \union Nobody
  BY DEF Packets, Outgoing, Incoming, Local

\* What handling a packet does: it waits for an address that is not known, or
\* leaves, sent to an address that is; and flows may be installed.
Waits(p) ==
  \E ip \in Addresses :
    /\ ~Known(ip) /\ Wait(ip, p) /\ asked' = asked \union {ip}
    /\ p.kind # "in" => ip = p.dst
Goes(p) ==
  /\ Leaves
  /\ sent' # {} => \E to \in Addresses : Known(to) /\ sent' = {[packet |-> p, to |-> to]}
AllFlows == OutFlows \union InFlows \union LocalFlows
FlowsOK ==
  \A m \in DOMAIN flows' : m \in AllFlows /\ (m \in OutFlows \union InFlows => Kept(m) \/ Agrees(m)')

LEMMA OutgoingEffect ==
  ASSUME RouterInv, NEW n, NEW p \in Packets(n), HandleOutgoing(p)
  PROVE  PatStep /\ IcmpStep /\ FlowsOK /\ (Waits(p) \/ Goes(p))
<1> USE DEF RouterInv
<1> DEFINE k == <<p.proto, p.src>>
<1>0. /\ p.kind = "out" /\ p.src \in Hosts /\ p.dst \in Remotes
      /\ p.proto \in Protocols \union {"ICMP"} /\ DOMAIN flows \subseteq AllFlows
  BY PacketTypes DEF HandleOutgoing, RouterTypeOK, AllFlows
<1>1. ASSUME UNCHANGED flows PROVE FlowsOK
  BY <1>0, <1>1 DEF FlowsOK, Kept
<1>2. CASE Ask(p.dst, p) /\ UNCHANGED <<natVars, icmpVars>>
  BY <1>0, <1>1, <1>2 DEF Ask, Wait, Waits, PatStep, IcmpStep, Addresses
<1>3. CASE /\ Known(p.dst)
           /\ \/ Icmp!RefuseEntry(p.src) /\ Dropped
              \/ Icmp!CreateEntry(p.src) /\ Sent(p, p.dst) /\ UNCHANGED flows
           /\ UNCHANGED natVars
  BY <1>0, <1>1, <1>3 DEF PatStep, IcmpStep, Dropped, Sent, Goes, Addresses
<1>4. CASE /\ Known(p.dst) /\ p.proto # "ICMP" /\ Pat!Refuse(k) /\ Dropped
           /\ UNCHANGED icmpVars
  BY <1>0, <1>1, <1>4 DEF PatStep, IcmpStep, Dropped, Goes
<1>5. ASSUME Known(p.dst), p.proto # "ICMP", Pat!Find(k) \/ Pat!Create(k), UNCHANGED icmpVars, Sent(p, p.dst),
             Install(OutFlow(p.proto, p.src, p.dst), nat_table'[k].public_port,
                     InFlow(p.proto, p.dst, nat_table'[k].public_port), p.src)
      PROVE  PatStep /\ IcmpStep /\ FlowsOK /\ Goes(p)
  <2>0. PICK port : port = nat_table'[k].public_port
    OBVIOUS
  <2> DEFINE m1 == OutFlow(p.proto, p.src, p.dst)
             m2 == InFlow(p.proto, p.dst, port)
  <2>1. PatStep /\ IcmpStep /\ k \in Protocols \X Hosts
    BY <1>0, <1>5 DEF PatStep, IcmpStep
  <2>2. k \in DOMAIN nat_table' /\ nat_table'[k].age <= EntryTimeout
    <3>1. CASE Pat!Find(k)
      <4>1. k \in DOMAIN nat_table /\ ~(nat_table[k].age > EntryTimeout) /\ nat_table[k].age \in Int
        BY <3>1, Parameters DEF Pat!Find, Pat!Live, Pat!Expired, PatT!NatInv, PatT!NatTypeOK, PatT!Oldest
      <4>2. k \in DOMAIN nat_table' /\ nat_table'[k] = nat_table[k]
        BY <3>1 DEF Pat!Find, Pat!Reap, Pat!Restrict
      <4> QED
        BY <4>1, <4>2, Parameters
    <3>2. CASE Pat!Create(k)
      BY <3>2, Parameters DEF Pat!Create, Pat!Allocate, Pat!Enter
    <3> QED
      BY <1>5, <3>1, <3>2
  <2>3. port \in Ports
    BY <2>0, <2>1, <2>2, TablesKept DEF PatT!NatInv, PatT!NatTypeOK
  <2>4. Assigned(p.proto, p.src, port)'
    BY <2>0, <2>2 DEF Assigned
  <2>5. m1 \in OutFlows /\ m2 \in InFlows /\ m2 \notin OutFlows
    <3>1. p.proto \in Protocols
      BY <1>0, <1>5
    <3> QED
      BY <1>0, <2>3, <3>1 DEF OutFlows, InFlows, OutFlow, InFlow
  <2>6. /\ DOMAIN flows' = DOMAIN flows \union {m1, m2}
        /\ flows'[m1] = port /\ flows'[m2] = p.src
        /\ \A m \in DOMAIN flows : m # m1 /\ m # m2 => Kept(m)
    BY <1>5, <2>0, <2>5 DEF Install, Kept
  <2>7. Agrees(m1)' /\ Agrees(m2)'
    <3>1. m1[2] = p.proto /\ m1[3] = p.src /\ m2[2] = p.proto /\ m2[4] = port
      BY DEF OutFlow, InFlow
    <3> HIDE DEF m1, m2
    <3> QED
      BY <2>4, <2>5, <2>6, <3>1 DEF Agrees
  <2>8. FlowsOK
    BY <1>0, <2>5, <2>6, <2>7 DEF FlowsOK, AllFlows
  <2>9. Goes(p)
    BY <1>0, <1>5 DEF Sent, Goes, Addresses
  <2> QED
    BY <2>1, <2>8, <2>9
<1> QED
  BY <1>2, <1>3, <1>4, <1>5 DEF HandleOutgoing

LEMMA LocalEffect ==
  ASSUME RouterInv, NEW n, NEW p \in Packets(n), HandleLocal(p)
  PROVE  PatStep /\ IcmpStep /\ FlowsOK /\ (Waits(p) \/ Goes(p))
<1> USE DEF RouterInv
<1>0. /\ p.kind = "local" /\ p.src \in Hosts /\ p.dst \in Hosts \union Nobody
      /\ DOMAIN flows \subseteq AllFlows
      /\ PatStep /\ IcmpStep
  BY PacketTypes DEF HandleLocal, RouterTypeOK, AllFlows, PatStep, IcmpStep
<1>1. CASE Ask(p.dst, p)
  BY <1>0, <1>1 DEF Ask, Wait, Waits, Addresses, FlowsOK, Kept
<1>2. ASSUME Known(p.dst), Sent(p, p.dst),
             Install(LocalFlow(p.src, p.dst), p.dst, LocalFlow(p.dst, p.src), p.src)
      PROVE  FlowsOK /\ Goes(p)
  <2> DEFINE m1 == LocalFlow(p.src, p.dst)
             m2 == LocalFlow(p.dst, p.src)
  <2>1. p.dst \in Hosts
    <3>1. p.dst \in Hosts \union Remotes
      BY <1>2 DEF Known, RouterTypeOK
    <3>2. p.src \in Hosts /\ p.dst \in Hosts \union Nobody
      BY <1>0
    <3> QED
      BY <3>1, <3>2, RouterAssumption
  <2>2. m1 \in LocalFlows /\ m2 \in LocalFlows
    BY <1>0, <2>1 DEF LocalFlows
  <2>3. m1 \notin OutFlows \union InFlows /\ m2 \notin OutFlows \union InFlows
    BY DEF OutFlows, InFlows, OutFlow, InFlow, LocalFlow
  <2>4. /\ DOMAIN flows' = DOMAIN flows \union {m1, m2}
        /\ \A m \in DOMAIN flows : m # m1 /\ m # m2 => Kept(m)
    BY <1>2 DEF Install, Kept
  <2> QED
    BY <1>0, <1>2, <2>2, <2>3, <2>4 DEF FlowsOK, AllFlows, Sent, Goes, Addresses
<1> QED
  BY <1>0, <1>1, <1>2 DEF HandleLocal

LEMMA IncomingEffect ==
  ASSUME RouterInv, NEW n, NEW p \in Packets(n), HandleIncoming(p)
  PROVE  PatStep /\ IcmpStep /\ FlowsOK /\ (Waits(p) \/ Goes(p))
<1> USE DEF RouterInv
<1>0. /\ p.kind = "in" /\ p.src \in Remotes /\ p.dst \in Ports /\ p.proto \in Protocols
      /\ DOMAIN flows \subseteq AllFlows
      /\ PatStep /\ IcmpStep /\ Pat!Reap
  BY PacketTypes DEF HandleIncoming, RouterTypeOK, AllFlows, PatStep, IcmpStep, Pat!GetReverseEntry
<1>1. CASE Dropped
  BY <1>0, <1>1 DEF Dropped, Goes, FlowsOK, Kept
<1>2. ASSUME NEW host \in Owners(p)
      PROVE  /\ host \in Hosts /\ <<p.proto, host>> \in Pat!Live
             /\ nat_table[<<p.proto, host>>].public_port = p.dst
  <2> DEFINE r == <<p.proto, p.dst>>
  <2>1. r \in Pat!LiveReverse /\ host = reverse_nat[r]
    BY DEF Owners
  <2>2. Pat!LiveReverse = PatT!LiveReverse /\ Pat!Live = PatT!Live
    BY DEF Pat!LiveReverse, PatT!LiveReverse, Pat!Live, PatT!Live, Pat!Expired, PatT!Expired,
       Pat!ReverseKey, PatT!ReverseKey
  <2>3. PICK k \in PatT!Live : r = PatT!ReverseKey(k)
    BY <2>1, <2>2, PatT!LiveTables, Parameters
  <2>4. k \in DOMAIN nat_table /\ k \in Protocols \X Hosts
    BY DEF PatT!Live, PatT!NatInv, PatT!NatTypeOK, PatT!Keys
  <2>5. host = k[2] /\ r = <<k[1], nat_table[k].public_port>>
    BY <2>1, <2>3, <2>4 DEF PatT!ReverseKey, PatT!NatInv, PatT!TablesAgree
  <2>6. k = <<p.proto, host>> /\ nat_table[k].public_port = p.dst
    BY <2>4, <2>5
  <2> QED
    BY <2>2, <2>3, <2>4, <2>6
<1>3. ASSUME NEW host \in Owners(p), Ask(host, p) PROVE FlowsOK /\ Waits(p)
  BY <1>0, <1>2, <1>3 DEF Ask, Wait, Waits, Addresses, FlowsOK, Kept
<1>4. ASSUME NEW host \in Owners(p), Known(host), Sent(p, host),
             Install(InFlow(p.proto, p.src, p.dst), host, OutFlow(p.proto, host, p.src), p.dst)
      PROVE  FlowsOK /\ Goes(p)
  <2> DEFINE m1 == InFlow(p.proto, p.src, p.dst)
             m2 == OutFlow(p.proto, host, p.src)
             k == <<p.proto, host>>
  <2>1. Assigned(p.proto, host, p.dst)'
    <3>1. /\ k \in DOMAIN nat_table /\ ~(nat_table[k].age > EntryTimeout) /\ nat_table[k].age \in Int
          /\ nat_table[k].public_port = p.dst
      BY <1>2, Parameters DEF Pat!Live, Pat!Expired, PatT!NatInv, PatT!NatTypeOK, PatT!Oldest
    <3>2. k \in DOMAIN nat_table' /\ nat_table'[k] = nat_table[k]
      BY <1>0, <1>2 DEF Pat!Reap, Pat!Restrict
    <3> QED
      BY <3>1, <3>2, Parameters DEF Assigned
  <2>2. m1 \in InFlows /\ m2 \in OutFlows /\ m1 \notin OutFlows
    <3>1. host \in Hosts
      BY <1>2, <1>4
    <3>2. m1 \in InFlows /\ m1 \notin OutFlows
      BY <1>0 DEF OutFlows, InFlows, OutFlow, InFlow
    <3>3. m2 \in OutFlows
      BY <1>0, <3>1 DEF OutFlows
    <3> QED
      BY <3>2, <3>3
  <2>3. /\ DOMAIN flows' = DOMAIN flows \union {m1, m2}
        /\ flows'[m1] = host /\ flows'[m2] = p.dst
        /\ \A m \in DOMAIN flows : m # m1 /\ m # m2 => Kept(m)
    BY <1>4, <2>2 DEF Install, Kept
  <2>4. Agrees(m1)' /\ Agrees(m2)'
    <3>1. m1[2] = p.proto /\ m1[4] = p.dst /\ m2[2] = p.proto /\ m2[3] = host
      BY DEF OutFlow, InFlow
    <3> HIDE DEF m1, m2
    <3> QED
      BY <2>1, <2>2, <2>3, <3>1 DEF Agrees
  <2> QED
    BY <1>0, <1>2, <1>4, <2>2, <2>3, <2>4 DEF FlowsOK, AllFlows, Sent, Goes, Addresses
<1> QED
  BY <1>0, <1>1, <1>3, <1>4 DEF HandleIncoming

LEMMA IncomingIcmpEffect ==
  ASSUME RouterInv, NEW n, NEW p \in Packets(n), HandleIncomingIcmp(p)
  PROVE  PatStep /\ IcmpStep /\ FlowsOK /\ (Waits(p) \/ Goes(p))
<1> USE DEF RouterInv
<1>0. /\ p.kind = "in" /\ DOMAIN flows \subseteq AllFlows /\ PatStep /\ IcmpStep
  BY DEF HandleIncomingIcmp, RouterTypeOK, AllFlows, PatStep, IcmpStep
<1>1. CASE Dropped
  BY <1>0, <1>1 DEF Dropped, Goes, FlowsOK, Kept
<1>2. ASSUME Icmp!HasReverse(p.dst) PROVE Icmp!Reverse(p.dst) \in Hosts
  <2>1. <<"ICMP", p.dst>> \in DOMAIN reverse_icmp
    BY <1>2 DEF Icmp!HasReverse, Icmp!Table!LiveReverse
  <2> QED
    BY <2>1 DEF Icmp!Reverse, IcmpT!NatInv, IcmpT!NatTypeOK
<1>3. ASSUME Icmp!HasReverse(p.dst), Ask(Icmp!Reverse(p.dst), p)
      PROVE  FlowsOK /\ Waits(p)
  BY <1>0, <1>2, <1>3 DEF Ask, Wait, Waits, Addresses, FlowsOK, Kept
<1>4. ASSUME Icmp!HasReverse(p.dst), Known(Icmp!Reverse(p.dst)),
             Sent(p, Icmp!Reverse(p.dst)), UNCHANGED flows
      PROVE  FlowsOK /\ Goes(p)
  BY <1>0, <1>2, <1>4 DEF Sent, Goes, Addresses, FlowsOK, Kept
<1> QED
  BY <1>0, <1>1, <1>3, <1>4 DEF HandleIncomingIcmp

\* handle_ip, whatever the packet.
LEMMA Effect ==
  ASSUME RouterInv, NEW n, NEW p \in Packets(n), HandleIp(p)
  PROVE  PatStep /\ IcmpStep /\ FlowsOK /\ (Waits(p) \/ Goes(p))
  BY OutgoingEffect, LocalEffect, IncomingEffect, IncomingIcmpEffect DEF HandleIp
-----------------------------------------------------------------------------
(* The queues.                                                              *)

\* Sequences over a set are sequences over a larger one.
LEMMA SeqMono ==
  ASSUME NEW S, NEW T, S \subseteq T, NEW s \in Seq(S)
  PROVE  s \in Seq(T)
  OBVIOUS

\* More packets out of order leave an order an order.
LEMMA SortedMono ==
  ASSUME NEW s, NEW late, NEW later, late \subseteq later, Sorted(s, late)
  PROVE  Sorted(s, later)
  BY DEF Sorted

\* What a sequence is with an element more, and with its head less.
LEMMA AppendFacts ==
  ASSUME NEW S, NEW s \in Seq(S), NEW e \in S
  PROVE  /\ Append(s, e) \in Seq(S)
         /\ DOMAIN Append(s, e) = DOMAIN s \union {Len(s) + 1}
         /\ Append(s, e)[Len(s) + 1] = e
         /\ \A m \in DOMAIN s : Append(s, e)[m] = s[m] /\ m < Len(s) + 1 /\ m \in Nat
  OBVIOUS

LEMMA TailFacts ==
  ASSUME NEW S, NEW s \in Seq(S), s # <<>>
  PROVE  /\ Head(s) \in S /\ Head(s) = s[1] /\ 1 \in DOMAIN s
         /\ Tail(s) \in Seq(S)
         /\ \A m \in DOMAIN Tail(s) :
              m \in Nat /\ m + 1 \in DOMAIN s /\ Tail(s)[m] = s[m + 1] /\ 1 < m + 1
  OBVIOUS

\* The same, of the sets of their elements.
LEMMA RangeAppend ==
  ASSUME NEW S, NEW s \in Seq(S), NEW e \in S
  PROVE  Range(s) \subseteq Range(Append(s, e))
<1>1. ASSUME NEW m \in DOMAIN s PROVE s[m] = Append(s, e)[m] /\ m \in DOMAIN Append(s, e)
  BY AppendFacts
<1> QED
  BY <1>1 DEF Range

\* Nothing but its head leaves a sequence.
LEMMA RangeTail ==
  ASSUME NEW S, NEW s \in Seq(S), s # <<>>
  PROVE  Range(s) \subseteq {Head(s)} \union Range(Tail(s))
<1> SUFFICES ASSUME NEW m \in DOMAIN s, m # 1 PROVE s[m] \in Range(Tail(s))
  BY DEF Range
<1>1. m - 1 \in DOMAIN Tail(s) /\ Tail(s)[m - 1] = s[m]
  OBVIOUS
<1> QED
  BY <1>1 DEF Range

LEMMA ArrivedTypes ==
  ASSUME RouterTypeOK, NEW p \in Arrived
  PROVE  p.n \in 1..received /\ p \in Packets(p.n)
<1>1. PICK n \in 1..received : p \in Packets(n)
  BY DEF Arrived
<1> QED
  BY <1>1, PacketTypes

\* A packet newer than those that wait, or one that is queued again, joins a queue.
LEMMA EnqueueStep ==
  ASSUME WaitingOK, QueuedUnknown, UNCHANGED arp_table, Arrived \subseteq Arrived',
         NEW p \in Arrived', NEW ip, ~Known(ip), Enqueue(ip, p),
         requeued \subseteq requeued', p.kind # "in" => ip = p.dst,
         \A m \in DOMAIN Waiting(ip) : Waiting(ip)[m].n < p.n \/ p \in requeued'
  PROVE  WaitingOK' /\ QueuedUnknown'
<1> DEFINE old == Waiting(ip)
<1>1. /\ DOMAIN waiting_queue' = DOMAIN waiting_queue \union {ip}
      /\ waiting_queue'[ip] = Append(old, p)
      /\ \A x \in DOMAIN waiting_queue : x # ip => waiting_queue'[x] = waiting_queue[x]
  BY DEF Enqueue
<1>2. QueuedUnknown'
  BY <1>1 DEF QueuedUnknown, Known
<1>3. /\ old \in Seq(Arrived') /\ Sorted(old, requeued')
      /\ \A m \in DOMAIN old : old[m].kind # "in" => old[m].dst = ip
  <2>1. CASE ip \in DOMAIN waiting_queue
    BY <2>1, SeqMono, SortedMono DEF WaitingOK, Waiting
  <2>2. CASE ip \notin DOMAIN waiting_queue
    BY <2>2 DEF Waiting, Sorted
  <2> QED
    BY <2>1, <2>2
<1>4. \A x \in DOMAIN waiting_queue : waiting_queue[x] \in Seq(Arrived')
  BY SeqMono DEF WaitingOK
<1>5. /\ Append(old, p) \in Seq(Arrived')
      /\ DOMAIN Append(old, p) = DOMAIN old \union {Len(old) + 1}
      /\ Append(old, p)[Len(old) + 1] = p
      /\ \A m \in DOMAIN old : Append(old, p)[m] = old[m] /\ m < Len(old) + 1 /\ m \in Nat
  <2> HIDE DEF old
  <2> QED
    BY <1>3, AppendFacts
<1>6. Len(old) \in Nat
  BY <1>3
<1>7. /\ Sorted(Append(old, p), requeued')
      /\ \A m \in DOMAIN Append(old, p) : Append(old, p)[m].kind # "in" => Append(old, p)[m].dst = ip
  <2> DEFINE new == Append(old, p)
  <2>1. \A m \in DOMAIN old : old[m].n < p.n \/ p \in requeued'
    OBVIOUS
  <2>2. ASSUME NEW m \in DOMAIN new, NEW n \in DOMAIN new, m < n
        PROVE  new[m].n < new[n].n \/ new[n] \in requeued'
    <3> HIDE DEF new, old
    <3>1. /\ DOMAIN new = DOMAIN old \union {Len(old) + 1} /\ new[Len(old) + 1] = p
          /\ \A l \in DOMAIN old : new[l] = old[l] /\ l < Len(old) + 1 /\ l \in Nat
      BY <1>5 DEF new
    <3>2. m \in DOMAIN old
      BY <1>6, <2>2, <3>1
    <3> QED
      BY <1>3, <2>1, <2>2, <3>1, <3>2 DEF Sorted
  <2>3. Sorted(new, requeued')
    BY <2>2 DEF Sorted
  <2> HIDE DEF old
  <2> QED
    BY <1>3, <1>5, <2>3
<1>8. WaitingOK'
  <2> HIDE DEF old
  <2>1. ASSUME NEW x \in DOMAIN waiting_queue'
        PROVE  /\ waiting_queue'[x] \in Seq(Arrived') /\ Sorted(waiting_queue'[x], requeued')
               /\ \A m \in DOMAIN waiting_queue'[x] :
                    waiting_queue'[x][m].kind # "in" => waiting_queue'[x][m].dst = x
    <3>1. CASE x = ip
      BY <1>1, <1>5, <1>7, <3>1
    <3>2. CASE x # ip
      BY <1>1, <1>4, <2>1, <3>2, SortedMono DEF WaitingOK
    <3> QED
      BY <3>1, <3>2
  <2> QED
    BY <2>1 DEF WaitingOK, Sorted
<1> QED
  BY <1>2, <1>8

\* Queues that are left alone are still in order.
LEMMA WaitingSame ==
  ASSUME WaitingOK, QueuedUnknown, UNCHANGED <<waiting_queue, requeued>>, Arrived \subseteq Arrived',
         DOMAIN arp_table' = DOMAIN arp_table
  PROVE  WaitingOK' /\ QueuedUnknown'
<1>1. \A x \in DOMAIN waiting_queue : waiting_queue[x] \in Seq(Arrived')
  BY SeqMono DEF WaitingOK
<1> QED
  BY <1>1 DEF WaitingOK, QueuedUnknown, Sorted

\* Nothing waits for an address that is known.
LEMMA NoneWaits ==
  ASSUME QueuedUnknown, NEW ip, Known(ip)
  PROVE  Range(Waiting(ip)) = {}
  BY DEF QueuedUnknown, Known, Waiting, Range

\* What waits keeps waiting while another packet is handled.
LEMMA QueueGrows ==
  ASSUME WaitingOK, NEW p, Waits(p) \/ Goes(p), NEW ip
  PROVE  Range(Waiting(ip)) \subseteq Range(Waiting(ip))'
<1>1. CASE Goes(p)
  BY <1>1 DEF Goes, Leaves, Waiting
<1>2. ASSUME NEW to, Enqueue(to, p) PROVE Range(Waiting(ip)) \subseteq Range(Waiting(ip))'
  <2>1. /\ DOMAIN waiting_queue' = DOMAIN waiting_queue \union {to}
        /\ waiting_queue'[to] = Append(Waiting(to), p)
        /\ \A x \in DOMAIN waiting_queue : x # to => waiting_queue'[x] = waiting_queue[x]
    BY <1>2 DEF Enqueue
  <2>2. CASE ip # to
    BY <2>1, <2>2 DEF Waiting
  <2>3. CASE ip = to
    <3>1. Waiting(ip)' = Append(Waiting(ip), p)
      BY <2>1, <2>3 DEF Waiting
    <3>2. \E S : Waiting(ip) \in Seq(S) /\ p \in S
      <4>1. Waiting(ip) \in Seq(Arrived \union {p})
        BY SeqMono DEF WaitingOK, Waiting
      <4> QED
        BY <4>1
    <3> QED
      BY <3>1, <3>2, RangeAppend
  <2> QED
    BY <2>2, <2>3
<1> QED
  BY <1>1, <1>2 DEF Waits, Wait

\* The types after a packet was handled.
LEMMA TypesKept ==
  ASSUME RouterTypeOK, FlowsOK, NEW p \in Arrived', Arrived \subseteq Arrived', Waits(p) \/ Goes(p),
         UNCHANGED arp_table,
         received' \in 0..MaxPackets
  PROVE  RouterTypeOK'
<1>1. DOMAIN flows' \subseteq OutFlows \union InFlows \union LocalFlows
  BY DEF FlowsOK, AllFlows
<1>2. sent' \subseteq [packet : Arrived', to : Addresses] /\ requeued' \subseteq Arrived'
  BY DEF Waits, Wait, Goes, Leaves, RouterTypeOK
<1>3. DOMAIN waiting_queue' \subseteq Addresses /\ asked' \subseteq Addresses
  BY DEF Waits, Wait, Goes, Leaves, Enqueue, RouterTypeOK
<1> QED
  BY <1>1, <1>2, <1>3 DEF RouterTypeOK

LEMMA PacketInStep ==
  ASSUME RouterInv, PacketIn
  PROVE  RouterInv' /\ FlowsOK
<1> USE DEF RouterInv
<1>1. /\ todo = <<>> /\ todo' = <<>> /\ received' = received + 1 /\ received \in Nat
      /\ received' \in 1..MaxPackets /\ UNCHANGED arp_table
  BY Parameters DEF PacketIn, RouterTypeOK
<1>2. PICK p \in Packets(received') : HandleIp(p)
  BY DEF PacketIn
<1>3. PatStep /\ IcmpStep /\ FlowsOK /\ (Waits(p) \/ Goes(p))
  BY <1>2, Effect
<1>4. p.n = received' /\ p \in Arrived' /\ Arrived \subseteq Arrived'
  BY <1>1, <1>2, PacketTypes DEF Arrived
<1>5. RouterTypeOK'
  BY <1>1, <1>3, <1>4, TypesKept
<1>6. PatT!NatInv' /\ IcmpT!NatInv'
  BY <1>3, TablesKept
<1>7. TodoOK'
  BY <1>1 DEF TodoOK, Sorted
<1>8. CASE Waits(p)
  <2>1. PICK ip \in Addresses :
          /\ ~Known(ip) /\ Enqueue(ip, p) /\ sent' = {} /\ requeued' = requeued
          /\ p.kind # "in" => ip = p.dst
    BY <1>1, <1>8 DEF Waits, Wait
  <2>2. \A m \in DOMAIN Waiting(ip) : Waiting(ip)[m].n < p.n
    <3>1. \A m \in DOMAIN Waiting(ip) : Waiting(ip)[m] \in Arrived
      BY DEF Waiting, WaitingOK
    <3> QED
      BY <1>1, <1>4, <3>1, ArrivedTypes
  <2>3. WaitingOK' /\ QueuedUnknown'
    BY <1>1, <1>4, <2>1, <2>2, EnqueueStep
  <2>4. InOrder'
    BY <2>1 DEF InOrder
  <2> QED
    BY <1>3, <1>5, <1>6, <1>7, <2>3, <2>4
<1>9. CASE Goes(p)
  <2>1. /\ UNCHANGED <<waiting_queue, requeued>>
        /\ \A s \in sent' : Known(s.to)
    BY <1>9 DEF Goes, Leaves
  <2>2. WaitingOK' /\ QueuedUnknown'
    BY <1>1, <1>4, <2>1, WaitingSame
  <2>3. InOrder'
    <3>1. ASSUME NEW s \in sent' PROVE Range(Waiting(s.to))' \union Range(todo') = {}
      <4>1. Range(Waiting(s.to))' = {}
        BY <2>1, NoneWaits DEF Waiting
      <4>2. Range(todo') = {}
        BY <1>1 DEF Range
      <4> QED
        BY <4>1, <4>2
    <3> QED
      BY <2>1, <3>1 DEF InOrder
  <2> QED
    BY <1>3, <1>5, <1>6, <1>7, <2>2, <2>3
<1> QED
  BY <1>3, <1>8, <1>9

LEMMA ResumeStep ==
  ASSUME RouterInv, Resume
  PROVE  RouterInv' /\ FlowsOK
<1> USE DEF RouterInv
<1> DEFINE p == Head(todo)
<1>1. /\ todo # <<>> /\ todo' = Tail(todo) /\ UNCHANGED <<arp_table, received>> /\ HandleIp(p)
      /\ todo \in Seq(Arrived) /\ Arrived' = Arrived
  BY DEF Resume, TodoOK, Arrived
<1>2. /\ p \in Arrived /\ p = todo[1] /\ 1 \in DOMAIN todo
      /\ Tail(todo) \in Seq(Arrived)
      /\ \A m \in DOMAIN Tail(todo) :
           m \in Nat /\ m + 1 \in DOMAIN todo /\ Tail(todo)[m] = todo[m + 1] /\ 1 < m + 1
  BY <1>1, TailFacts
<1> HIDE DEF p
<1>3. p.n \in 1..received /\ p \in Packets(p.n)
  BY <1>2, ArrivedTypes
<1>4. PatStep /\ IcmpStep /\ FlowsOK /\ (Waits(p) \/ Goes(p))
  BY <1>1, <1>3, Effect
<1>5. RouterTypeOK'
  <2>1. received' \in 0..MaxPackets
    BY <1>1 DEF RouterTypeOK
  <2> QED
    BY <1>1, <1>2, <1>4, <2>1, TypesKept
<1>6. PatT!NatInv' /\ IcmpT!NatInv'
  BY <1>4, TablesKept
<1>7. TodoOK'
  <2>1. Sorted(Tail(todo), requeued)
    <3> SUFFICES ASSUME NEW m \in DOMAIN Tail(todo), NEW n \in DOMAIN Tail(todo), m < n
                 PROVE  Tail(todo)[m].n < Tail(todo)[n].n \/ Tail(todo)[n] \in requeued
      BY DEF Sorted
    <3>1. /\ m + 1 \in DOMAIN todo /\ n + 1 \in DOMAIN todo /\ m + 1 < n + 1
          /\ Tail(todo)[m] = todo[m + 1] /\ Tail(todo)[n] = todo[n + 1]
      BY <1>2
    <3> QED
      BY <3>1 DEF TodoOK, Sorted
  <2>2. \A m \in DOMAIN Tail(todo) : Tail(todo)[m].kind # "in" => Known(Tail(todo)[m].dst)
    BY <1>2 DEF TodoOK
  <2>3. Sorted(Tail(todo), requeued')
    BY <1>4, <2>1, SortedMono DEF Waits, Wait, Goes, Leaves
  <2> QED
    BY <1>1, <1>2, <2>2, <2>3 DEF TodoOK, Known, Sorted
<1>8. p.kind # "in" => Known(p.dst)
  BY <1>2 DEF TodoOK
<1>9. CASE Waits(p)
  <2>1. PICK ip \in Addresses :
          /\ ~Known(ip) /\ Enqueue(ip, p) /\ sent' = {} /\ requeued' = requeued \union {p}
          /\ p.kind # "in" => ip = p.dst
    BY <1>1, <1>9 DEF Waits, Wait
  <2>2. p.kind = "in"
    BY <1>8, <2>1
  <2>3. WaitingOK' /\ QueuedUnknown'
    BY <1>1, <1>2, <2>1, <2>2, EnqueueStep
  <2>4. InOrder'
    BY <2>1, <2>2 DEF InOrder
  <2> QED
    BY <1>4, <1>5, <1>6, <1>7, <2>3, <2>4
<1>10. CASE Goes(p)
  <2>1. /\ UNCHANGED <<waiting_queue, requeued>>
        /\ \A s \in sent' : Known(s.to) /\ s.packet = p
    BY <1>10 DEF Goes, Leaves
  <2>2. WaitingOK' /\ QueuedUnknown'
    BY <1>1, <2>1, WaitingSame
  <2>3. ASSUME NEW q \in Range(Tail(todo)) PROVE q.n > p.n \/ q \in requeued
    <3>1. PICK m \in DOMAIN Tail(todo) : q = Tail(todo)[m]
      BY DEF Range
    <3>2. m + 1 \in DOMAIN todo /\ q = todo[m + 1] /\ 1 < m + 1 /\ m + 1 \in Nat
      BY <1>2, <3>1
    <3>3. todo[1].n < todo[m + 1].n \/ todo[m + 1] \in requeued
      BY <1>2, <3>2 DEF TodoOK, Sorted
    <3>4. q.n \in Int /\ p.n \in Int
      BY <1>1, <1>2, <3>2, ArrivedTypes
    <3> QED
      BY <1>2, <3>2, <3>3, <3>4
  <2>4. InOrder'
    <3>1. \A s \in sent' : Range(Waiting(s.to))' = {}
      BY <2>1, NoneWaits DEF Waiting
    <3> QED
      BY <1>1, <2>1, <2>3, <3>1 DEF InOrder
  <2> QED
    BY <1>4, <1>5, <1>6, <1>7, <2>2, <2>4
<1> QED
  BY <1>4, <1>9, <1>10

LEMMA HandleArpStep ==
  ASSUME RouterInv, NEW ip \in Hosts \union Remotes, HandleArp(ip)
  PROVE  RouterInv' /\ FlowsOK
<1> USE DEF RouterInv
<1>1. /\ todo' = Waiting(ip) /\ sent' = {} /\ asked' = asked \ {ip}
      /\ UNCHANGED <<natVars, icmpVars, flows, received, requeued>> /\ Learn(ip) /\ Dequeue(ip)
  BY DEF HandleArp
<1>2. /\ DOMAIN arp_table' = Fresh \union {ip} /\ Fresh \subseteq DOMAIN arp_table
      /\ \A x \in DOMAIN arp_table' : arp_table'[x] \in 0..EntryTimeout + 1
  BY <1>1, Parameters DEF Learn, Fresh, RouterTypeOK
<1>3. /\ DOMAIN waiting_queue' = DOMAIN waiting_queue \ {ip}
      /\ \A x \in DOMAIN waiting_queue' : waiting_queue'[x] = waiting_queue[x]
  BY <1>1 DEF Dequeue, Restrict
<1>4. PatT!NatInv' /\ IcmpT!NatInv'
  BY <1>1, TablesKept DEF PatStep, IcmpStep
<1>5. RouterTypeOK'
  BY <1>1, <1>2, <1>3 DEF RouterTypeOK, Arrived
<1>6. QueuedUnknown'
  BY <1>2, <1>3 DEF QueuedUnknown
<1>7. Arrived' = Arrived
  BY <1>1 DEF Arrived
<1>8. WaitingOK'
  BY <1>1, <1>3, <1>7 DEF WaitingOK, Sorted
<1>9. TodoOK'
  <2>1. CASE ip \in DOMAIN waiting_queue
    BY <1>1, <1>2, <1>7, <2>1 DEF TodoOK, Waiting, WaitingOK, Known, Sorted
  <2>2. CASE ip \notin DOMAIN waiting_queue
    BY <1>1, <2>2 DEF TodoOK, Waiting, Sorted
  <2> QED
    BY <2>1, <2>2
<1>10. InOrder'
  BY <1>1 DEF InOrder
<1>11. FlowsOK
  BY <1>1 DEF FlowsOK, Kept, RouterTypeOK, AllFlows
<1> QED
  BY <1>4, <1>5, <1>6, <1>8, <1>9, <1>10, <1>11

LEMMA SecondStep ==
  ASSUME RouterInv, Second
  PROVE  RouterInv' /\ FlowsOK
<1> USE DEF RouterInv
<1>1. /\ todo = <<>> /\ sent' = {} /\ UNCHANGED <<asked, todo, received, waiting_queue, requeued>>
      /\ Pat!Tick /\ Icmp!IcmpTick
  BY DEF Second, ArpTick
<1>2. /\ DOMAIN arp_table' = DOMAIN arp_table
      /\ \A x \in DOMAIN arp_table : arp_table'[x] \in 0..EntryTimeout + 1
  BY Parameters DEF Second, ArpTick, RouterTypeOK
<1>3. /\ DOMAIN flows' \subseteq DOMAIN flows /\ \A m \in DOMAIN flows' : flows'[m] = flows[m]
  BY DEF Second, Restrict
<1>4. PatT!NatInv' /\ IcmpT!NatInv'
  BY <1>1, TablesKept DEF PatStep, IcmpStep
<1>5. RouterTypeOK' /\ FlowsOK
  BY <1>1, <1>2, <1>3 DEF RouterTypeOK, FlowsOK, Kept, AllFlows, Arrived
<1>6. Arrived' = Arrived
  BY <1>1 DEF Arrived
<1>7. WaitingOK' /\ QueuedUnknown'
  BY <1>1, <1>2, <1>6, WaitingSame
<1>8. TodoOK' /\ InOrder'
  BY <1>1 DEF TodoOK, InOrder, Sorted
<1> QED
  BY <1>4, <1>5, <1>7, <1>8
-----------------------------------------------------------------------------
LEMMA InitInv == Init => RouterInv
<1> SUFFICES ASSUME Init PROVE RouterInv
  OBVIOUS
<1>1. /\ DOMAIN arp_table = {} /\ DOMAIN waiting_queue = {} /\ DOMAIN flows = {}
      /\ todo = <<>> /\ sent = {} /\ requeued = {} /\ asked = {} /\ received = 0
  BY DEF Init, ArpInit
<1>2. RouterTypeOK /\ QueuedUnknown /\ InOrder
  BY <1>1, Parameters DEF RouterTypeOK, QueuedUnknown, InOrder
<1>3. WaitingOK /\ TodoOK
  BY <1>1 DEF WaitingOK, TodoOK, Sorted
<1> QED
  BY <1>2, <1>3, TablesInit DEF RouterInv

\* The invariant is inductive, and every step installs flows that agree.
LEMMA NextInv == ASSUME RouterInv, Next PROVE RouterInv' /\ FlowsOK
  BY PacketInStep, HandleArpStep, ResumeStep, SecondStep DEF Next

LEMMA StutterInv == ASSUME RouterInv, UNCHANGED vars PROVE RouterInv'
<1>1. /\ UNCHANGED <<arp_table, waiting_queue, flows, asked, todo, received, sent, requeued>>
      /\ UNCHANGED <<natVars, icmpVars>>
  BY DEF vars, arpVars
<1>2. PatT!NatInv' /\ IcmpT!NatInv'
  BY <1>1, TablesKept DEF PatStep, IcmpStep, RouterInv
<1>3. Arrived' = Arrived /\ \A ip : Waiting(ip)' = Waiting(ip)
  BY <1>1 DEF Arrived, Waiting
<1>4. RouterTypeOK' /\ QueuedUnknown' /\ InOrder'
  BY <1>1, <1>3 DEF RouterInv, RouterTypeOK, QueuedUnknown, InOrder
<1>5. WaitingOK' /\ TodoOK'
  BY <1>1, <1>3 DEF RouterInv, WaitingOK, TodoOK, Known, Sorted
<1> QED
  BY <1>2, <1>4, <1>5 DEF RouterInv

\* What the handling of a packet does, of one that arrives or of one that waited.
LEMMA HandleEffect ==
  ASSUME RouterInv, PacketIn \/ Resume
  PROVE  PatStep /\ IcmpStep /\ \E p : Waits(p) \/ Goes(p)
<1>1. CASE PacketIn
  <2>1. PICK p \in Packets(received') : HandleIp(p)
    BY <1>1 DEF PacketIn
  <2> QED
    BY <2>1, Effect
<1>2. CASE Resume
  <2>1. Head(todo) \in Arrived /\ HandleIp(Head(todo))
    BY <1>2, TailFacts DEF Resume, RouterInv, TodoOK
  <2>2. PICK n : Head(todo) \in Packets(n)
    BY <2>1 DEF Arrived
  <2> QED
    BY <2>1, <2>2, Effect
<1> QED
  BY <1>1, <1>2

\* Every step of the router is a step of its two tables, or leaves them alone.
LEMMA TableSteps == ASSUME RouterInv, [Next]_vars PROVE PatStep /\ IcmpStep
<1>1. CASE PacketIn \/ Resume
  BY <1>1, HandleEffect
<1>2. ASSUME NEW ip \in Hosts \union Remotes, HandleArp(ip) PROVE PatStep /\ IcmpStep
  BY <1>2 DEF HandleArp, PatStep, IcmpStep
<1>3. CASE Second \/ UNCHANGED vars
  BY <1>3 DEF Second, vars, PatStep, IcmpStep
<1> QED
  BY <1>1, <1>2, <1>3 DEF Next

\* Every reachable state satisfies the invariant.
THEOREM RouterInvariance == Spec => []RouterInv
<1>1. RouterInv /\ [Next]_vars => RouterInv'
  BY NextInv, StutterInv
<1> QED
  BY InitInv, <1>1, PTL DEF Spec

\* The variables of the router have their types.
THEOREM RouterTypeCorrect == Spec => []RouterTypeOK
<1>1. RouterInv => RouterTypeOK
  BY DEF RouterInv
<1> QED
  BY <1>1, RouterInvariance, PTL

\* No packet waits for an address that the ARP table holds.
THEOREM QueuedUnknownCorrect == Spec => []QueuedUnknown
<1>1. RouterInv => QueuedUnknown
  BY DEF RouterInv
<1> QED
  BY <1>1, RouterInvariance, PTL

\* What is sent never overtakes an earlier packet for the same address, whatever
\* the kind of the two, unless that packet was incoming and was queued again.
THEOREM InOrderCorrect == Spec => []InOrder
<1>1. RouterInv => InOrder
  BY DEF RouterInv
<1> QED
  BY <1>1, RouterInvariance, PTL

\* A packet that waits stays pending until it is handled itself.
THEOREM NoneForgottenCorrect == Spec => NoneForgotten
<1> DEFINE Stay == \A q \in Pending \ Pending' : todo # <<>> /\ q = Head(todo)
<1>1. RouterInv /\ [Next]_vars => [Stay]_vars
  <2> SUFFICES ASSUME RouterInv, Next PROVE Stay
    OBVIOUS
  <2>1. ASSUME NEW p, Waits(p) \/ Goes(p), NEW ip \in Addresses
        PROVE  Range(Waiting(ip)) \subseteq Range(Waiting(ip))'
    BY <2>1, QueueGrows DEF RouterInv
  <2>2. CASE PacketIn
    BY <2>1, <2>2, HandleEffect DEF PacketIn, Pending
  <2>3. CASE Resume
    <3>1. todo # <<>> /\ todo' = Tail(todo) /\ todo \in Seq(Arrived)
      BY <2>3 DEF Resume, RouterInv, TodoOK
    <3>2. Range(todo) \subseteq {Head(todo)} \union Range(Tail(todo))
      BY <3>1, RangeTail
    <3> QED
      BY <2>1, <2>3, <3>1, <3>2, HandleEffect DEF Pending
  <2>4. ASSUME NEW ip \in Hosts \union Remotes, HandleArp(ip) PROVE Stay
    <3>1. todo = <<>> /\ todo' = Waiting(ip) /\ ip \in Addresses
      BY <2>4 DEF HandleArp, Addresses
    <3>2. \A x \in Addresses \ {ip} : Waiting(x)' = Waiting(x)
      BY <2>4 DEF HandleArp, Dequeue, Restrict, Waiting
    <3>3. Range(todo) = {}
      BY <3>1 DEF Range
    <3>4. Pending \subseteq Pending'
      BY <3>1, <3>2, <3>3 DEF Pending
    <3> QED
      BY <3>4
  <2>5. CASE Second
    BY <2>5 DEF Second, ArpTick, Pending, Waiting
  <2> QED
    BY <2>2, <2>3, <2>4, <2>5 DEF Next
<1> QED
  BY <1>1, RouterInvariance, PTL DEF Spec, NoneForgotten

\* Every flow that is installed says what the NAT table says at that moment.
THEOREM FlowsAgreeCorrect == Spec => FlowsAgree
<1>1. RouterInv /\ [Next]_vars =>
        [\A m \in OutFlows \union InFlows : m \in DOMAIN flows' => Kept(m) \/ Agrees(m)']_vars
  BY NextInv DEF FlowsOK
<1> QED
  BY <1>1, RouterInvariance, PTL DEF Spec, FlowsAgree

\* Whatever waits has been asked for: handle_arp takes an address from the queue
\* and from what was asked for together, nothing else takes any.
THEOREM WaitingAskedCorrect == Spec => []WaitingAsked
<1>1. Init => WaitingAsked
  BY DEF Init, ArpInit, WaitingAsked
<1>2. RouterInv /\ WaitingAsked /\ [Next]_vars => WaitingAsked'
  <2> SUFFICES ASSUME RouterInv, WaitingAsked, [Next]_vars PROVE WaitingAsked'
    OBVIOUS
  <2>1. ASSUME NEW p, Waits(p) \/ Goes(p) PROVE WaitingAsked'
    BY <2>1 DEF WaitingAsked, Waits, Wait, Goes, Enqueue, Leaves
  <2>2. CASE PacketIn \/ Resume
    BY <2>1, <2>2, HandleEffect
  <2>3. ASSUME NEW ip \in Hosts \union Remotes, HandleArp(ip) PROVE WaitingAsked'
    BY <2>3 DEF HandleArp, Dequeue, Restrict, WaitingAsked
  <2>4. CASE Second \/ UNCHANGED vars
    BY <2>4 DEF Second, ArpTick, vars, arpVars, WaitingAsked
  <2> QED
    BY <2>2, <2>3, <2>4 DEF Next
<1> QED
  BY <1>1, <1>2, RouterInvariance, PTL DEF Spec

\* The router uses the table of NatHandler and that of IcmpHandler as they allow:
\* its run implements both specifications.
THEOREM RouterUsesTables == Spec => Pat!NatSpec /\ Icmp!Table!NatSpec
<1>1. Init => Pat!NatInit /\ Icmp!Table!NatInit
  BY DEF Init, Icmp!IcmpInit
<1>2. RouterInv /\ [Next]_vars =>
        [Pat!NatNext]_(Pat!natVars) /\ [Icmp!Table!NatNext]_(Icmp!Table!natVars)
  BY TableSteps, PatSteps, IcmpSteps
<1> QED
  BY <1>1, <1>2, RouterInvariance, PTL DEF Spec, Pat!NatSpec, Icmp!Table!NatSpec

\* What the hosts see of it: however packets wait, expire and compete, each
\* public port and each ICMP identifier belongs to one flow at a time, answers to
\* it reach the host it was given to, and none is lost.
THEOREM RouterTablesCorrect ==
  Spec => [](/\ Pat!TablesAgree /\ Pat!PortsExclusive /\ Pat!NoPortLost
             /\ Icmp!Table!TablesAgree /\ Icmp!Table!PortsExclusive /\ Icmp!Table!NoPortLost)
<1>1. PatT!NatInv => Pat!TablesAgree /\ Pat!PortsExclusive /\ Pat!NoPortLost
  BY DEF PatT!NatInv, PatT!TablesAgree, Pat!TablesAgree, PatT!PortsExclusive,
     Pat!PortsExclusive, PatT!NoPortLost, Pat!NoPortLost, PatT!ReverseKey, Pat!ReverseKey
<1>2. IcmpT!NatInv =>
        Icmp!Table!TablesAgree /\ Icmp!Table!PortsExclusive /\ Icmp!Table!NoPortLost
  BY DEF IcmpT!NatInv, IcmpT!TablesAgree, Icmp!Table!TablesAgree, IcmpT!PortsExclusive,
     Icmp!Table!PortsExclusive, IcmpT!NoPortLost, Icmp!Table!NoPortLost, IcmpT!ReverseKey,
     Icmp!Table!ReverseKey
<1>3. RouterInv => PatT!NatInv /\ IcmpT!NatInv
  BY DEF RouterInv
<1> QED
  BY <1>1, <1>2, <1>3, RouterInvariance, PTL

\* A host keeps its public port and its ICMP identifier for ENTRY_TIMEOUT seconds,
\* whatever packets arrive, wait or are resumed meanwhile.
THEOREM RouterStable == Spec => PatT!StableMapping /\ IcmpT!StableMapping
<1>1. Init => PatT!NatInit /\ IcmpT!NatInit
  BY DEF Init, Pat!NatInit, PatT!NatInit, Icmp!IcmpInit, Icmp!Table!NatInit, IcmpT!NatInit
<1>2. RouterInv /\ [Next]_vars => [PatT!NatNext]_(PatT!natVars) /\ [IcmpT!NatNext]_(IcmpT!natVars)
  BY TableSteps, PatSteps, IcmpSteps, PatIsNat, IcmpIsNat
<1>3. Spec => PatT!NatSpec /\ IcmpT!NatSpec
  BY <1>1, <1>2, RouterInvariance, PTL DEF Spec, PatT!NatSpec, IcmpT!NatSpec
<1>4. PatT!NatSpec => PatT!StableMapping
  BY PatT!NatStable, Parameters
<1>5. IcmpT!NatSpec => IcmpT!StableMapping
  BY IcmpT!NatStable, Parameters
<1> QED
  BY <1>3, <1>4, <1>5, PTL
=============================================================================

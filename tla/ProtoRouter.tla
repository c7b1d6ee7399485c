----------------------------- MODULE ProtoRouter ------------------------------
(***************************************************************************)
(* The controller of tp2 (protorouter.py) with its three handlers, the     *)
(* hosts that send packets and answer ARP, and the flows it installs in    *)
(* the switch.                                                             *)
(*                                                                         *)
(* POX handles one event at a time.  An ARP packet makes the controller    *)
(* handle again, one after the other, the packets that waited for its      *)
(* sender (todo), before it looks at any other event.  What the controller *)
(* sends without changing anything (ARP replies, flooded ARP) is left out. *)
(*                                                                         *)
(* The switch drops a flow when no packet has used it for a while: whether *)
(* packets come is up to the hosts, so a flow may stay or go at any time.  *)
(* Packets for which there is a flow may still reach the controller, if    *)
(* they were on their way when it was installed.                           *)
(***************************************************************************)
EXTENDS ArpHandler

CONSTANTS
  Hosts,      \* private hosts: each uses one port per protocol and one ICMP id
  Nobody,     \* private addresses without a host: PRIVATE_IP, unassigned ones
  Remotes,    \* public hosts
  Protocols,  \* TCP and UDP
  Ports,      \* PAT_PORT_MIN..PAT_PORT_MAX and ICMP_ID_MIN..ICMP_ID_MAX
  MaxPackets  \* bound on the packets that reach the controller

ASSUME RouterAssumption ==
  /\ Hosts \intersect Remotes = {} /\ Nobody \intersect (Hosts \union Remotes) = {}
  /\ Ports \subseteq Nat /\ "ICMP" \notin Protocols /\ MaxPackets \in Nat

VARIABLES
  nat_table, reverse_nat, public_port_pool,   \* of NatHandler
  icmp_table, reverse_icmp, icmp_id_pool,     \* of IcmpHandler
  flows,     \* the switch: by match, the host or public port it rewrites to
  asked,     \* addresses it sent ARP requests for and has not heard of since
  todo,      \* packets taken from the queue that are to be handled now
  received,  \* number of packets that reached the controller
  sent,      \* what the last step sent, if anything: a packet and where to
  requeued   \* history variable: the packets that waited, were resumed and then
             \* had to wait for another address

natVars == <<nat_table, reverse_nat, public_port_pool>>
icmpVars == <<icmp_table, reverse_icmp, icmp_id_pool>>
vars == <<arpVars, natVars, icmpVars, flows, asked, todo, received, sent, requeued>>

Pat == INSTANCE NatHandler WITH Endpoints <- Hosts
Icmp == INSTANCE IcmpHandler WITH Sessions <- Hosts, Ids <- Ports

Addresses == Hosts \union Nobody \union Remotes

\* Packets carry the number of their arrival.  dst of an incoming packet is the
\* public port or ICMP id.
Outgoing(n) == [n : {n}, kind : {"out"}, proto : Protocols \union {"ICMP"},
                src : Hosts, dst : Remotes]
Incoming(n) == [n : {n}, kind : {"in"}, proto : Protocols \union {"ICMP"},
                src : Remotes, dst : Ports]
Local(n) == {p \in [n : {n}, kind : {"local"}, proto : {"any"},
                    src : Hosts, dst : Hosts \union Nobody] : p.src # p.dst}
Packets(n) == Outgoing(n) \union Incoming(n) \union Local(n)

\* The match of a flow: what it is for, and the two ends of the packets.
OutFlow(proto, host, remote) == <<"out", proto, host, remote>>
InFlow(proto, remote, port) == <<"in", proto, remote, port>>
LocalFlow(src, dst) == <<"local", "any", src, dst>>

OutFlows == {OutFlow(proto, h, r) : proto \in Protocols, h \in Hosts, r \in Remotes}
InFlows == {InFlow(proto, r, port) : proto \in Protocols, r \in Remotes, port \in Ports}
LocalFlows == {LocalFlow(h, l) : h \in Hosts, l \in Hosts}

Init ==
  /\ ArpInit /\ Pat!NatInit /\ Icmp!IcmpInit
  /\ flows = [m \in {} |-> 0]
  /\ asked = {}
  /\ todo = <<>>
  /\ received = 0
  /\ sent = {}
  /\ requeued = {}
-----------------------------------------------------------------------------
(* The handlers, as functions of the packet p.                              *)

\* _install_flow, twice: a flow with the same match is replaced.
Install(m1, to1, m2, to2) ==
  flows' = [m \in DOMAIN flows \union {m1, m2} |->
    IF m = m1 THEN to1 ELSE IF m = m2 THEN to2 ELSE flows[m]]

\* The packet p waits, again if it is one of those that are being resumed.
Wait(ip, p) ==
  /\ Enqueue(ip, p)
  /\ requeued' = IF todo = <<>> THEN requeued ELSE requeued \union {p}
  /\ sent' = {}
  /\ UNCHANGED flows

\* Faulty: no ARP request is sent.
AskSilently(ip, p) == ~Known(ip) /\ Wait(ip, p) /\ UNCHANGED asked

\* _resolve_mac and _resolve_mac_and_port, when the address is not known.
Ask(ip, p) ==
  /\ ~Known(ip)
  /\ Wait(ip, p)
  /\ asked' = asked \union {ip}

\* The packet is sent or dropped: it does not wait.
Leaves == UNCHANGED <<waiting_queue, asked, requeued>>
Dropped == Leaves /\ sent' = {} /\ UNCHANGED flows
Sent(p, to) == Leaves /\ sent' = {[packet |-> p, to |-> to]}

\* _handle_outgoing.
HandleOutgoing(p) ==
  LET k == <<p.proto, p.src>> IN
  /\ p.kind = "out"
  /\ \/ Ask(p.dst, p) /\ UNCHANGED <<natVars, icmpVars>>
     \/ /\ Known(p.dst) /\ p.proto = "ICMP"
        /\ \/ Icmp!RefuseEntry(p.src) /\ Dropped
           \/ Icmp!CreateEntry(p.src) /\ Sent(p, p.dst) /\ UNCHANGED flows
        /\ UNCHANGED natVars
     \/ /\ Known(p.dst) /\ p.proto # "ICMP"
        /\ \/ Pat!Refuse(k) /\ Dropped
           \/ /\ Pat!Find(k) \/ Pat!Create(k)
              /\ LET port == nat_table'[k].public_port
                 IN Install(OutFlow(p.proto, p.src, p.dst), port,
                            InFlow(p.proto, p.dst, port), p.src)
              /\ Sent(p, p.dst)
        /\ UNCHANGED icmpVars

\* _handle_private_to_private.
HandleLocal(p) ==
  /\ p.kind = "local"
  /\ \/ Ask(p.dst, p)
     \/ /\ Known(p.dst)
        /\ Install(LocalFlow(p.src, p.dst), p.dst, LocalFlow(p.dst, p.src), p.src)
        /\ Sent(p, p.dst)
  /\ UNCHANGED <<natVars, icmpVars>>

\* Faulty: the entry may have expired; the key is returned for the host.
OwnersKey(p) == {<<p.proto, p.dst>>} \intersect Pat!LiveReverse
OwnersAll(p) == {reverse_nat[r] : r \in {<<p.proto, p.dst>>} \intersect DOMAIN reverse_nat}

\* get_reverse_entry returns the private host a public port belongs to, if any.
Owners(p) ==
  {reverse_nat[r] : r \in {<<p.proto, p.dst>>} \intersect Pat!LiveReverse}

\* _handle_incoming: TCP and UDP, ICMP.
HandleIncoming(p) ==
  /\ p.kind = "in" /\ p.proto # "ICMP"
  /\ Pat!GetReverseEntry
  /\ \/ Owners(p) = {} /\ Dropped
     \/ \E host \in Owners(p) :
          \/ Ask(host, p)
          \/ /\ Known(host)
             /\ Install(InFlow(p.proto, p.src, p.dst), host,
                        OutFlow(p.proto, host, p.src), p.dst)
             /\ Sent(p, host)
  /\ UNCHANGED icmpVars

HandleIncomingIcmp(p) ==
  /\ p.kind = "in" /\ p.proto = "ICMP"
  /\ Icmp!GetReverse
  /\ \/ ~Icmp!HasReverse(p.dst) /\ Dropped
     \/ Icmp!HasReverse(p.dst) /\ Ask(Icmp!Reverse(p.dst), p)
     \/ /\ Icmp!HasReverse(p.dst) /\ Known(Icmp!Reverse(p.dst))
        /\ Sent(p, Icmp!Reverse(p.dst)) /\ UNCHANGED flows
  /\ UNCHANGED natVars

\* handle_ip.
HandleIp(p) ==
  HandleOutgoing(p) \/ HandleLocal(p) \/ HandleIncoming(p) \/ HandleIncomingIcmp(p)
-----------------------------------------------------------------------------
\* A packet reaches the controller, which has nothing else to do.
PacketIn ==
  /\ todo = <<>> /\ received < MaxPackets
  /\ received' = received + 1
  /\ \E p \in Packets(received') : HandleIp(p)
  /\ UNCHANGED <<arp_table, todo>>

\* handle_arp: a request or reply of ip.
HandleArp(ip) ==
  /\ todo = <<>>
  /\ Learn(ip)
  /\ todo' = Waiting(ip)
  /\ Dequeue(ip)
  /\ asked' = asked \ {ip}
  /\ sent' = {}
  /\ UNCHANGED <<natVars, icmpVars, flows, received, requeued>>

\* The reply to a request of the router.
Answer(ip) == ip \in asked /\ HandleArp(ip)

\* Faulty: a packet that has to be dropped ends the loop.
ResumeUntilDropped ==
  /\ todo # <<>>
  /\ HandleIp(Head(todo))
  /\ todo' = IF sent' = {} /\ waiting_queue' = waiting_queue THEN <<>> ELSE Tail(todo)
  /\ UNCHANGED <<arp_table, received>>

\* The loop of handle_arp: the next of the packets that waited.
Resume ==
  /\ todo # <<>>
  /\ todo' = Tail(todo)
  /\ HandleIp(Head(todo))
  /\ UNCHANGED <<arp_table, received>>

\* A second passes.  The flows that were not used for long enough are dropped.
Second ==
  /\ todo = <<>>
  /\ ArpTick /\ Pat!Tick /\ Icmp!IcmpTick
  /\ \E used \in SUBSET DOMAIN flows : flows' = Restrict(flows, used)
  /\ sent' = {}
  /\ UNCHANGED <<asked, todo, received, requeued>>

Next ==
  \/ PacketIn
  \/ \E ip \in Hosts \union Remotes : HandleArp(ip)
  \/ Resume
  \/ Second

Spec == Init /\ [][Next]_vars

\* The links of tp2 lose nothing: a host answers each ARP request.  The
\* controller goes on with the packets it took from the queue.
Fairness ==
  /\ \A ip \in Hosts \union Remotes : WF_vars(Answer(ip))
  /\ WF_vars(Resume)

FairSpec == Spec /\ Fairness
-----------------------------------------------------------------------------
Arrived == UNION {Packets(n) : n \in 1..received}

\* Every variable of the router has its type.
RouterTypeOK ==
  /\ DOMAIN arp_table \subseteq Hosts \union Remotes
  /\ \A ip \in DOMAIN arp_table : arp_table[ip] \in 0..EntryTimeout + 1
  /\ DOMAIN waiting_queue \subseteq Addresses
  /\ DOMAIN flows \subseteq OutFlows \union InFlows \union LocalFlows
  /\ asked \subseteq Addresses
  /\ received \in 0..MaxPackets
  /\ sent \subseteq [packet : Arrived, to : Addresses]
  /\ requeued \subseteq Arrived

\* No packet waits for an address the table holds: whoever learns an address
\* takes its whole queue, and the reap never brings back an address with a queue.
\* Otherwise later packets would overtake the ones that wait (handle_arp).
QueuedUnknown == DOMAIN waiting_queue \intersect DOMAIN arp_table = {}

\* The controller never sends a packet to an address ahead of one that came
\* earlier and waits for that address or is about to be handled again, whether the
\* packets are incoming, outgoing or local, and however many waited for ARP
\* (dequeue_packets, handle_arp).  The exception is an incoming packet whose public
\* port or ICMP id went to another host while it waited: it is queued once more,
\* behind the packets of that host, and they overtake it.  Nothing of the kind
\* happens to an outgoing or a local packet, which waits once at most.
InOrder ==
  /\ \A s \in sent : \A q \in Range(Waiting(s.to)) \union Range(todo) :
       q.n > s.packet.n \/ q \in requeued
  /\ \A q \in requeued : q.kind = "in"

\* A packet that waits is not forgotten: it stays in a queue, or among those that
\* are to be handled again, until its own turn comes.  That the packet before it is
\* dropped, as its entry expired or no port is free, or has to wait again, takes
\* nothing from it (the loop of handle_arp, dequeue_packets).
Pending == (UNION {Range(Waiting(ip)) : ip \in Addresses}) \union Range(todo)
NoneForgotten ==
  [][\A q \in Pending \ Pending' : todo # <<>> /\ q = Head(todo)]_vars

\* A flow that is installed says what the NAT table says at that moment, in
\* both directions, even if its packet waited for ARP until the entry it was
\* looked up with expired or went to another host (_handle_incoming).
Assigned(proto, host, port) ==
  LET k == <<proto, host>> IN
  /\ k \in DOMAIN nat_table
  /\ nat_table[k].public_port = port /\ nat_table[k].age <= EntryTimeout
Agrees(m) == IF m \in OutFlows THEN Assigned(m[2], m[3], flows[m])
                                ELSE Assigned(m[2], flows[m], m[4])
Kept(m) == m \in DOMAIN flows /\ flows'[m] = flows[m]
FlowsAgree ==
  [][\A m \in OutFlows \union InFlows : m \in DOMAIN flows' => Kept(m) \/ Agrees(m)']_vars

\* Whatever waits has been asked for, and the answer is still to come: an ARP
\* packet that ends the wait for one packet ends it for all, and no packet joins
\* a queue that is being emptied. Nothing would ever send the request again
\* (_resolve_mac, handle_arp).
WaitingAsked == DOMAIN waiting_queue \subseteq asked

\* A packet that waits for a host that exists does not wait for ever.
WaitersResumed ==
  \A ip \in Hosts \union Remotes :
    ip \in DOMAIN waiting_queue ~> ip \notin DOMAIN waiting_queue

\* The claim of main.tex:137: connections of different hosts do not collide.
NoCollision ==
  \A m, l \in DOMAIN flows :
    /\ m[1] = "out" /\ l[1] = "out" /\ m[2] = l[2] /\ flows[m] = flows[l]
    => m[3] = l[3]
=============================================================================

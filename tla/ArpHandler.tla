------------------------------ MODULE ArpHandler ------------------------------
(***************************************************************************)
(* The ARP table of tp2's router and the queue of packets that wait for an *)
(* address it does not hold (arp_handler.py).  Entries expire              *)
(* ENTRY_TIMEOUT seconds after they were last learnt, but only learning    *)
(* another one removes them: a lookup returns an expired entry too.        *)
(*                                                                         *)
(* The MAC address and switch port of a host are functions of its address  *)
(* and never change (topo.py), so that an entry is its age.                *)
(***************************************************************************)
EXTENDS Integers, Sequences, Functions

CONSTANT EntryTimeout  \* ENTRY_TIMEOUT

ASSUME ArpAssumption == EntryTimeout \in Nat

VARIABLES
  arp_table,     \* by address: the age of its entry
  waiting_queue  \* by address: the packets that wait for it, in order

arpVars == <<arp_table, waiting_queue>>

ArpInit ==
  /\ arp_table = [ip \in {} |-> 0]
  /\ waiting_queue = [ip \in {} |-> <<>>]

\* get_mac and get_port find something.
Known(ip) == ip \in DOMAIN arp_table
Waiting(ip) == IF ip \in DOMAIN waiting_queue THEN waiting_queue[ip] ELSE <<>>

\* Faulty: the packet goes to the front of the queue.
EnqueueFirst(ip, packet) ==
  waiting_queue' = [x \in DOMAIN waiting_queue \union {ip} |->
    IF x = ip THEN <<packet>> \o Waiting(ip) ELSE waiting_queue[x]]

\* enqueue_packet.
Enqueue(ip, packet) ==
  waiting_queue' = [x \in DOMAIN waiting_queue \union {ip} |->
    IF x = ip THEN Append(Waiting(ip), packet) ELSE waiting_queue[x]]

\* Faulty: an address that is asked for no more keeps its packets.
DequeueNone(ip) == UNCHANGED waiting_queue

\* dequeue_packets: the caller takes Waiting(ip).
Dequeue(ip) == waiting_queue' = Restrict(waiting_queue, DOMAIN waiting_queue \ {ip})

\* What _reap_arp_table leaves.
Fresh == {ip \in DOMAIN arp_table : arp_table[ip] <= EntryTimeout}

\* learn_arp_entry.
Learn(ip) ==
  arp_table' = [x \in Fresh \union {ip} |-> IF x = ip THEN 0 ELSE arp_table[x]]

\* A second passes.
ArpTick ==
  /\ arp_table' = [ip \in DOMAIN arp_table |->
       IF arp_table[ip] <= EntryTimeout THEN arp_table[ip] + 1 ELSE arp_table[ip]]
  /\ UNCHANGED waiting_queue
=============================================================================

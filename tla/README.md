# Verification of FIUBA-REDES

TLA+ models of the two programs of this repository, TLC runs on small
instances, and TLAPS proofs for every value of the parameters.

* **tp1** copies files over UDP with an error recovery protocol of its own,
  Selective Repeat or Stop and Wait: a client (`upload.py`, `download.py`,
  `lib/client/Client.py`) and a server with one thread per client address
  (`start-server.py`, `lib/server/Server.py`).
* **tp2** is a POX controller (`protorouter.py`) that makes an OpenFlow switch a
  NAT router: a NAT table with a pool of public ports, the same for ICMP
  identifiers, an ARP table with a queue of waiting packets, and the flows it
  installs in the switch.

## 1. Inventory

| Part | State | Operations | Interacts with | What is hard | Correct when |
|---|---|---|---|---|---|
| `SelectiveRepeat` | `seq_num`, `next_expected`, `window` of sent packets with send times, `buffer` of early chunks | `push_payload`, `get_timedouts`, `handle_packet` and its six handlers, `fin`, `syn` ... | returns an `Event` that the client or worker acts on; its packets go to the other end | loss, reordering, duplicates, retransmissions racing acknowledgements, the two windows drifting apart | chunks are written once and in order; a slot is freed only by its own acknowledgement; CLOSE goes out when everything arrived |
| `StopAndWait` | `seq_num`, `next_expected`, `_pending`, `_waiting_ack` | the same | the same | the same, with one packet | it behaves as Selective Repeat with a window of one |
| `Client` | the socket, the file, the protocol object | handshake, receive loop, `handle_syn_ack`, `handle_data`, `handle_ack`, `handle_close`, `handle_close_fin` | the worker, by packets | timeout during and after the handshake; leaving the loop too early or never | when it ends normally the copy is complete; it does end |
| Server worker (`handle_clientt`) | protocol object, `FileHandler`, inactivity counter | `_handle_handshake`, `_handle_init`, `_handle_data`, `_handle_ack`, `_handle_close`, `handle_close_fin` | the client; the dispatcher through its queue | exceptions end the thread half way through a handler and leave its queue behind | it outlives no client, fails on no legal packet |
| Dispatcher (`start`, `_raise_thread`) | `clientDataQueues` under a lock | receive, create queue and thread, put | all workers | put outside the lock races with the deletion; late packets start threads; files are shared | an address has one worker at a time, which handles its packets in the order they came |
| `FileHandler` | file, path, name | create, open, read, write, eof, close | | errors of an unopened file | |
| `Packet`, `Event`, factory | none | encode, check, decode | | a wrong checksum | damaged packets change nothing |
| `NatHandler` | `nat_table`, `reverse_nat`, `public_port_pool`, timestamps | `create_pat_entry`, `get_reverse_entry`, both after `_reap_nat_table` | called by the router | expiry and reuse of ports | the dictionaries are inverse, a port belongs to one flow, none is lost |
| `IcmpHandler` | the same with identifiers | the same | the router | the same | the same |
| `ArpHandler` | `arp_table`, `waiting_queue` | learn (after a reap), look up, enqueue, dequeue | the router | packets resumed later, stale entries | a packet waits only for an unknown address; order is kept |
| `ProtoRouter` | the handlers; the flows of the switch | ARP, outgoing, incoming, private to private | switch, hosts | controller and switch age their entries apart; packets are handled a second time when an address becomes known | packets for one address keep their order, none is forgotten, a flow says what the table says when it is installed |
| CLI, logging, dissector, topologies, report | | | | | not modelled (loss of tp1's links is) |

## 2. Modules

| Module | What it is |
|---|---|
| `FileTransfer` | What a transfer promises: the copy grows by the next chunks of the source; a client that ends normally leaves it complete and final. |
| `Session` | The packets, the network, the client process, the worker thread of its address, the files: what both protocols share. |
| `SelectiveRepeat` | `selective_repeat.py` in both roles, with the handlers of `Client.py` and `Server.py` that drive it. Implements `FileTransfer`. |
| `StopAndWait` | `stop_and_wait.py` likewise. Implements `SelectiveRepeat` with `W = 1`. |
| `MCSelectiveRepeat`, `MCStopAndWait` | State constraints for the runs with repeated handshake packets. |
| `NatHandler` | `nat_handler.py`. |
| `Server` | The main thread and the worker threads of `Server.py`, for several addresses: the queues, the lock, the file they share. |
| `ArpHandler` | `arp_handler.py`. |
| `IcmpHandler` | `icmp_handler.py`, as an instance of `NatHandler`. |
| `ProtoRouter` | `protorouter.py`: composes `ArpHandler` (extended), `NatHandler` and `IcmpHandler` (instances) with the switch's flows and the hosts. |
| `AddressSession` | What the server promises an address: one session at a time, packets taken in order, an end that frees the address or blocks it. Implemented by `Server`. |
| `SelectiveRepeatProofs`, `SelectiveRepeatFaults`, `StopAndWaitProofs`, `ServerProofs`, `NatHandlerProofs`, `RouterProofs` | The theorems. |

tp1 is modelled from two sides. `Session` and the protocol modules say what one
worker and its client say to each other, with the dispatcher reduced to "the
first packet starts the worker". `Server` says what the threads do to each
other, with the protocol reduced to what they share: the kind of a packet that
matters (SYN, CLOSE_ACK, any other) and what a worker does to the file.

### How the transfer model corresponds to the code

*One action is one iteration of a receive loop*: a packet is taken from the
network, the protocol object handles it, the event handler runs to its end with
every packet it sends and every write it makes. Inside a thread nothing else can
touch the protocol object or the file, so nothing is lost by that atomicity; what
the threads share, the network, is interleaved at will. Where an exception cuts
a handler short, a separate action does what had been done until then
(`WorkerAckFails`: the window has slid, nothing was sent; `WorkerDataFails`: the
chunk was acknowledged, not written).

* `op` is chosen at the start, so that every run covers upload and download.
  Each end uses the fields of its role only: `seq_num`, `base` and `window` are
  the sender's object (`base` is its `next_expected`), `next_expected` and
  `buffer` the receiver's. A chunk is the number of its place in the source.
* The network is a set of packets in flight. Any of them may be the next to
  arrive. A packet the program may send several times (`MayRepeat`: DATA, CLOSE,
  their answers) may stay in flight when a copy is delivered, which is how any
  number of copies is represented; SYN, SYN_ACK, ACK 0 and the CLOSE_ACK of
  a client, which exits after it, are sent once and are delivered at most once, unless `Faults`
  contains "duplicate".
* Time: an entry of the window is late (`get_timedouts`) when it is older than
  0.5 s. At a receive timeout, which takes 0.5 s, all of them are (`Resend`);
  when a packet arrives any subset may be (`late`). `WorkerInactive` is the end
  of a thread after 120 timeouts in a row, 60 s without a packet. Packets can be
  lost or late that long whatever the client does, so it may happen at any time;
  it must happen only when nothing can reach the worker any more (`Silent`).
* `client` is "aborted" after an uncaught exception; `worker` tells how the
  thread ended: "finished" (queue deleted), or "refused", "crashed", "inactive"
  (queue left behind, so that packets of the address are swallowed).
* `Start`, like the code, makes a new protocol object for every new thread; a
  second SYN to a running thread resets nothing.

`StopAndWait` follows the same plan. `_waiting_ack` is True exactly when
`_pending` holds a packet, so one variable stands for both.

### How the dispatcher model corresponds to the code

* The main thread takes three steps per packet, because a worker may run
  between them: `Receive` (`recvfrom`, and `_raise_thread` under the lock),
  `Lookup` (`clientDataQueues[addr]` without the lock; a `KeyError` is caught,
  and the packet lost) and `Put` (into the queue found, which may be nobody's
  by then). `main` is where it is and what it holds.
* A worker is the number of its thread, in the order they were started.
  `Handshake` and `Refuse` are the first packet, `HandlePacket` any other,
  `Finish` the CLOSE_ACK after which it waits for the lock, `CloseFin` what
  `handle_close_fin` does under it. `Fail` is an exception, `Inactive` the end
  after 120 timeouts: both leave the entry behind, as the code does. How long
  60 s are is left open: a thread whose queue is empty may end at any time.
* Clients are not modelled: any packet may come from any address at any time.
  Which of them are legal answers is the subject of `Session`.
* Every upload has one file name. `CreateFile`, `WriteFile` and `CloseFile` say
  what is in the file, with Python's buffers: a chunk is in the file at once
  or when it is closed, and what a buffer still held when the file was created
  again is written afterwards. `writers` are the workers whose chunks the file holds.
* History variables: `handled` (the last packet of each address that a worker
  took), `creator`, `writers` and `shared` (an upload of the name began while
  another had the file open; then the code promises nothing).
* Seen as `AddressSession`, an address has no session when it has no entry in
  `clientDataQueues`, a dead one when the worker the entry belongs to has died,
  and an open one otherwise, also between the creation of the entry and the put
  of the first packet, and while a worker waits for the lock to delete it.

### How the router model corresponds to the code

* POX handles one event at a time, so an action is an event: a packet that
  reaches the controller (`PacketIn`), an ARP packet (`HandleArp`), one second.
  `handle_arp` handles the packets that waited one after the other before it
  returns: `todo` holds them, `Resume` is one turn of that loop, and nothing
  else happens while it is not empty.
* `HandleOutgoing`, `HandleLocal`, `HandleIncoming` and `HandleIncomingIcmp`
  are the four paths of `handle_ip`, written as functions of the packet because
  a resumed packet takes them again.
* A host has one port per protocol and one ICMP identifier, so that a key of the
  tables is a protocol and a host. MAC addresses and switch ports never change,
  so an ARP entry is its age. `Nobody` are private addresses no host has,
  `PRIVATE_IP` among them: packets for them wait for ever.
* A flow is its match and what it rewrites to. Its idle timeout depends on
  packets the controller never sees: `Second` keeps any subset of the flows.
  Packets that were on their way when a flow was installed reach the controller all the same.
* `asked` holds the addresses that have a request of the router to answer,
  `sent` the packet sent by the last step and the address it went to; packets are
  numbered as they arrive. `requeued` is a history variable, read by no action: the
  packets that had to wait again when they were resumed.

### How the NAT model corresponds to the code

Every operation begins with the reap, so `Live`, `LiveReverse` and `Released`
say what the reap leaves and the actions are written with them. Timestamps are
ages, and ages past the timeout are all the same. The timestamp in
`reverse_nat` is never read and is left out, as is `PUBLIC_IP`, the only public
address.

Some definitions are called faulty variants (`ReadPastEnd`, `FinishesEarly`,
...): each is a plausible bug of the definition that follows it, and is used to
see that the properties notice it. No specification uses them.

## 3. Runs

| Run | Instance | Shows |
|---|---|---|
| `sr_safety` | N = 5, W = 3; loss, damage, oversized, missing file | the invariants of Selective Repeat, and that it implements `FileTransfer` |
| `sr_live` | N = 3, W = 2; loss; fair | transfers end once the handshake is over, unless the worker hears nothing for 60 s; no worker outlives its client |
| `sr_repeats` | N = 2, W = 2, at most 5 packets sent; loss, repeated handshake packets | what survives when SYN, SYN_ACK or ACK 0 come twice: a freed slot is at the receiver, CLOSE means that everything was received, a sender always has a packet to send again, nothing received is asked for again |
| `saw` | N = 3; loss; fair | Stop and Wait implements Selective Repeat with W = 1; transfers end, unless the worker hears nothing for 60 s |
| `saw_repeats` | N = 2, at most 4 packets sent; every fault | one packet at most is pending, CLOSE still means that everything sent was taken, a sender always has a packet to send again |
| `nat` | 2 protocols, 3 endpoints, 3 ports, timeout 2 | the NAT table stays consistent, ports are exclusive, none is lost, a live flow keeps its port |
| `server` | 2 addresses, 5 packets; fair | one worker per address, packets in order across sessions, no first packet lost, files of uploads apart; the server implements `AddressSession`; every packet is dealt with and an address closed by CLOSE_ACK is freed |
| `router` | 2 hosts, 1 unassigned address, 1 remote, 1 port, timeout 1, 3 packets; fair | queues and ARP table are disjoint, what waits was asked for, packets keep their order (but for incoming ones whose port changed hands), none is forgotten, flows agree with the NAT table, waiting packets go on |
| `download_late` | N = 3, W = 2; no fault | **violated**: a slow packet ends the thread of a download |
| `upload_lost_ack0` | N = 1, W = 1; loss; fair | **violated**: an upload whose ACK 0 is lost or overtaken never ends |
| `upload_empty` | N = 0; loss | **violated**: an empty file is uploaded "successfully" and does not exist |
| `router_ports` | 2 hosts, 2 ports, timeout 1, 2 packets | **violated**: two hosts have flows to the same public port |

**Bounds.** With N = 5 and W = 3 the window is filled, slides by one and by
several, and drains at the end; the buffer holds every combination of early
chunks; packets of a full window ago are still in flight when the present one
is sent. The liveness runs need every packet kind and a window that slides at
least once (N = 3, W = 2). Repeated handshake packets push windows without end,
so those runs stop extending a behaviour at `MaxSeq` packets, enough for the
whole file to be pushed twice. In `nat` six flows want three ports, so requests
are refused, ports change hands and one protocol takes the port of the other;
a timeout of 2 lets entries of different ages coexist.

Five packets make two sessions of one address (SYN, CLOSE_ACK, SYN ...) with a
late packet between them, or two uploads of one name of which one was left
unfinished; the two addresses interleave at every step of the main thread. In
`router` two hosts want the only port and the only ICMP identifier: an incoming
packet waits while its port passes to the other host, is then queued for that one,
and an outgoing one is refused when it is resumed. Three packets can wait in one
queue or in three. The port passes on after a timeout of 1 as it does after 30.
It takes a fourth packet to overtake one that is queued again, the exception of
`InOrder`. With `MaxPackets = 4` and without `WaitersResumed` TLC finds no error in
3.5 million states, and a violation when the exception is left out; that takes
too long with the liveness property, and `InOrder` is proved for any number.

`CHECK_DEADLOCK FALSE` in the runs of tp1: a transfer ends, and so do the
processes; the server of `Server` may receive nothing more. The NAT table and
the router never stop, since time passes.

**Fairness.** Both receive timeouts fire as long as there is something to send
again (`settimeout`, `que.get(timeout=...)`); a thread that will never receive anything
again notices the silence. Nothing forces a worker to give up while a packet may
still reach it, and nothing keeps it from doing so: a behaviour in which it
does is one in which 60 s of packets were lost or late. The links are fair-lossy: strong fairness of the delivery
of the last copy of each packet. A packet sent once may be lost, one that is sent
for ever is delivered; a delivery that leaves a copy in flight would never
count otherwise. No fairness is assumed of the handshake beyond that,
since nothing sends its packets again: the liveness properties begin
after it.

`TransferCompletes` has two excuses, both behaviours of the code. A worker that
hears nothing for 60 s ends (`Server.py:81-85`), and its client, which has no limit of
attempts, then resends or waits for ever: nothing is promised to it. And in a
download of Selective Repeat the worker may die when it sends a late packet again
(`download_late`); Stop and Wait needs no such excuse, because nothing is
pending when it looks for late packets. What the property says is that nothing
else keeps a transfer from ending: no loss that lasts less than that, no repetition and
no order of packets. `UploadRecovers`, which asks the same of an upload from
SYN_ACK on, is refuted by a run in which the worker dies of a DATA packet (finding 2).

In `server` threads are scheduled (weak fairness of the main thread's lookup
and put, and of each worker while it has something to do); nothing makes a packet
come, a thread fail or fall silent. In `router` a host answers an ARP request, since
the links of tp2 lose nothing, and the controller goes on with the packets it
took from a queue; no other ARP traffic, no packet and not even time is assumed.

**With repeated handshake packets** most promises fail, and are not claimed: a
repeated ACK 0 truncates an upload or reads a download's file again from its
beginning, a repeated SYN_ACK makes Stop and Wait drop a chunk. What the two
`_repeats` runs show is what survives; all of it is proved as well, for every
file, window and number of repetitions.

## 4. Findings

1. `Server.py:142` resends late packets with `socket.send` on a socket that is
   never connected. The exception ends the thread: in a download with Selective
   Repeat one slow packet is enough (`download_late`).
2. ACK 0 is never sent again. When it is lost, or overtaken by DATA, the worker
   acknowledges a chunk, fails to write it and dies; the client resends for
   ever (`upload_lost_ack0`).
3. CLOSE is answered by a worker that never created its file: when ACK 0 is lost
   or overtaken by CLOSE, the upload of an empty file "ends normally" without a
   copy (`upload_empty`).
4. The timestamp of a NAT entry is never refreshed, and packets the switch
   translates by itself never reach the table: the entry of a connection in use
   expires, its port goes to the next connection, and its flow stays. `main.tex:137` says
   that connections of different hosts never collide (`router_ports`).

What the models confirmed rather than refuted: although the main thread puts packets
outside the lock, a worker never loses the packet it was started for, and
never deletes the queue of its successor, because one thread does all the
receiving. The packets lost to the `KeyError` are those that arrive while a
session of their address is being closed.

## 5. Proofs

`SelectiveRepeatProofs` proves, for every N, every window W and every set of
faults without "duplicate" (`OnceOnly`; assumptions of the constants:
`SessionAssumption`, `WindowAssumption`), that `Spec` implies `FileIsPrefix`,
`NoDataRefused`, `BuffersBounded`, and for N > 0 (the empty file is finding 3)
`DoneMeansComplete` and the refinement `ImplementsFileTransfer`. Without
`OnceOnly` all of them are false.

None of them is inductive. `IInv` adds what they rest on, in named parts:

* `SessionInv`: before a worker exists, and while the client is connecting,
  every object is as it was made (`Fresh`); a closed file and a client that is
  done mean that CLOSE was sent (`seq_num = N + 2`).
* `SenderInv`: the window holds packets numbered base..seq_num - 1, at most W
  apart, base among them; either everything read was pushed
  (`seq_num = cursor + 1`), or CLOSE is the whole window and the receiver has
  all N chunks.
* `ReceiverInv`: what is buffered under s is chunk s, ahead of `next_expected`
  and within the window; the file is the first `next_expected - 1` chunks.
* `AckInv`: every number below `seq_num` is in the window or at the receiver.
* `NetInv`: every packet in flight is one the program makes; SYN, SYN_ACK and
  ACK 0 are in flight in their own phase of the handshake only, which is what
  makes a late one harmless; an ACK names a number the receiver has; CLOSE and
  CLOSE_ACK mean that the sender is through.

`Exchanged` says what a delivery can leave in the network, and is cited by one
lemma per action that it preserves `IInv`; `DeliverStep` and `NextInv` put
them together. `BaseReceived` (base never passes `next_expected`) gives
`NeverTooFar`; `Bounded` maps the window injectively into base..base + W - 1;
and with `Accepted` (what a new chunk completes is a run of consecutive chunks)
every step maps to a step of `FileTransfer` or to none (`StepRefines`). That a
copy is never touched again once its client has ended normally (`FinalCorrect`)
is read off the refinement, since `FileTransfer` has no such step.

`SelectiveRepeatFaults` proves what holds under every fault, repeated handshake
packets included and as many of them as there may be: `TypeOK`,
`AckedIsReceived`, `CloseMeansReceived`, `NeverIdle`, `KeepsReceived`, and that
the receiver's buffer stays below W. `IInv` is of no use there: numbers and
chunks fall apart, the sender's window outgrows W, a new thread numbers from 1
while acknowledgements of the old one are in flight. `FaultInv` keeps what does
not depend on that. The receiver gives no number back (`Kept`, the step form of
`KeepsReceived`): a thread that would start it again exists only before the
first packet of an upload (`ThreadInv`). So what a packet says stays true however late it
arrives (`Sound`: an ACK names a number the receiver has, CLOSE one up to which
it has all), an acknowledgement taken for one of another window frees nothing
that was not received (`AckInv`), and base is in the window whenever something is
unacknowledged (`WindowInv`), so that the acknowledgement which empties the
window slides it, and chunks or CLOSE follow (`NeverIdle`).

`StopAndWaitProofs` proves that Stop and Wait implements Selective Repeat with
`W = 1` for every N and every set of faults without "duplicate"
(`ImplementsCorrect`), and so `FileTransfer` when the file is not empty
(`TransferCorrect`); what is proved of Selective Repeat then holds of it too
(`PrefixCorrect`, `CompleteCorrect`, `FinalCorrect`). It instantiates `SelectiveRepeatProofs` under the
refinement mapping, so that the invariant is `IInv` of the mapped state and
`NextInv` need not be proved again: each step is shown to be one of Selective
Repeat (`ClientMaps`, `SourceMaps`, `DestinationMaps`, ...), with what `IInv`
says for a window of one (`OnePending`, `Found`, `OpenWhileSending`). The
lemmas `Same...` identify the definitions of the two instances, which are
distinct names to the prover. With "duplicate" that invariant fails, and what is
left has invariants of its own. `CloseMeansReceived` follows from `CloseInv`:
when nothing is pending the receiver has every number that was given out, and a
number is acknowledged only after it was received, even if others were dropped.
`TypeOK`, with one packet at most pending, and `NeverIdle` follow from
`PendingInv`; `HandleAckPends` is its heart: whatever an acknowledgement, or the
end of a handshake that comes again, finds read and pending, it leaves exactly
one packet pending.

`NatHandlerProofs` proves that the four invariants of the `nat` run are
inductive together, for any ports, endpoints, protocols and timeout
(`NatInvariance`; `NatTypeCorrect`, `PortsAreExclusive`, `NoPortIsLost` state
them one by one), and that a flow keeps its port until its entry expires
(`NatStable`). `LiveTables` is the heart: because ports are exclusive, the reap
removes reverse entries of expired flows only.

`ServerProofs` proves `ServerTypeOK`, `Registered`, `ArrivalOrder`,
`FirstPacketPut` and `UploadsApart` for any addresses and any number of packets
(`ServerAssumption`). `ServerInv` adds `MainOK` (what the main thread holds),
`Numbers` (queues are increasing; what the main thread holds is newer than
everything queued or handled) and, for the file, that who has it open created it
last unless it is shared. `Registered` is what the rest leans on: as long as a worker has not given up
its entry no other worker of the address exists, so the order of one queue is
the order of the address. `TakesStep` serves every action in which a worker
takes a packet. `SessionCorrect` is the refinement of `AddressSession`:
`SessionFollows` says how a step that changes the entry or the worker of one
address changes its session and no other's, and each action is mapped to
`Arrive`, `Take`, `End` or to no step (`ReceiveMaps`, `TakeMaps`, `WorkerMaps`).

`RouterProofs` proves `RouterTypeOK`, `QueuedUnknown`, `InOrder`,
`WaitingAsked` and the action properties `FlowsAgree` and `NoneForgotten` for any hosts, ports,
timeout and number of packets (`ArpAssumption`, `RouterAssumption`), and that
the router uses both tables as their modules allow (`RouterUsesTables`). It
instantiates `NatHandlerProofs` for both, so that what is proved there holds
inside the router: ports and identifiers are exclusive, none is lost, the two
directions agree (`RouterTablesCorrect`), and a host keeps them until its entry
expires (`RouterStable`). `RouterInv` adds `WaitingOK` (a queue holds
packets for its address, in the order of their arrival but for those in
`requeued`) and `TodoOK` (the same of what is being resumed; its outgoing and local
packets find their destination known, so that they do not wait behind later ones). One lemma per handler says what it does in terms of
the queues (`OutgoingEffect`, ... : a packet `Waits` or `Goes`), and the steps
are proved from these effects alone. `InOrder` covers every packet: an
incoming one too leaves before any that came after it, unless its public port or ICMP
identifier went to another host while it waited. It is then queued again
(`protorouter.py:346`, `requeued`) and the packets of that host overtake it.

**Model-checked only:** the liveness properties, `TransferCompletes` (of both
protocols), `WorkerEnds`, `Drained`, `AddressFreed` and `WaitersResumed`, since
fairness and ENABLED are beyond tlapm 1.4.5. `NeverIdle` and `WaitingAsked` are
safety properties that `TransferCompletes` and `WaitersResumed` rest on, and are
proved. Every other property of a passing run has its theorem.

## 6. Not modelled

* In the transfer model, several clients and the reuse of an address (both in
  `Server`), and Python's buffers: a write is in the file at once.
* In `Server`, the contents of packets beyond their kind, and thread
  exhaustion: every thread that is started runs.
* The bits of the header and the CRC: a damaged packet is always noticed.
  Lines 77-97 of `stop_and_wait.py` are never called.
* In the router, ARP replies and flooded ARP, which change nothing; frames and
  IP packets dropped before any handler; several ports or identifiers of one
  host (the NAT table itself is checked and proved for any set of endpoints);
  a restart of the controller, which loses its tables while the switch keeps its
  flows; the delay between installing a flow and the switch using it, except
  that late packets reach the controller.
* Argument parsing, logging, the Wireshark dissector, what the Mininet
  topologies do besides losing packets, the report: no state of either program.

## 7. Plan

1. `FileTransfer`, `Session`, `SelectiveRepeat`, `StopAndWait` and their runs; `SelectiveRepeatProofs`. Done.
2. `NatHandler` and its proofs. Done.
3. `Server` and its proofs. Done.
4. `ArpHandler`, `IcmpHandler`, `ProtoRouter` and the proofs about the router. Done.
5. `StopAndWaitProofs`. Done.
6. `SelectiveRepeatFaults`, the second half of `StopAndWaitProofs` (repeated
   handshake packets) and `AddressSession`. Done.
7. Left: the buffers of Python's files in the transfer model.

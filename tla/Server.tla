-------------------------------- MODULE Server --------------------------------
(***************************************************************************)
(* The threads of tp1's server (Server.py): the main thread receives       *)
(* packets and puts each into the queue of its address, starting a worker  *)
(* for an address that has no queue; the workers take packets from their   *)
(* queues.  They share clientDataQueues, under a lock that the main thread *)
(* releases before it puts, and the files of the storage.                  *)
(*                                                                         *)
(* What a worker and its client say to each other is in Session and the    *)
(* protocol modules.  Here a packet is a SYN, a CLOSE_ACK or another, and  *)
(* any may come from any address at any time: late ones and those of other *)
(* programs too.  Every upload has the same file name.                     *)
(***************************************************************************)
EXTENDS Integers, Sequences, Functions

CONSTANTS
  Addresses,  \* client addresses
  MaxPackets  \* bound on the packets the server receives

ASSUME ServerAssumption == MaxPackets \in Nat

VARIABLES
  clientDataQueues,  \* by address: the worker that was given its queue
  owner,     \* by worker, in the order they were started: its address
  state,     \* by worker: started, running, closing (about to take the lock),
             \* finished (queue deleted) or dead (queue left behind)
  que,       \* by worker: the packets in its queue
  main,      \* the main thread: where it is, and the packet it holds
  received,  \* number of packets received
  handled,   \* by address: the number of the last packet a worker took
  opened,    \* workers that have the file open for writing
  creator,   \* the worker that created the file last, if any
  writers,   \* workers whose chunks are in the file
  shared     \* the file was created while another worker had it open

vars == <<clientDataQueues, owner, state, que, main, received, handled, opened,
          creator, writers, shared>>

Workers == DOMAIN owner
Kinds == {"SYN", "OTHER", "CLOSE_ACK"}
Packets == [n : 1..MaxPackets, kind : Kinds]
Receiving == [pc |-> "recvfrom"]

Init ==
  /\ clientDataQueues = [a \in {} |-> 0]
  /\ owner = <<>> /\ state = <<>> /\ que = <<>>
  /\ main = Receiving
  /\ received = 0
  /\ handled = [a \in Addresses |-> 0]
  /\ opened = {} /\ creator = {} /\ writers = {} /\ shared = FALSE

fileVars == <<opened, creator, writers, shared>>
-----------------------------------------------------------------------------
(* The main thread.                                                         *)

\* Faulty: an address that already has a queue gets another one.
RegisterAlways(a) ==
  /\ clientDataQueues' = [x \in DOMAIN clientDataQueues \union {a} |->
       IF x = a THEN Len(owner) + 1 ELSE clientDataQueues[x]]
  /\ owner' = Append(owner, a)
  /\ state' = Append(state, "started")
  /\ que' = Append(que, <<>>)

\* Faulty: the worker is given the queue of the worker before it.
RegisterPrevious(a) ==
  \/ a \in DOMAIN clientDataQueues /\ UNCHANGED <<clientDataQueues, owner, state, que>>
  \/ /\ a \notin DOMAIN clientDataQueues
     /\ clientDataQueues' = [x \in DOMAIN clientDataQueues \union {a} |->
          IF x = a THEN Len(owner) ELSE clientDataQueues[x]]
     /\ owner' = Append(owner, a)
     /\ state' = Append(state, "started")
     /\ que' = Append(que, <<>>)

\* _raise_thread, all under the lock: a queue and a worker are made if the
\* address has none.
Register(a) ==
  \/ a \in DOMAIN clientDataQueues /\ UNCHANGED <<clientDataQueues, owner, state, que>>
  \/ /\ a \notin DOMAIN clientDataQueues
     /\ clientDataQueues' = [x \in DOMAIN clientDataQueues \union {a} |->
          IF x = a THEN Len(owner) + 1 ELSE clientDataQueues[x]]
     /\ owner' = Append(owner, a)
     /\ state' = Append(state, "started")
     /\ que' = Append(que, <<>>)

Receive(a, kind) ==
  /\ main.pc = "recvfrom" /\ received < MaxPackets
  /\ received' = received + 1
  /\ Register(a)
  /\ main' = [pc |-> "lookup", addr |-> a, packet |-> [n |-> received + 1, kind |-> kind]]
  /\ UNCHANGED <<handled, fileVars>>

\* clientDataQueues[addr], without the lock.  If the worker has deleted it in
\* the meantime, the KeyError is printed and the packet is lost.
Lookup ==
  /\ main.pc = "lookup"
  /\ \/ /\ main.addr \in DOMAIN clientDataQueues
        /\ main' = [pc |-> "put", worker |-> clientDataQueues[main.addr],
                    packet |-> main.packet]
     \/ main.addr \notin DOMAIN clientDataQueues /\ main' = Receiving
  /\ UNCHANGED <<clientDataQueues, owner, state, que, received, handled, fileVars>>

\* put(data): into a queue that nobody may be reading any more.
Put ==
  /\ main.pc = "put"
  /\ que' = [que EXCEPT ![main.worker] = Append(@, main.packet)]
  /\ main' = Receiving
  /\ UNCHANGED <<clientDataQueues, owner, state, received, handled, fileVars>>
-----------------------------------------------------------------------------
(* Worker i.                                                                *)

Live(i) == state[i] \in {"started", "running"}
Becomes(i, s) == state' = [state EXCEPT ![i] = s]

\* que.get returns a packet of the given kind.
Takes(i, kind) ==
  /\ Live(i) /\ que[i] # <<>> /\ Head(que[i]).kind = kind
  /\ que' = [que EXCEPT ![i] = Tail(@)]
  /\ handled' = [handled EXCEPT ![owner[i]] = Head(que[i]).n]
  /\ UNCHANGED <<clientDataQueues, owner, main, received>>

\* The first packet makes the protocol object, if it is a SYN.
Handshake(i) ==
  /\ state[i] = "started" /\ Takes(i, "SYN")
  /\ Becomes(i, "running")
  /\ UNCHANGED fileVars
Refuse(i) ==
  /\ state[i] = "started" /\ \E kind \in Kinds \ {"SYN"} : Takes(i, kind)
  /\ Becomes(i, "dead")
  /\ UNCHANGED fileVars

\* Faulty: the file is not truncated.
CreateFileKeep(i) ==
  /\ opened' = opened \union {i} /\ creator' = {i}
  /\ shared' = (opened \ {i} # {})
  /\ UNCHANGED writers

\* create_file: what the file held is gone, also for others that have it open.
\* What i wrote before may still be in a buffer, and is written then.
CreateFile(i) ==
  /\ opened' = opened \union {i} /\ creator' = {i}
  /\ shared' = (opened \ {i} # {})
  /\ writers' \in {{}, opened \intersect {i}}

\* write: to the file or to its buffer, which close writes, as does the end of
\* the thread.
WriteFile(i) ==
  /\ i \in opened /\ writers' \in {writers, writers \union {i}}
  /\ UNCHANGED <<opened, creator, shared>>
CloseFile(i) ==
  /\ opened' = opened \ {i}
  /\ writers' \in {writers, writers \union (opened \intersect {i})}
  /\ UNCHANGED <<creator, shared>>

\* Faulty: there is no case for a repeated SYN.
HandlePacketNoSyn(i) ==
  /\ state[i] = "running" /\ UNCHANGED state
  /\ Takes(i, "OTHER")
  /\ UNCHANGED fileVars \/ CreateFile(i) \/ WriteFile(i) \/ CloseFile(i)

\* A packet of a running session: the file is created (ACK 0), written to (DATA),
\* closed (CLOSE) or left alone.
HandlePacket(i) ==
  /\ state[i] = "running" /\ UNCHANGED state
  /\ \/ \E kind \in {"SYN", "OTHER"} : Takes(i, kind) /\ UNCHANGED fileVars
     \/ Takes(i, "OTHER") /\ (CreateFile(i) \/ WriteFile(i) \/ CloseFile(i))

\* Faulty: the entry is deleted here too, without the lock.
FinishDeletes(i) ==
  /\ state[i] = "running" /\ que[i] # <<>> /\ Head(que[i]).kind = "CLOSE_ACK"
  /\ que' = [que EXCEPT ![i] = Tail(@)]
  /\ handled' = [handled EXCEPT ![owner[i]] = Head(que[i]).n]
  /\ clientDataQueues' = Restrict(clientDataQueues, DOMAIN clientDataQueues \ {owner[i]})
  /\ Becomes(i, "closing")
  /\ UNCHANGED <<owner, main, received, fileVars>>

\* CLOSE_ACK: the worker is about to call handle_close_fin.
Finish(i) ==
  /\ state[i] = "running" /\ Takes(i, "CLOSE_ACK")
  /\ Becomes(i, "closing")
  /\ UNCHANGED fileVars

\* Faulty: an entry with packets in its queue is kept.
DeleteIfEmpty(a) ==
  clientDataQueues' = IF que[clientDataQueues[a]] # <<>> THEN clientDataQueues
                      ELSE Restrict(clientDataQueues, DOMAIN clientDataQueues \ {a})

\* del clientDataQueues[addr], if it is there.
Delete(a) ==
  clientDataQueues' = Restrict(clientDataQueues, DOMAIN clientDataQueues \ {a})

\* handle_close_fin, under the lock; the thread ends.
CloseFin(i) ==
  /\ state[i] = "closing" /\ Becomes(i, "finished")
  /\ Delete(owner[i])
  /\ IF owner[i] \in DOMAIN clientDataQueues THEN CloseFile(i) ELSE UNCHANGED fileVars
  /\ UNCHANGED <<owner, que, main, received, handled>>

\* An exception, or 60 s without a packet, ends the thread.
Fail(i) ==
  /\ \E kind \in Kinds : Takes(i, kind)
  /\ Becomes(i, "dead") /\ CloseFile(i)
Inactive(i) ==
  /\ Live(i) /\ que[i] = <<>>
  /\ Becomes(i, "dead") /\ CloseFile(i)
  /\ UNCHANGED <<clientDataQueues, owner, que, main, received, handled>>

Work(i) == Handshake(i) \/ Refuse(i) \/ HandlePacket(i) \/ Finish(i) \/ CloseFin(i)

MainStep == (\E a \in Addresses, kind \in Kinds : Receive(a, kind)) \/ Lookup \/ Put

Next == MainStep \/ \E i \in Workers : Work(i) \/ Fail(i) \/ Inactive(i)

Spec == Init /\ [][Next]_vars

\* Threads are scheduled: the main thread puts what it received, every worker
\* goes on with what is in its queue.
Fairness ==
  /\ WF_vars(Lookup \/ Put)
  /\ \A i \in 1..MaxPackets : WF_vars(i \in Workers /\ Work(i))

FairSpec == Spec /\ Fairness
-----------------------------------------------------------------------------
\* Every variable has its type.
ServerTypeOK ==
  /\ owner \in Seq(Addresses)
  /\ state \in Seq({"started", "running", "closing", "finished", "dead"})
  /\ que \in Seq(Seq(Packets))
  /\ Len(state) = Len(owner) /\ Len(que) = Len(owner)
  /\ DOMAIN clientDataQueues \subseteq Addresses
  /\ \A a \in DOMAIN clientDataQueues : clientDataQueues[a] \in Workers
  /\ received \in 0..MaxPackets
  /\ handled \in [Addresses -> 0..MaxPackets]
  /\ opened \subseteq Workers /\ creator \subseteq Workers /\ writers \subseteq Workers
  /\ shared \in BOOLEAN

\* The queue under an address is the one its only live worker reads: a worker
\* deletes its own entry and never that of a successor, and a session that ends
\* by CLOSE_ACK leaves none (_raise_thread, handle_close_fin).
Registered ==
  /\ \A i \in Workers : state[i] \in {"started", "running", "closing"} =>
       owner[i] \in DOMAIN clientDataQueues /\ clientDataQueues[owner[i]] = i
  /\ \A a \in DOMAIN clientDataQueues :
       owner[clientDataQueues[a]] = a /\ state[clientDataQueues[a]] # "finished"

\* The packets of an address are handled in the order they were received, each
\* at most once, across the sessions of the address and although the main thread
\* puts them outside the lock.
ArrivalOrder ==
  \A i \in Workers : Live(i) =>
    /\ \A m, n \in DOMAIN que[i] : m < n => que[i][m].n < que[i][n].n
    /\ \A m \in DOMAIN que[i] : que[i][m].n > handled[owner[i]]

\* The packet a worker was started for reaches the worker: while its queue is
\* empty, the main thread is about to put the packet into that very queue, and no
\* worker of an earlier session deletes the entry before (start, handle_close_fin).
FirstPacketPut ==
  \A i \in Workers : state[i] = "started" /\ que[i] = <<>> =>
    \/ main.pc = "lookup" /\ main.addr = owner[i]
         /\ owner[i] \in DOMAIN clientDataQueues /\ clientDataQueues[owner[i]] = i
    \/ main.pc = "put" /\ main.worker = i

\* Unless an upload of the name begins while another has the file open, the file
\* holds the chunks of the last upload only, however the workers of earlier ones
\* ended and whatever was left in their buffers (create_file, CLOSE,
\* handle_close_fin).
UploadsApart == ~shared => writers \subseteq creator

\* Seen from outside, an address has one session at a time that takes its packets
\* in order, across workers, and ends by freeing the address or by blocking it for
\* ever (start, _raise_thread, handle_clientt, handle_close_fin).
SessionOf(a) ==
  IF a \notin DOMAIN clientDataQueues THEN "none"
  ELSE IF state[clientDataQueues[a]] = "dead" THEN "dead" ELSE "open"
AS == INSTANCE AddressSession WITH session <- [a \in Addresses |-> SessionOf(a)]
ImplementsSession == AS!ASSpec

\* Every packet received is handled, lost to the KeyError or left to a worker
\* that has ended: none stays before a worker that could take it.
Waits(a) ==
  \/ main.pc = "lookup" /\ main.addr = a
  \/ main.pc = "put" /\ owner[main.worker] = a
  \/ \E i \in Workers : owner[i] = a /\ Live(i) /\ que[i] # <<>>
Drained == \A a \in Addresses : Waits(a) ~> ~Waits(a)

\* A session that ends by CLOSE_ACK frees its address, even if packets came in
\* the meantime: the client may connect again (handle_close_fin).
Ended(a) ==
  a \in DOMAIN clientDataQueues /\ state[clientDataQueues[a]] \in {"closing", "finished"}
AddressFreed == \A a \in Addresses : Ended(a) ~> ~Ended(a)
=============================================================================

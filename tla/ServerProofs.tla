----------------------------- MODULE ServerProofs -----------------------------
(***************************************************************************)
(* Theorems about Server, for any set of addresses and any number of       *)
(* packets.  That an address has one worker at most before its entry is    *)
(* deleted (Registered) carries everything else: the packets of a queue    *)
(* are in the order of their arrival because the main thread holds the     *)
(* newest one and no other worker of the address is handling any, and the  *)
(* first packet of a worker cannot lose its queue on the way.  The file    *)
(* needs to know which workers could still write when it was created.      *)
(***************************************************************************)
EXTENDS Server, SequenceTheorems, TLAPS

States == {"started", "running", "closing", "finished", "dead"}

\* What the main thread holds.
MainOK ==
  main \in {Receiving} \union [pc : {"lookup"}, addr : Addresses, packet : Packets]
             \union [pc : {"put"}, worker : Workers, packet : Packets]

\* The packets of every queue are increasing, the one the main thread holds is
\* newer than all of them, and none that was handled is newer than received.
Increasing(s) == \A m, n \in DOMAIN s : m < n => s[m].n < s[n].n
Numbers ==
  /\ \A i \in Workers : Increasing(que[i])
  /\ \A i \in Workers : \A m \in DOMAIN que[i] : que[i][m].n <= received
  /\ \A a \in Addresses : handled[a] <= received
  /\ main # Receiving =>
       /\ main.packet.n = received
       /\ \A i \in Workers : \A m \in DOMAIN que[i] : que[i][m].n < received
       /\ \A a \in Addresses : handled[a] < received

FileTypes ==
  opened \subseteq Workers /\ creator \subseteq Workers /\ writers \subseteq Workers /\ shared \in BOOLEAN

\* Unless the file is shared, who has it open created it last.
FileInv == (~shared => opened \subseteq creator) /\ UploadsApart

QueueInv == ServerTypeOK /\ MainOK /\ Registered /\ FirstPacketPut /\ ArrivalOrder /\ Numbers

ServerInv == QueueInv /\ FileInv

\* The packets of the queues are packets, numbered.
LEMMA QueueTypes ==
  ASSUME ServerTypeOK
  PROVE  /\ \A i \in Workers : que[i] \in Seq(Packets)
         /\ \A i \in Workers : \A m \in DOMAIN que[i] : que[i][m].n \in Int
         /\ \A a \in Addresses : handled[a] \in Int
<1>1. \A i \in Workers : que[i] \in Seq(Packets)
  BY DEF ServerTypeOK, Workers
<1>2. ASSUME NEW s \in Seq(Packets), NEW m \in DOMAIN s PROVE s[m].n \in Int
  <2>1. s[m] \in Packets
    OBVIOUS
  <2> QED
    BY <2>1, ServerAssumption DEF Packets
<1>3. \A a \in Addresses : handled[a] \in Int
  BY ServerAssumption DEF ServerTypeOK
<1> QED
  BY <1>1, <1>2, <1>3

\* What a sequence is with an element more, and with its head less.
LEMMA AppendFacts ==
  ASSUME NEW S, NEW s \in Seq(S), NEW e \in S
  PROVE  /\ Append(s, e) \in Seq(S) /\ Append(s, e) # <<>>
         /\ DOMAIN Append(s, e) = DOMAIN s \union {Len(s) + 1}
         /\ Append(s, e)[Len(s) + 1] = e
         /\ \A m \in DOMAIN s : Append(s, e)[m] = s[m] /\ m < Len(s) + 1
  OBVIOUS

LEMMA TailFacts ==
  ASSUME NEW S, NEW s \in Seq(S), s # <<>>
  PROVE  /\ Head(s) \in S /\ Head(s) = s[1] /\ 1 \in DOMAIN s
         /\ Tail(s) \in Seq(S)
         /\ \A m \in DOMAIN Tail(s) :
              m \in Nat /\ m + 1 \in DOMAIN s /\ Tail(s)[m] = s[m + 1] /\ 1 < m + 1
  OBVIOUS

\* Nothing has been received.
LEMMA InitInv == Init => ServerInv
<1> SUFFICES ASSUME Init PROVE ServerInv
  OBVIOUS
<1>1. Workers = {} /\ DOMAIN clientDataQueues = {}
  BY DEF Init, Workers
<1>2. ServerTypeOK
  <2>1. owner = <<>> /\ state = <<>> /\ que = <<>> /\ clientDataQueues = [a \in {} |-> 0]
    BY DEF Init
  <2>2. owner \in Seq(Addresses) /\ state \in Seq(States) /\ que \in Seq(Seq(Packets))
    BY <2>1
  <2>3. handled \in [Addresses -> 0..MaxPackets] /\ received \in 0..MaxPackets
    BY ServerAssumption DEF Init
  <2> QED
    BY <1>1, <2>1, <2>2, <2>3 DEF Init, ServerTypeOK, States
<1>3. MainOK /\ Registered /\ FirstPacketPut /\ ArrivalOrder
  BY <1>1 DEF Init, MainOK, Registered, FirstPacketPut, ArrivalOrder
<1>4. Numbers /\ FileInv
  BY <1>1 DEF Init, Numbers, FileInv, UploadsApart
<1> QED
  BY <1>2, <1>3, <1>4 DEF ServerInv, QueueInv

\* A packet arrives, and with it perhaps a worker whose queue is empty.
LEMMA ReceiveStep ==
  ASSUME ServerInv, NEW a \in Addresses, NEW kind \in Kinds, Receive(a, kind)
  PROVE  ServerInv'
<1> USE DEF ServerInv, QueueInv, Workers, States
<1>0. received \in Nat /\ received + 1 \in 1..MaxPackets /\ main = Receiving /\ received' = received + 1
  BY ServerAssumption DEF Receive, ServerTypeOK, MainOK, Receiving
<1>1. main' = [pc |-> "lookup", addr |-> a, packet |-> [n |-> received + 1, kind |-> kind]]
  BY DEF Receive
<1>2. /\ MainOK'
      /\ main'.pc = "lookup" /\ main'.addr = a /\ main'.packet.n = received'
  BY <1>0, <1>1 DEF MainOK, Packets
<1>3. CASE a \in DOMAIN clientDataQueues
  <2>1. UNCHANGED <<clientDataQueues, owner, state, que, handled, fileVars>>
    BY <1>3 DEF Receive, Register
  <2>2. ServerTypeOK' /\ Registered' /\ ArrivalOrder' /\ FileInv'
    BY <1>0, <2>1 DEF ServerTypeOK, Registered, ArrivalOrder, FileInv, Live, UploadsApart, fileVars
  <2>3. FirstPacketPut'
    BY <1>0, <2>1 DEF FirstPacketPut, Receiving
  <2>4. Numbers'
    BY <1>0, <1>2, <2>1, QueueTypes DEF Numbers, Increasing
  <2> QED
    BY <1>2, <2>2, <2>3, <2>4
<1>4. CASE a \notin DOMAIN clientDataQueues
  <2> DEFINE w == Len(owner) + 1
  <2>1. /\ owner' = Append(owner, a) /\ state' = Append(state, "started")
        /\ que' = Append(que, <<>>)
        /\ DOMAIN clientDataQueues' = DOMAIN clientDataQueues \union {a}
        /\ clientDataQueues'[a] = w
        /\ \A b \in DOMAIN clientDataQueues : clientDataQueues'[b] = clientDataQueues[b]
        /\ UNCHANGED <<handled, fileVars>>
    BY <1>4 DEF Receive, Register
  <2>2. /\ owner \in Seq(Addresses) /\ Len(owner) \in Nat
        /\ Workers = 1..Len(owner) /\ w \notin Workers
        /\ state \in Seq(States) /\ que \in Seq(Seq(Packets))
        /\ Len(state) = Len(owner) /\ Len(que) = Len(owner)
    BY DEF ServerTypeOK
  <2>3. /\ Workers' = Workers \union {w}
        /\ \A i \in Workers : owner'[i] = owner[i] /\ state'[i] = state[i] /\ que'[i] = que[i]
        /\ owner'[w] = a /\ state'[w] = "started" /\ que'[w] = <<>>
    BY <2>1, <2>2
  <2>4. \A i \in Workers : Live(i)' = Live(i)
    BY <2>3 DEF Live
  <2>5. ServerTypeOK'
    <3>1. /\ owner' \in Seq(Addresses) /\ state' \in Seq(States) /\ que' \in Seq(Seq(Packets))
          /\ Len(owner') = w /\ Len(state') = w /\ Len(que') = w
      BY <2>1, <2>2
    <3> QED
      BY <1>0, <2>1, <2>3, <3>1 DEF ServerTypeOK, fileVars
  <2>6. Registered'
    BY <1>4, <2>1, <2>3 DEF Registered, ServerTypeOK
  <2>7. FirstPacketPut'
    <3>1. \A i \in Workers : ~(state[i] = "started" /\ que[i] = <<>>)
      BY <1>0 DEF FirstPacketPut, Receiving
    <3>2. \A i \in Workers' : state'[i] = "started" /\ que'[i] = <<>> => i = w
      BY <2>3, <3>1
    <3>3. a \in DOMAIN clientDataQueues'
      BY <2>1
    <3>4. /\ main'.pc = "lookup" /\ main'.addr = owner'[w]
          /\ owner'[w] \in DOMAIN clientDataQueues' /\ clientDataQueues'[owner'[w]] = w
      BY <1>2, <2>1, <2>3, <3>3
    <3> HIDE DEF w
    <3> QED
      BY <3>2, <3>4 DEF FirstPacketPut
  <2>8. ArrivalOrder'
    <3>1. ASSUME NEW i \in Workers, Live(i)'
          PROVE  /\ \A m, n \in DOMAIN que'[i] : m < n => que'[i][m].n < que'[i][n].n
                 /\ \A m \in DOMAIN que'[i] : que'[i][m].n > handled'[owner'[i]]
      BY <2>1, <2>3, <2>4, <3>1 DEF ArrivalOrder
    <3>2. DOMAIN que'[w] = {}
      BY <2>3
    <3> QED
      BY <2>3, <3>1, <3>2 DEF ArrivalOrder
  <2>9. Numbers'
    <3>0. DOMAIN que'[w] = {}
      BY <2>3
    <3>1. \A i \in Workers' : Increasing(que'[i])
      BY <2>3, <3>0 DEF Numbers, Increasing
    <3>2. \A i \in Workers' : \A m \in DOMAIN que'[i] : que'[i][m].n < received'
      BY <1>0, <2>3, QueueTypes DEF Numbers
    <3>3. \A b \in Addresses : handled'[b] < received'
      BY <1>0, <2>1, QueueTypes DEF Numbers
    <3>4. \A i \in Workers' : \A m \in DOMAIN que'[i] : que'[i][m].n <= received'
      BY <1>0, <2>3, QueueTypes DEF Numbers
    <3>5. \A b \in Addresses : handled'[b] <= received'
      BY <1>0, <2>1, QueueTypes DEF Numbers
    <3> QED
      BY <1>2, <3>1, <3>2, <3>3, <3>4, <3>5 DEF Numbers
  <2>10. FileInv'
    BY <2>1 DEF FileInv, UploadsApart, fileVars
  <2> QED
    BY <1>2, <2>5, <2>6, <2>7, <2>8, <2>9, <2>10
<1> QED
  BY <1>3, <1>4

\* The main thread finds the queue of its packet, or loses the packet.
LEMMA LookupStep == ASSUME ServerInv, Lookup PROVE ServerInv'
<1> USE DEF ServerInv, QueueInv, Workers
<1>1. /\ UNCHANGED <<clientDataQueues, owner, state, que, received, handled, fileVars>>
      /\ main.pc = "lookup"
  BY DEF Lookup
<1>2. main \in [pc : {"lookup"}, addr : Addresses, packet : Packets]
  BY <1>1 DEF MainOK, Receiving
<1>3. ServerTypeOK' /\ Registered' /\ ArrivalOrder' /\ FileInv'
  BY <1>1 DEF ServerTypeOK, Registered, ArrivalOrder, FileInv, Live, UploadsApart, fileVars
<1>4. CASE main.addr \in DOMAIN clientDataQueues
  <2>1. main' = [pc |-> "put", worker |-> clientDataQueues[main.addr], packet |-> main.packet]
    BY <1>4 DEF Lookup
  <2>2. MainOK'
    BY <1>1, <1>2, <1>4, <2>1 DEF MainOK, ServerTypeOK
  <2>3. FirstPacketPut'
    BY <1>1, <2>1 DEF FirstPacketPut
  <2>4. Numbers'
    BY <1>1, <1>2, <2>1 DEF Numbers, Receiving
  <2> QED
    BY <1>3, <2>2, <2>3, <2>4
<1>5. CASE main.addr \notin DOMAIN clientDataQueues
  <2>1. main' = Receiving
    BY <1>5 DEF Lookup
  <2>2. MainOK' /\ Numbers'
    BY <1>1, <2>1 DEF MainOK, Numbers
  <2>3. FirstPacketPut'
    BY <1>1, <1>5 DEF FirstPacketPut
  <2> QED
    BY <1>3, <2>2, <2>3
<1> QED
  BY <1>4, <1>5

\* The packet goes to the end of the queue: it is the newest.
LEMMA PutStep == ASSUME ServerInv, Put PROVE ServerInv'
<1> USE DEF ServerInv, QueueInv, Workers
<1> DEFINE w == main.worker
           p == main.packet
<1>1. /\ UNCHANGED <<clientDataQueues, owner, state, received, handled, fileVars>>
      /\ main.pc = "put" /\ main' = Receiving
      /\ que' = [que EXCEPT ![w] = Append(@, p)]
  BY DEF Put
<1>2. w \in Workers /\ p \in Packets /\ main # Receiving
  BY <1>1 DEF MainOK, Receiving
<1>3. /\ que \in Seq(Seq(Packets)) /\ w \in 1..Len(que) /\ que[w] \in Seq(Packets)
      /\ Append(que[w], p) \in Seq(Packets)
  BY <1>2 DEF ServerTypeOK
<1>4. /\ que' \in Seq(Seq(Packets)) /\ Len(que') = Len(que)
      /\ que'[w] = Append(que[w], p)
      /\ \A i \in Workers : i # w => que'[i] = que[i]
  BY <1>1, <1>3, ExceptSeq DEF ServerTypeOK
<1>5. /\ DOMAIN que'[w] = DOMAIN que[w] \union {Len(que[w]) + 1}
      /\ que'[w][Len(que[w]) + 1] = p
      /\ \A m \in DOMAIN que[w] : que'[w][m] = que[w][m] /\ m < Len(que[w]) + 1
      /\ que'[w] # <<>>
  <2>1. \A s \in Seq(Packets) :
          /\ Append(s, p) # <<>>
          /\ DOMAIN Append(s, p) = DOMAIN s \union {Len(s) + 1}
          /\ Append(s, p)[Len(s) + 1] = p
          /\ \A m \in DOMAIN s : Append(s, p)[m] = s[m] /\ m < Len(s) + 1
    BY <1>2, AppendFacts
  <2> HIDE DEF w, p
  <2> QED
    BY <1>3, <1>4, <2>1
<1>6. /\ p.n = received /\ received \in Int
      /\ \A i \in Workers : \A m \in DOMAIN que[i] : que[i][m].n < received
      /\ \A a \in Addresses : handled[a] < received
  BY <1>2, ServerAssumption DEF Numbers, ServerTypeOK
<1>7. ServerTypeOK' /\ MainOK' /\ Registered' /\ FileInv'
  <2>1. ServerTypeOK'
    BY <1>1, <1>4 DEF ServerTypeOK, fileVars
  <2>2. MainOK' /\ Registered' /\ FileInv'
    BY <1>1 DEF MainOK, Registered, FileInv, UploadsApart, fileVars
  <2> QED
    BY <2>1, <2>2
<1>8. FirstPacketPut'
  BY <1>1, <1>4, <1>5 DEF FirstPacketPut
<1>9. Increasing(que'[w])
  <2>1. \A m, n \in DOMAIN que[w] : m < n => que[w][m].n < que[w][n].n
    BY <1>2 DEF Numbers, Increasing
  <2>2. \A m \in DOMAIN que[w] : que[w][m].n < p.n
    BY <1>2, <1>6
  <2>3. DOMAIN que[w] = 1..Len(que[w]) /\ Len(que[w]) \in Nat
    BY <1>3
  <2> QED
    BY <1>5, <2>1, <2>2, <2>3 DEF Increasing
<1>10. Numbers'
  <2>1. \A i \in Workers : Increasing(que'[i])
    BY <1>4, <1>9 DEF Numbers
  <2>2. \A i \in Workers : \A m \in DOMAIN que'[i] : que'[i][m].n <= received
    <3>1. \A i \in Workers : i # w => \A m \in DOMAIN que'[i] : que'[i][m].n <= received
      BY <1>4, <1>6, QueueTypes DEF Numbers
    <3>2. \A m \in DOMAIN que'[w] : que'[w][m].n <= received
      BY <1>2, <1>5, <1>6, QueueTypes
    <3> QED
      BY <3>1, <3>2
  <2> QED
    BY <1>1, <2>1, <2>2 DEF Numbers
<1>11. ArrivalOrder'
  <2>1. \A i \in Workers : owner[i] \in Addresses
    BY DEF ServerTypeOK
  <2>2. \A i \in Workers : Live(i) =>
           \A m \in DOMAIN que'[i] : que'[i][m].n > handled[owner[i]]
    <3>1. \A i \in Workers : Live(i) /\ i # w =>
             \A m \in DOMAIN que'[i] : que'[i][m].n > handled[owner[i]]
      BY <1>4 DEF ArrivalOrder
    <3>2. Live(w) => \A m \in DOMAIN que'[w] : que'[w][m].n > handled[owner[w]]
      BY <1>2, <1>5, <1>6, <2>1, QueueTypes DEF ArrivalOrder
    <3> QED
      BY <3>1, <3>2
  <2>3. \A i \in Workers : Increasing(que'[i])
    BY <1>4, <1>9 DEF Numbers
  <2> QED
    BY <1>1, <2>2, <2>3 DEF ArrivalOrder, Increasing, Live
<1> QED
  BY <1>7, <1>8, <1>10, <1>11

\* A worker takes a packet and goes on, or ends without touching the entries.
LEMMA TakesStep ==
  ASSUME ServerInv, NEW i \in Workers, NEW kind \in Kinds, Takes(i, kind),
         NEW s \in {"running", "closing", "dead"}, Becomes(i, s),
         FileTypes'
  PROVE  QueueInv'
<1> USE DEF ServerInv, QueueInv, Workers
<1>1. /\ Live(i) /\ que[i] # <<>>
      /\ que' = [que EXCEPT ![i] = Tail(@)]
      /\ handled' = [handled EXCEPT ![owner[i]] = Head(que[i]).n]
      /\ UNCHANGED <<clientDataQueues, owner, main, received>>
      /\ state' = [state EXCEPT ![i] = s]
  BY DEF Takes, Becomes
<1>2. /\ que \in Seq(Seq(Packets)) /\ i \in 1..Len(que) /\ que[i] \in Seq(Packets)
      /\ owner[i] \in Addresses
      /\ state \in Seq(States) /\ i \in 1..Len(state)
  BY DEF ServerTypeOK, States
<1>3. /\ Head(que[i]) \in Packets /\ Head(que[i]) = que[i][1] /\ 1 \in DOMAIN que[i]
      /\ Tail(que[i]) \in Seq(Packets)
      /\ \A m \in DOMAIN Tail(que[i]) :
           m \in Nat /\ m + 1 \in DOMAIN que[i] /\ Tail(que[i])[m] = que[i][m + 1] /\ 1 < m + 1
  BY <1>1, <1>2, TailFacts
<1>4. /\ que' \in Seq(Seq(Packets)) /\ Len(que') = Len(que) /\ que'[i] = Tail(que[i])
      /\ \A j \in Workers : j # i => que'[j] = que[j]
  BY <1>1, <1>2, <1>3, ExceptSeq DEF ServerTypeOK
<1>5. /\ state' \in Seq(States) /\ Len(state') = Len(state) /\ state'[i] = s
      /\ \A j \in Workers : j # i => state'[j] = state[j]
  BY <1>1, <1>2, ExceptSeq DEF ServerTypeOK, States
<1>6. \A j \in Workers : Live(j) /\ j # i => owner[j] # owner[i]
  BY <1>1 DEF Registered, Live
<1>7. Head(que[i]).n \in 1..MaxPackets
  BY <1>3 DEF Packets
<1>8. /\ handled' \in [Addresses -> 0..MaxPackets]
      /\ handled'[owner[i]] = que[i][1].n
      /\ \A a \in Addresses : a # owner[i] => handled'[a] = handled[a]
  BY <1>1, <1>2, <1>3, <1>7, ServerAssumption DEF ServerTypeOK
<1>9. Increasing(que'[i])
  <2> SUFFICES ASSUME NEW m \in DOMAIN que'[i], NEW n \in DOMAIN que'[i], m < n
               PROVE  que'[i][m].n < que'[i][n].n
    BY DEF Increasing
  <2>1. /\ m + 1 \in DOMAIN que[i] /\ n + 1 \in DOMAIN que[i] /\ m + 1 < n + 1
        /\ que'[i][m] = que[i][m + 1] /\ que'[i][n] = que[i][n + 1]
    BY <1>3, <1>4
  <2> QED
    BY <2>1 DEF Numbers, Increasing
<1>10. Registered'
  BY <1>1, <1>5 DEF Registered, Live
<1>11. FirstPacketPut'
  BY <1>1, <1>4, <1>5 DEF FirstPacketPut
<1>12. MainOK'
  BY <1>1 DEF MainOK
<1>13. Numbers'
  <2>1. \A j \in Workers : Increasing(que'[j])
    BY <1>4, <1>9 DEF Numbers
  <2>2. \A j \in Workers : \A m \in DOMAIN que'[j] : \E l \in DOMAIN que[j] : que'[j][m] = que[j][l]
    <3>1. \A m \in DOMAIN que'[i] : \E l \in DOMAIN que[i] : que'[i][m] = que[i][l]
      BY <1>3, <1>4
    <3> QED
      BY <1>4, <3>1
  <2>3. \A a \in Addresses : handled'[a] = handled[a] \/ handled'[a] = que[i][1].n
    BY <1>8
  <2> QED
    BY <1>1, <1>3, <2>1, <2>2, <2>3 DEF Numbers
<1>14. ArrivalOrder'
  <2>1. ASSUME NEW j \in Workers, Live(j)', j # i
        PROVE  \A m \in DOMAIN que'[j] : que'[j][m].n > handled'[owner[j]]
    <3>1. Live(j) /\ owner[j] # owner[i] /\ owner[j] \in Addresses
      BY <1>5, <1>6, <2>1 DEF Live, ServerTypeOK
    <3> QED
      BY <1>4, <1>8, <2>1, <3>1 DEF ArrivalOrder
  <2>2. \A m \in DOMAIN que'[i] : que'[i][m].n > handled'[owner[i]]
    <3>1. \A m \in DOMAIN que[i] : 1 < m => que[i][1].n < que[i][m].n
      BY <1>3 DEF Numbers, Increasing
    <3> QED
      BY <1>3, <1>4, <1>8, <3>1, QueueTypes
  <2>3. \A j \in Workers : Increasing(que'[j])
    BY <1>4, <1>9 DEF Numbers
  <2> QED
    BY <1>1, <2>1, <2>2, <2>3 DEF ArrivalOrder, Increasing
<1>15. ServerTypeOK'
  BY <1>1, <1>4, <1>5, <1>8 DEF ServerTypeOK, FileTypes
<1> QED
  BY <1>10, <1>11, <1>12, <1>13, <1>14, <1>15

\* A worker creates the file, writes to it, closes it or leaves it alone.
LEMMA FileStep ==
  ASSUME ServerInv, NEW i \in Workers, UNCHANGED owner,
         CreateFile(i) \/ WriteFile(i) \/ CloseFile(i) \/ UNCHANGED fileVars
  PROVE  FileInv' /\ FileTypes'
<1> USE DEF ServerInv, QueueInv, Workers
<1>0. FileTypes /\ FileInv
  BY DEF FileTypes, ServerTypeOK
<1>1. CASE CreateFile(i)
  BY <1>0, <1>1 DEF CreateFile, FileInv, FileTypes, UploadsApart
<1>2. CASE WriteFile(i)
  BY <1>0, <1>2 DEF WriteFile, FileInv, FileTypes, UploadsApart
<1>3. CASE CloseFile(i)
  BY <1>0, <1>3 DEF CloseFile, FileInv, FileTypes, UploadsApart
<1>4. CASE UNCHANGED fileVars
  BY <1>0, <1>4 DEF fileVars, FileInv, FileTypes, UploadsApart
<1> QED
  BY <1>1, <1>2, <1>3, <1>4

\* handle_close_fin deletes the worker's own entry: the address has no other
\* worker that goes on.
LEMMA CloseFinStep ==
  ASSUME ServerInv, NEW i \in Workers, CloseFin(i)
  PROVE  ServerInv'
<1> USE DEF ServerInv, QueueInv, Workers
<1>1. /\ state[i] = "closing" /\ Becomes(i, "finished")
      /\ owner[i] \in DOMAIN clientDataQueues /\ clientDataQueues[owner[i]] = i
      /\ CloseFile(i) /\ UNCHANGED <<owner, que, main, received, handled>>
  BY DEF CloseFin, Registered
<1>2. /\ DOMAIN clientDataQueues' = DOMAIN clientDataQueues \ {owner[i]}
      /\ \A a \in DOMAIN clientDataQueues' : clientDataQueues'[a] = clientDataQueues[a]
  BY DEF CloseFin, Delete, Restrict
<1>3. /\ state' \in Seq(States) /\ Len(state') = Len(state) /\ state'[i] = "finished"
      /\ \A j \in Workers : j # i => state'[j] = state[j]
  BY <1>1, ExceptSeq DEF Becomes, ServerTypeOK, States
<1>4. FileTypes' /\ FileInv'
  BY <1>1, FileStep
<1>5. ServerTypeOK'
  BY <1>1, <1>2, <1>3, <1>4 DEF ServerTypeOK, FileTypes, States
<1>6. Registered'
  <2>1. \A a \in DOMAIN clientDataQueues : clientDataQueues[a] \in Workers
    BY DEF ServerTypeOK
  <2>2. ASSUME NEW j \in Workers, state'[j] \in {"started", "running", "closing"}
        PROVE  owner[j] \in DOMAIN clientDataQueues' /\ clientDataQueues'[owner[j]] = j
    <3>1. j # i /\ state[j] \in {"started", "running", "closing"}
      BY <1>3, <2>2
    <3> QED
      BY <1>1, <1>2, <3>1 DEF Registered
  <2>3. ASSUME NEW a \in DOMAIN clientDataQueues'
        PROVE  owner[clientDataQueues'[a]] = a /\ state'[clientDataQueues'[a]] # "finished"
    <3>1. a \in DOMAIN clientDataQueues /\ a # owner[i] /\ owner[clientDataQueues[a]] = a
      BY <1>2 DEF Registered
    <3> QED
      BY <1>2, <1>3, <2>1, <3>1 DEF Registered
  <2> QED
    BY <1>1, <2>2, <2>3 DEF Registered
<1>7. FirstPacketPut'
  <2> SUFFICES ASSUME NEW j \in Workers, state'[j] = "started", que[j] = <<>>
               PROVE  \/ main.pc = "lookup" /\ main.addr = owner[j]
                          /\ owner[j] \in DOMAIN clientDataQueues' /\ clientDataQueues'[owner[j]] = j
                      \/ main.pc = "put" /\ main.worker = j
    BY <1>1 DEF FirstPacketPut
  <2>1. j # i /\ state[j] = "started"
    BY <1>3
  <2>2. owner[j] # owner[i]
    BY <1>1, <2>1 DEF Registered
  <2> QED
    BY <1>2, <2>1, <2>2 DEF FirstPacketPut
<1>8. MainOK' /\ Numbers'
  BY <1>1 DEF MainOK, Numbers
<1>9. ArrivalOrder'
  BY <1>1, <1>3 DEF ArrivalOrder, Live
<1> QED
  BY <1>4, <1>5, <1>6, <1>7, <1>8, <1>9

\* A worker without a packet gives up; its entry stays.
LEMMA InactiveStep ==
  ASSUME ServerInv, NEW i \in Workers, Inactive(i)
  PROVE  ServerInv'
<1> USE DEF ServerInv, QueueInv, Workers
<1>1. /\ Live(i) /\ Becomes(i, "dead") /\ CloseFile(i)
      /\ UNCHANGED <<clientDataQueues, owner, que, main, received, handled>>
  BY DEF Inactive
<1>2. /\ state' \in Seq(States) /\ Len(state') = Len(state) /\ state'[i] = "dead"
      /\ \A j \in Workers : j # i => state'[j] = state[j]
  BY <1>1, ExceptSeq DEF Becomes, ServerTypeOK, States
<1>3. FileInv' /\ FileTypes'
  BY <1>1, FileStep
<1>4. ServerTypeOK'
  BY <1>1, <1>2, <1>3 DEF ServerTypeOK, FileTypes, States
<1>5. Registered'
  <2>1. \A a \in DOMAIN clientDataQueues : clientDataQueues[a] \in Workers
    BY DEF ServerTypeOK
  <2>2. \A j \in Workers : state'[j] # state[j] => state'[j] = "dead"
    BY <1>2
  <2> QED
    BY <1>1, <1>2, <2>1, <2>2 DEF Registered
<1>6. FirstPacketPut' /\ ArrivalOrder'
  BY <1>1, <1>2 DEF FirstPacketPut, ArrivalOrder, Live
<1>7. MainOK' /\ Numbers'
  BY <1>1 DEF MainOK, Numbers
<1> QED
  BY <1>3, <1>4, <1>5, <1>6, <1>7

\* Every step of a worker.
LEMMA WorkerStep ==
  ASSUME ServerInv, NEW i \in Workers, Work(i) \/ Fail(i) \/ Inactive(i)
  PROVE  ServerInv'
<1>0. ServerInv => ServerTypeOK
  BY DEF ServerInv, QueueInv
<1>1. CASE Handshake(i)
  <2>1. Takes(i, "SYN") /\ Becomes(i, "running") /\ state[i] = "started" /\ UNCHANGED fileVars
    BY <1>1 DEF Handshake
  <2>2. FileInv' /\ FileTypes'
    BY <2>1, FileStep DEF Takes
  <2> QED
    BY <2>1, <2>2, TakesStep DEF ServerInv, Kinds
<1>2. ASSUME NEW kind \in Kinds, Takes(i, kind),
             NEW s \in {"closing", "dead"}, Becomes(i, s),
             CloseFile(i) \/ UNCHANGED fileVars
      PROVE  ServerInv'
  <2>1. FileInv' /\ FileTypes'
    BY <1>2, FileStep DEF Takes
  <2> QED
    BY <1>2, <2>1, TakesStep DEF ServerInv
<1>3. CASE Refuse(i)
  BY <1>2, <1>3 DEF Refuse
<1>4. CASE HandlePacket(i)
  <2>1. PICK kind \in Kinds : Takes(i, kind)
    BY <1>4 DEF HandlePacket, Kinds
  <2>2. state[i] = "running" /\ UNCHANGED state /\ UNCHANGED owner
    BY <1>4, <2>1 DEF HandlePacket, Takes
  <2>3. Becomes(i, "running")
    BY <1>0, <2>2 DEF Becomes, ServerTypeOK
  <2>4. FileInv' /\ FileTypes'
    BY <1>4, <2>2, FileStep DEF HandlePacket
  <2> QED
    BY <2>1, <2>3, <2>4, TakesStep DEF ServerInv
<1>5. CASE Finish(i)
  BY <1>2, <1>5 DEF Finish, Kinds
<1>6. CASE Fail(i)
  BY <1>2, <1>6 DEF Fail
<1> QED
  BY <1>1, <1>3, <1>4, <1>5, <1>6, CloseFinStep, InactiveStep DEF Work

\* The invariant is inductive.
LEMMA NextInv == ServerInv /\ [Next]_vars => ServerInv'
<1> SUFFICES ASSUME ServerInv, [Next]_vars PROVE ServerInv'
  OBVIOUS
<1>1. CASE UNCHANGED vars
  <2>1. UNCHANGED <<clientDataQueues, owner, state, que, main, received, handled>>
        /\ UNCHANGED <<opened, creator, writers, shared>>
    BY <1>1 DEF vars
  <2>2. ServerTypeOK' /\ MainOK' /\ Registered' /\ FirstPacketPut'
    BY <2>1 DEF ServerInv, QueueInv, ServerTypeOK, MainOK, Registered, FirstPacketPut, Workers
  <2>3. ArrivalOrder' /\ Numbers' /\ FileInv'
    BY <2>1 DEF ServerInv, QueueInv, ArrivalOrder, Numbers, FileInv, UploadsApart, Live,
       Workers
  <2> QED
    BY <2>2, <2>3 DEF ServerInv, QueueInv
<1>2. CASE MainStep
  BY <1>2, ReceiveStep, LookupStep, PutStep DEF MainStep
<1>3. CASE \E i \in Workers : Work(i) \/ Fail(i) \/ Inactive(i)
  BY <1>3, WorkerStep
<1> QED
  BY <1>1, <1>2, <1>3 DEF Next

\* Every reachable state satisfies the invariant.
THEOREM ServerInvariance == Spec => []ServerInv
  BY InitInv, NextInv, PTL DEF Spec

\* The variables of the dispatcher have their types.
THEOREM ServerTypeCorrect == Spec => []ServerTypeOK
<1>1. ServerInv => ServerTypeOK
  BY DEF ServerInv, QueueInv
<1> QED
  BY <1>1, ServerInvariance, PTL

\* A worker that goes on is the only one of its address and the one that has its
\* queue (_raise_thread, handle_close_fin).
THEOREM RegisteredCorrect == Spec => []Registered
<1>1. ServerInv => Registered
  BY DEF ServerInv, QueueInv
<1> QED
  BY <1>1, ServerInvariance, PTL

\* The packets of an address are handled in the order of their arrival.
THEOREM OrderCorrect == Spec => []ArrivalOrder
<1>1. ServerInv => ArrivalOrder
  BY DEF ServerInv, QueueInv
<1> QED
  BY <1>1, ServerInvariance, PTL

\* The packet a worker was started for reaches it.
THEOREM FirstPacketCorrect == Spec => []FirstPacketPut
<1>1. ServerInv => FirstPacketPut
  BY DEF ServerInv, QueueInv
<1> QED
  BY <1>1, ServerInvariance, PTL

\* Uploads of one name that do not overlap leave the last one's chunks only.
THEOREM UploadsCorrect == Spec => []UploadsApart
<1>1. ServerInv => UploadsApart
  BY DEF ServerInv, FileInv
<1> QED
  BY <1>1, ServerInvariance, PTL
-----------------------------------------------------------------------------
(* The dispatcher implements AddressSession: what a step does to the session *)
(* of each address.                                                          *)

Sessions == [a \in Addresses |-> SessionOf(a)]

\* A worker that has its queue moves on: only the session of its address changes,
\* and only if the worker dies.
LEMMA SessionFollows ==
  ASSUME ServerInv, NEW i \in Workers, state[i] \in {"started", "running", "closing"},
         NEW s \in {"running", "closing", "dead"}, Becomes(i, s),
         UNCHANGED <<clientDataQueues, owner>>
  PROVE  /\ owner[i] \in Addresses /\ Sessions[owner[i]] = "open"
         /\ Sessions' = [Sessions EXCEPT ![owner[i]] = IF s = "dead" THEN "dead" ELSE "open"]
<1> USE DEF Workers
<1>1. /\ owner[i] \in Addresses /\ owner[i] \in DOMAIN clientDataQueues
      /\ clientDataQueues[owner[i]] = i
      /\ state \in Seq(States) /\ i \in 1..Len(state)
      /\ \A a \in DOMAIN clientDataQueues :
           clientDataQueues[a] \in Workers /\ owner[clientDataQueues[a]] = a
  BY DEF ServerInv, QueueInv, ServerTypeOK, Registered, States
<1>2. state'[i] = s /\ \A j \in Workers : j # i => state'[j] = state[j]
  BY <1>1, ExceptSeq DEF Becomes, ServerInv, QueueInv, ServerTypeOK, States
<1>3. SessionOf(owner[i]) = "open"
  BY <1>1 DEF SessionOf
<1>4. SessionOf(owner[i])' = IF s = "dead" THEN "dead" ELSE "open"
  BY <1>1, <1>2 DEF SessionOf
<1>5. \A a \in Addresses : a # owner[i] => SessionOf(a)' = SessionOf(a)
  BY <1>1, <1>2 DEF SessionOf
<1> QED
  BY <1>1, <1>3, <1>4, <1>5 DEF Sessions

\* A packet is taken by the session of its address, and is the newest of it.
LEMMA TakeMaps ==
  ASSUME ServerInv, NEW i \in Workers, NEW kind \in Kinds, Takes(i, kind),
         NEW s \in {"running", "closing", "dead"}, Becomes(i, s)
  PROVE  AS!ASNext
<1> DEFINE a == owner[i]
           n == Head(que[i]).n
<1>1. /\ Live(i) /\ que[i] # <<>>
      /\ handled' = [handled EXCEPT ![a] = n]
      /\ UNCHANGED <<clientDataQueues, owner, received>>
  BY DEF Takes
<1>2. /\ a \in Addresses /\ Sessions[a] = "open"
      /\ Sessions' = [Sessions EXCEPT ![a] = IF s = "dead" THEN "dead" ELSE "open"]
  BY <1>1, SessionFollows DEF Live
<1>3. que[i] \in Seq(Packets) /\ handled[a] \in Int /\ received \in Nat
  BY <1>2, QueueTypes, ServerAssumption DEF ServerInv, QueueInv, ServerTypeOK
<1>4. Head(que[i]) \in Packets /\ Head(que[i]) = que[i][1] /\ 1 \in DOMAIN que[i]
  BY <1>1, <1>3, TailFacts
<1>5. n \in Int /\ handled[a] < n /\ n <= received
  <2>1. n > handled[a]
    BY <1>1, <1>4 DEF ServerInv, QueueInv, ArrivalOrder
  <2>2. n <= received
    BY <1>4 DEF ServerInv, QueueInv, Numbers
  <2> QED
    BY <1>4, <2>1, <2>2, ServerAssumption DEF Packets
<1>6. n \in (handled[a] + 1)..received
  BY <1>3, <1>5
<1> HIDE DEF a, n
<1>7. AS!Take(a)
  BY <1>1, <1>2, <1>6 DEF AS!Take, Sessions
<1> QED
  BY <1>2, <1>7 DEF AS!ASNext

\* The steps of a worker.
LEMMA WorkerMaps ==
  ASSUME ServerInv, NEW i \in Workers, Work(i) \/ Fail(i) \/ Inactive(i)
  PROVE  AS!ASNext
<1>1. CASE Handshake(i) \/ Refuse(i) \/ Finish(i) \/ Fail(i)
  BY <1>1, TakeMaps DEF Handshake, Refuse, Finish, Fail, Kinds
<1>2. CASE HandlePacket(i)
  <2>1. PICK kind \in Kinds : Takes(i, kind)
    BY <1>2 DEF HandlePacket, Kinds
  <2>2. Becomes(i, "running")
    BY <1>2 DEF HandlePacket, Becomes, ServerInv, QueueInv, ServerTypeOK
  <2> QED
    BY <2>1, <2>2, TakeMaps
<1>3. CASE Inactive(i)
  <2>1. /\ Live(i) /\ Becomes(i, "dead")
        /\ UNCHANGED <<clientDataQueues, owner>> /\ UNCHANGED <<received, handled>>
    BY <1>3 DEF Inactive
  <2>2. /\ owner[i] \in Addresses /\ Sessions[owner[i]] = "open"
        /\ Sessions' = [Sessions EXCEPT ![owner[i]] = "dead"]
    BY <2>1, SessionFollows DEF Live
  <2>3. AS!End(owner[i], "dead")
    BY <2>1, <2>2 DEF AS!End, Sessions
  <2> QED
    BY <2>2, <2>3 DEF AS!ASNext
<1>4. CASE CloseFin(i)
  <2>1. /\ state[i] = "closing" /\ UNCHANGED <<owner, received, handled>>
        /\ owner[i] \in Addresses /\ owner[i] \in DOMAIN clientDataQueues
        /\ clientDataQueues[owner[i]] = i
        /\ DOMAIN clientDataQueues' = DOMAIN clientDataQueues \ {owner[i]}
        /\ \A a \in DOMAIN clientDataQueues' : clientDataQueues'[a] = clientDataQueues[a]
        /\ \A a \in DOMAIN clientDataQueues :
             clientDataQueues[a] \in Workers /\ owner[clientDataQueues[a]] = a
    BY <1>4 DEF CloseFin, Delete, Restrict, ServerInv, QueueInv, Registered, ServerTypeOK, Workers
  <2>2. \A j \in Workers : j # i => state'[j] = state[j]
    BY <1>4, ExceptSeq DEF CloseFin, Becomes, ServerInv, QueueInv, ServerTypeOK, States, Workers
  <2>3. SessionOf(owner[i]) = "open" /\ SessionOf(owner[i])' = "none"
    BY <2>1 DEF SessionOf
  <2>4. \A a \in Addresses : a # owner[i] => SessionOf(a)' = SessionOf(a)
    BY <2>1, <2>2 DEF SessionOf
  <2>5. Sessions[owner[i]] = "open" /\ Sessions' = [Sessions EXCEPT ![owner[i]] = "none"]
    BY <2>1, <2>3, <2>4 DEF Sessions
  <2>6. AS!End(owner[i], "none")
    BY <2>1, <2>5 DEF AS!End, Sessions
  <2> QED
    BY <2>1, <2>6 DEF AS!ASNext
<1> QED
  BY <1>1, <1>2, <1>3, <1>4 DEF Work

\* A packet arrives: the address has a session, or gets one.
LEMMA ReceiveMaps ==
  ASSUME ServerInv, NEW a \in Addresses, NEW kind \in Kinds, Receive(a, kind)
  PROVE  AS!ASNext
<1>1. received < MaxPackets /\ received' = received + 1 /\ UNCHANGED handled
  BY DEF Receive
<1>2. Sessions' = [Sessions EXCEPT ![a] = IF @ = "none" THEN "open" ELSE @]
  <2>1. CASE a \in DOMAIN clientDataQueues
    <3>1. UNCHANGED <<clientDataQueues, state>>
      BY <2>1 DEF Receive, Register
    <3>2. SessionOf(a) # "none" /\ \A b \in Addresses : SessionOf(b)' = SessionOf(b)
      BY <2>1, <3>1 DEF SessionOf
    <3> QED
      BY <3>2 DEF Sessions
  <2>2. CASE a \notin DOMAIN clientDataQueues
    <3>1. /\ state' = Append(state, "started")
          /\ DOMAIN clientDataQueues' = DOMAIN clientDataQueues \union {a}
          /\ clientDataQueues'[a] = Len(owner) + 1
          /\ \A b \in DOMAIN clientDataQueues : clientDataQueues'[b] = clientDataQueues[b]
      BY <2>2 DEF Receive, Register
    <3>2. /\ state \in Seq(States) /\ Len(state) = Len(owner) /\ "started" \in States
          /\ \A b \in DOMAIN clientDataQueues : clientDataQueues[b] \in DOMAIN state
      BY DEF ServerInv, QueueInv, ServerTypeOK, Workers, States
    <3>3. state'[Len(owner) + 1] = "started" /\ \A j \in DOMAIN state : state'[j] = state[j]
      BY <3>1, <3>2, AppendFacts
    <3>4. SessionOf(a) = "none" /\ SessionOf(a)' = "open"
      BY <2>2, <3>1, <3>3 DEF SessionOf
    <3>5. \A b \in Addresses : b # a => SessionOf(b)' = SessionOf(b)
      BY <3>1, <3>2, <3>3 DEF SessionOf
    <3> QED
      BY <3>4, <3>5 DEF Sessions
  <2> QED
    BY <2>1, <2>2
<1>3. AS!Arrive(a)
  BY <1>1, <1>2 DEF AS!Arrive, Sessions
<1> QED
  BY <1>3 DEF AS!ASNext

\* Whatever the threads do, an address has one session at a time, which takes its
\* packets in the order of their arrival, and which frees the address or blocks it
\* for ever when it ends (start, _raise_thread, handle_clientt, handle_close_fin).
THEOREM SessionCorrect == Spec => ImplementsSession
<1>1. Init => AS!ASInit
  BY DEF Init, AS!ASInit, SessionOf
<1>2. ServerInv /\ [Next]_vars => [AS!ASNext]_(AS!asVars)
  <2> SUFFICES ASSUME ServerInv, [Next]_vars PROVE AS!ASNext \/ UNCHANGED AS!asVars
    OBVIOUS
  <2>1. CASE UNCHANGED <<clientDataQueues, state, received, handled>>
    BY <2>1 DEF AS!asVars, SessionOf
  <2>2. CASE UNCHANGED vars \/ Lookup \/ Put
    BY <2>1, <2>2 DEF vars, Lookup, Put
  <2>3. CASE \E a \in Addresses, kind \in Kinds : Receive(a, kind)
    BY <2>3, ReceiveMaps
  <2>4. CASE \E i \in Workers : Work(i) \/ Fail(i) \/ Inactive(i)
    BY <2>4, WorkerMaps
  <2> QED
    BY <2>2, <2>3, <2>4 DEF Next, MainStep
<1> QED
  BY <1>1, <1>2, ServerInvariance, PTL DEF Spec, ImplementsSession, AS!ASSpec
=============================================================================

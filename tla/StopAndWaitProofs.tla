-------------------------- MODULE StopAndWaitProofs --------------------------
(***************************************************************************)
(* Stop and Wait implements Selective Repeat with a window of one, for     *)
(* files of any length and every fault but one: the network delivers no    *)
(* handshake packet twice (OnceOnly).  The invariant is the one of         *)
(* SelectiveRepeatProofs, of the mapped state: under it the window holds   *)
(* one packet at most, numbered seq_num - 1, and every acknowledgement in  *)
(* flight is of that packet or an earlier one.                             *)
(*                                                                         *)
(* Without OnceOnly a pending packet may be dropped, and what is left has  *)
(* invariants of its own: CloseInv for what CLOSE means, PendingInv for    *)
(* the types and for the packet that is always pending.                    *)
(***************************************************************************)
EXTENDS StopAndWait, TLAPS

\* The theorems of SelectiveRepeat about the mapped state.
SRP == INSTANCE SelectiveRepeatProofs WITH
        W <- 1,
        window <- pending,
        base <- IF pending = {} THEN seq_num ELSE seq_num - 1,
        buffer <- [s \in {} |-> 0]

-----------------------------------------------------------------------------
(* The two modules and both instances mean the same by their packets, by    *)
(* the network and by the steps of the session.                             *)

LEMMA SamePackets ==
  /\ Syn = SR!Syn /\ SynAck = SR!SynAck /\ FinAck = SR!FinAck
  /\ Syn = SRP!Syn /\ SynAck = SRP!SynAck /\ FinAck = SRP!FinAck
  /\ \A s : Ack(s) = SR!Ack(s) /\ Fin(s) = SR!Fin(s)
  /\ \A s : Ack(s) = SRP!Ack(s) /\ Fin(s) = SRP!Fin(s)
  /\ \A s, c : Data(s, c) = SR!Data(s, c) /\ Data(s, c) = SRP!Data(s, c)
  BY DEF Syn, SR!Syn, SRP!Syn, SynAck, SR!SynAck, SRP!SynAck, Ack, SR!Ack, SRP!Ack, Data,
     SR!Data, SRP!Data, Fin, SR!Fin, SRP!Fin, FinAck, SR!FinAck, SRP!FinAck, Packet,
     SR!Packet, SRP!Packet

\* What is delivered to whom, and what a delivery leaves in the network.
LEMMA SameNetwork ==
  ASSUME NEW p
  PROVE  /\ ToServer(p) = SR!ToServer(p) /\ ToServer(p) = SRP!ToServer(p)
         /\ MayRepeat(p) = SR!MayRepeat(p) /\ MayRepeat(p) = SRP!MayRepeat(p)
         /\ \A r : Exchange(p, r) = SR!Exchange(p, r) /\ Exchange(p, r) = SRP!Exchange(p, r)
         /\ \A t : /\ ClientTakes(p, t) = SR!ClientTakes(p, t)
                 /\ ClientTakes(p, t) = SRP!ClientTakes(p, t)
         /\ \A t : /\ WorkerTakes(p, t) = SR!WorkerTakes(p, t)
                 /\ WorkerTakes(p, t) = SRP!WorkerTakes(p, t)
         /\ Spawns(p) = SR!Spawns(p) /\ Spawns(p) = SRP!Spawns(p)
  BY DEF MayRepeat, SR!MayRepeat, SRP!MayRepeat, Exchange, SR!Exchange, SRP!Exchange,
     ToServer, SR!ToServer, SRP!ToServer, ClientAlive, SR!ClientAlive, SRP!ClientAlive,
     ClientTakes, SR!ClientTakes, SRP!ClientTakes, WorkerTakes, SR!WorkerTakes,
     SRP!WorkerTakes, Spawns, SR!Spawns, SRP!Spawns

\* The steps of Session.
LEMMA SameSession ==
  ASSUME NEW p
  PROVE  /\ ClientClose(p) <=> SR!ClientClose(p)
         /\ ClientClose(p) <=> SRP!ClientClose(p)
         /\ ClientCloseFin(p) <=> SR!ClientCloseFin(p)
         /\ ClientCloseFin(p) <=> SRP!ClientCloseFin(p)
         /\ WorkerStart(p) <=> SR!WorkerStart(p)
         /\ WorkerStart(p) <=> SRP!WorkerStart(p)
         /\ WorkerOversized(p) <=> SR!WorkerOversized(p)
         /\ WorkerOversized(p) <=> SRP!WorkerOversized(p)
         /\ WorkerRefuses(p) <=> SR!WorkerRefuses(p)
         /\ WorkerRefuses(p) <=> SRP!WorkerRefuses(p)
         /\ WorkerSynAgain(p) <=> SR!WorkerSynAgain(p)
         /\ WorkerSynAgain(p) <=> SRP!WorkerSynAgain(p)
         /\ WorkerClose(p) <=> SR!WorkerClose(p)
         /\ WorkerClose(p) <=> SRP!WorkerClose(p)
         /\ WorkerCloseFin(p) <=> SR!WorkerCloseFin(p)
         /\ WorkerCloseFin(p) <=> SRP!WorkerCloseFin(p)
         /\ Swallow(p) <=> SR!Swallow(p)
         /\ Swallow(p) <=> SRP!Swallow(p)
         /\ Lose(p) <=> SR!Lose(p)
         /\ Lose(p) <=> SRP!Lose(p)
         /\ DeliverCorrupt(p) <=> SR!DeliverCorrupt(p)
         /\ DeliverCorrupt(p) <=> SRP!DeliverCorrupt(p)
<1> USE SamePackets, SameNetwork
<1>1. /\ ClientClose(p) <=> SR!ClientClose(p)
      /\ ClientClose(p) <=> SRP!ClientClose(p)
  BY DEF ClientClose, SR!ClientClose, SRP!ClientClose
<1>2. /\ ClientCloseFin(p) <=> SR!ClientCloseFin(p)
      /\ ClientCloseFin(p) <=> SRP!ClientCloseFin(p)
  BY DEF ClientCloseFin, SR!ClientCloseFin, SRP!ClientCloseFin
<1>3. /\ WorkerStart(p) <=> SR!WorkerStart(p)
      /\ WorkerStart(p) <=> SRP!WorkerStart(p)
  BY DEF WorkerStart, SR!WorkerStart, SRP!WorkerStart
<1>4. /\ WorkerOversized(p) <=> SR!WorkerOversized(p)
      /\ WorkerOversized(p) <=> SRP!WorkerOversized(p)
  BY DEF WorkerOversized, SR!WorkerOversized, SRP!WorkerOversized
<1>5. /\ WorkerRefuses(p) <=> SR!WorkerRefuses(p)
      /\ WorkerRefuses(p) <=> SRP!WorkerRefuses(p)
  BY DEF WorkerRefuses, SR!WorkerRefuses, SRP!WorkerRefuses
<1>6. /\ WorkerSynAgain(p) <=> SR!WorkerSynAgain(p)
      /\ WorkerSynAgain(p) <=> SRP!WorkerSynAgain(p)
  BY DEF WorkerSynAgain, SR!WorkerSynAgain, SRP!WorkerSynAgain
<1>7. /\ WorkerClose(p) <=> SR!WorkerClose(p)
      /\ WorkerClose(p) <=> SRP!WorkerClose(p)
  BY DEF WorkerClose, SR!WorkerClose, SRP!WorkerClose, Closed, SR!Closed, SRP!Closed
<1>8. /\ WorkerCloseFin(p) <=> SR!WorkerCloseFin(p)
      /\ WorkerCloseFin(p) <=> SRP!WorkerCloseFin(p)
  BY DEF WorkerCloseFin, SR!WorkerCloseFin, SRP!WorkerCloseFin, Closed, SR!Closed,
     SRP!Closed
<1>9. /\ Swallow(p) <=> SR!Swallow(p)
      /\ Swallow(p) <=> SRP!Swallow(p)
  BY DEF Swallow, SR!Swallow, SRP!Swallow
<1>10. /\ Lose(p) <=> SR!Lose(p)
       /\ Lose(p) <=> SRP!Lose(p)
  BY DEF Lose, SR!Lose, SRP!Lose
<1>11. /\ DeliverCorrupt(p) <=> SR!DeliverCorrupt(p)
       /\ DeliverCorrupt(p) <=> SRP!DeliverCorrupt(p)
  BY DEF DeliverCorrupt, SR!DeliverCorrupt, SRP!DeliverCorrupt, ClientAlive,
     SR!ClientAlive, SRP!ClientAlive
<1> QED
  BY <1>1, <1>2, <1>3, <1>4, <1>5, <1>6, <1>7, <1>8, <1>9, <1>10, <1>11

\* The helpers of SelectiveRepeat that send.
LEMMA SameSending ==
  /\ \A at, n, win : SR!NewPackets(at, n, win) = SRP!NewPackets(at, n, win)
  /\ \A at, n, win : SR!HandleAck(at, n, win) <=> SRP!HandleAck(at, n, win)
  /\ \A s : SR!Unacked(s) = SRP!Unacked(s)
  /\ \A win, b : SR!SlidesTo(win, b) <=> SRP!SlidesTo(win, b)
  /\ \A p : SR!DiscardAck(p) <=> SRP!DiscardAck(p)
<1>1. \A at, n : SR!Pushed(at, n) = SRP!Pushed(at, n) /\ SR!Read(at, n) = SRP!Read(at, n)
  BY SamePackets DEF SR!Pushed, SRP!Pushed, SR!Read, SRP!Read
<1>2. \A at, n, win : SR!Finishes(at, n, win) <=> SRP!Finishes(at, n, win)
  BY <1>1 DEF SR!Finishes, SRP!Finishes
<1>3. \A at, n, win : SR!NewPackets(at, n, win) = SRP!NewPackets(at, n, win)
  BY <1>1, <1>2, SamePackets DEF SR!NewPackets, SRP!NewPackets
<1>4. \A at, n, win : SR!HandleAck(at, n, win) <=> SRP!HandleAck(at, n, win)
  BY <1>1, <1>2, <1>3 DEF SR!HandleAck, SRP!HandleAck
<1>5. \A s : SR!Unacked(s) = SRP!Unacked(s)
  BY DEF SR!Unacked, SRP!Unacked
<1>6. \A win, b : SR!SlidesTo(win, b) <=> SRP!SlidesTo(win, b)
  BY DEF SR!SlidesTo, SRP!SlidesTo, SR!Seqs, SRP!Seqs
<1>7. \A p : SR!DiscardAck(p) <=> SRP!DiscardAck(p)
  BY SameNetwork DEF SR!DiscardAck, SRP!DiscardAck, SR!senderVars, SRP!senderVars
<1> QED
  BY <1>3, <1>4, <1>5, <1>6, <1>7

\* The helpers that receive.
LEMMA SameReceiving ==
  ASSUME NEW p
  PROVE  /\ SR!NothingNew(p) <=> SRP!NothingNew(p)
         /\ \A n : SR!Accept(p, n) <=> SRP!Accept(p, n)
         /\ \A n : SR!Writes(p, n) <=> SRP!Writes(p, n)
<1>1. /\ SR!TooFar(p) <=> SRP!TooFar(p)
      /\ SR!Repeated(p) <=> SRP!Repeated(p)
  BY DEF SR!TooFar, SRP!TooFar, SR!Repeated, SRP!Repeated
<1>2. SR!Buffered(p) = SRP!Buffered(p)
  BY DEF SR!Buffered, SRP!Buffered
<1>3. \A got, n : /\ SR!DeliversTo(got, n) <=> SRP!DeliversTo(got, n)
                  /\ SR!Run(got, n) = SRP!Run(got, n)
  BY DEF SR!DeliversTo, SRP!DeliversTo, SR!Run, SRP!Run
<1>4. SR!NothingNew(p) <=> SRP!NothingNew(p)
  BY <1>1, SamePackets, SameNetwork DEF SR!NothingNew, SRP!NothingNew, SR!receiverVars,
     SRP!receiverVars
<1>5. ASSUME NEW n PROVE SR!Accept(p, n) <=> SRP!Accept(p, n)
  BY <1>1, <1>2, <1>3, SamePackets, SameNetwork DEF SR!Accept, SRP!Accept
<1>6. ASSUME NEW n PROVE SR!Writes(p, n) <=> SRP!Writes(p, n)
  BY <1>2, <1>3 DEF SR!Writes, SRP!Writes
<1> QED
  BY <1>4, <1>5, <1>6

\* The two instances of SelectiveRepeat take the same steps.
LEMMA SameDeliver ==
  ASSUME NEW p, SR!Deliver(p)
  PROVE  SRP!Deliver(p)
<1> USE DEF SR!senderVars, SRP!senderVars, SR!receiverVars, SRP!receiverVars, SR!NoChunks,
        SRP!NoChunks
<1> USE SamePackets, SameNetwork, SameSending, SameReceiving
<1>1. SR!ClientSynAck(p) => SRP!ClientSynAck(p)
  BY DEF SR!ClientSynAck, SRP!ClientSynAck
<1>2. SR!ClientAck(p) => SRP!ClientAck(p)
  BY DEF SR!ClientAck, SRP!ClientAck
<1>3. SR!ClientData(p) => SRP!ClientData(p)
  BY DEF SR!ClientData, SRP!ClientData
<1>4. SR!Start(p) => SRP!Start(p)
  BY SameSession DEF SR!Start, SRP!Start
<1>5. SR!WorkerCreates(p) => SRP!WorkerCreates(p)
  BY DEF SR!WorkerCreates, SRP!WorkerCreates
<1>6. SR!WorkerOpens(p) => SRP!WorkerOpens(p)
  BY DEF SR!WorkerOpens, SRP!WorkerOpens
<1>7. SR!WorkerOpenFails(p) => SRP!WorkerOpenFails(p)
  BY DEF SR!WorkerOpenFails, SRP!WorkerOpenFails
<1>8. SR!WorkerAck(p) => SRP!WorkerAck(p)
  BY DEF SR!WorkerAck, SRP!WorkerAck
<1>9. SR!WorkerAckFails(p) => SRP!WorkerAckFails(p)
  BY DEF SR!WorkerAckFails, SRP!WorkerAckFails
<1>10. SR!WorkerData(p) => SRP!WorkerData(p)
  BY DEF SR!WorkerData, SRP!WorkerData
<1>11. SR!WorkerDataFails(p) => SRP!WorkerDataFails(p)
  BY DEF SR!WorkerDataFails, SRP!WorkerDataFails
<1>12. SR!SessionStep(p) => SRP!SessionStep(p)
  BY SameSession DEF SR!SessionStep, SRP!SessionStep
<1> QED
  BY <1>1, <1>2, <1>3, <1>4, <1>5, <1>6, <1>7, <1>8, <1>9, <1>10, <1>11, <1>12 DEF
     SR!Deliver, SRP!Deliver

\* The same of every step.
LEMMA SameStep == ASSUME [SR!Next]_(SR!vars) PROVE [SRP!Next]_(SRP!vars)
<1>1. ASSUME NEW p \in net, SR!Disturb(p) PROVE SRP!Disturb(p)
  BY <1>1, SameSession DEF SR!Disturb, SRP!Disturb
<1>2. SR!ClientTimeout => SRP!ClientTimeout
  BY DEF SR!ClientTimeout, SRP!ClientTimeout, SR!Resend, SRP!Resend
<1>3. SR!WorkerTimeout => SRP!WorkerTimeout
  BY DEF SR!WorkerTimeout, SRP!WorkerTimeout, SR!Resend, SRP!Resend
<1>4. SR!GiveUp => SRP!GiveUp
  BY DEF SR!GiveUp, SRP!GiveUp, SR!ConnectTimeout, SRP!ConnectTimeout,
     SR!WorkerInactive, SRP!WorkerInactive
<1>5. UNCHANGED SR!vars => UNCHANGED SRP!vars
  BY DEF SR!vars, SRP!vars, SR!sessionVars, SRP!sessionVars
<1> QED
  BY <1>1, <1>2, <1>3, <1>4, <1>5, SameDeliver DEF SR!Next, SRP!Next
-----------------------------------------------------------------------------
(* The invariant of SelectiveRepeat, for a window of one.                   *)

\* What the theorems of SelectiveRepeat assume.
LEMMA Parameters == N \in Nat /\ SessionAssumption /\ 1 \in Nat \ {0}
  BY SessionAssumption

\* At most one packet is pending: the last one that was numbered.
LEMMA OnePending ==
  ASSUME SRP!IInv, NEW q \in pending
  PROVE  pending = {q} /\ q.seq = seq_num - 1 /\ q.seq \in 1..(N + 1)
<1>1. ASSUME NEW r \in pending
      PROVE  /\ r \in SRP!PossiblePackets /\ r.type \in {"DATA", "CLOSE"}
             /\ r.seq \in (seq_num - 1)..(seq_num - 1) /\ seq_num \in Nat
  BY <1>1 DEF SRP!IInv, SRP!SenderInv
<1>2. ASSUME NEW r \in pending
      PROVE  /\ r.seq = seq_num - 1 /\ r.seq \in 1..(N + 1)
             /\ r = IF r.seq = N + 1 THEN SRP!Fin(N + 1) ELSE SRP!Data(r.seq, r.seq)
  BY <1>1, <1>2, SRP!Kinds, Parameters
<1> QED
  BY <1>2

\* What the handlers of acknowledgements and DATA find.
LEMMA Found ==
  ASSUME SRP!IInv
  PROVE  /\ seq_num \in Nat \ {0} /\ cursor \in 0..N /\ next_expected \in Nat \ {0}
         /\ \A p \in net : p.type = "SYN_ACK" => pending = {}
         /\ \A p \in net : p.type = "ACK" /\ p.seq = 0 /\ op = "download" => pending = {}
         /\ \A p \in net : p.type = "ACK" /\ p.seq # 0 => p.seq \in 1..N /\ p.seq < seq_num
         /\ \A p \in net : p.type = "DATA" => p.seq \in 1..N
<1>1. /\ seq_num \in Nat /\ cursor \in 0..N
      /\ next_expected \in 1..(N + 1) /\ next_expected <= seq_num
  BY DEF SRP!IInv, SRP!SenderInv, SRP!ReceiverInv
<1>2. ASSUME NEW p \in net
      PROVE  /\ p.type = "ACK" => p.seq \in 0..N
             /\ p.type = "DATA" => p.seq \in 1..N
  <2>1. p \in SRP!PossiblePackets
    BY DEF SRP!IInv, SRP!NetInv
  <2> QED
    BY <2>1, SRP!Kinds, Parameters
<1>3. ASSUME NEW p \in net
      PROVE  /\ p.type = "SYN_ACK" => pending = {}
             /\ p.type = "ACK" /\ p.seq = 0 /\ op = "download" => pending = {}
             /\ p.type = "ACK" /\ p.seq # 0 => p.seq < next_expected
  BY <1>3 DEF SRP!IInv, SRP!NetInv, SRP!SessionInv, SRP!Fresh, SRP!Got
<1> QED
  BY <1>1, <1>2, <1>3, Parameters

\* The file of a worker that has sent something is open until CLOSE is pending.
LEMMA OpenWhileSending ==
  ASSUME SRP!IInv, op = "download", NEW q \in pending, q.seq # N + 1
  PROVE  handle = "open"
<1>1. handle \in {"none", "open", "closed"} /\ handle # "none"
  BY DEF SRP!IInv, SRP!SessionInv, SRP!Fresh
<1>2. CASE handle = "closed"
  <2>1. seq_num = N + 2
    BY <1>2 DEF SRP!IInv, SRP!SessionInv
  <2> QED
    BY <2>1, OnePending, Parameters
<1> QED
  BY <1>1, <1>2
-----------------------------------------------------------------------------
(* The handlers.                                                            *)

\* next_expected of the sender's object in Selective Repeat.
base == IF pending = {} THEN seq_num ELSE seq_num - 1

\* What handle_ack reads and sends.
LEMMA Pushes ==
  ASSUME SRP!IInv, NEW at \in 0..N
  PROVE  /\ SR!NewPackets(at, 1, {}) = NewPackets(at, {})
         /\ HandleAck(at, {}) => SR!HandleAck(at, 1, {}) /\ base' = seq_num
<1>0. seq_num \in Nat
  BY Found
<1>1. SR!Read(at, 1) = IF at < N THEN 1 ELSE 0
  BY Parameters DEF SR!Read
<1>2. SR!Pushed(at, 1) = IF at < N THEN {Data(seq_num, at + 1)} ELSE {}
  <2>1. CASE at < N
    <3>1. 0..(SR!Read(at, 1) - 1) = {0}
      BY <1>1, <2>1
    <3>2. SR!Pushed(at, 1) = {SR!Data(seq_num + 0, at + 0 + 1)}
      BY <3>1 DEF SR!Pushed
    <3> QED
      BY <1>0, <2>1, <3>2, SamePackets
  <2>2. CASE ~(at < N)
    <3>1. 0..(SR!Read(at, 1) - 1) = {}
      BY <1>1, <2>2
    <3> QED
      BY <2>2, <3>1 DEF SR!Pushed
  <2> QED
    BY <2>1, <2>2
<1>3. SR!Finishes(at, 1, {}) <=> ~(at < N)
  BY <1>1, Parameters DEF SR!Finishes
<1>4. SR!NewPackets(at, 1, {}) = NewPackets(at, {}) /\ NewPackets(at, {}) # {}
  BY <1>2, <1>3, SamePackets DEF SR!NewPackets, NewPackets
<1>5. ASSUME HandleAck(at, {})
      PROVE  /\ pending' = NewPackets(at, {}) /\ seq_num' = seq_num + 1
             /\ cursor' = IF at < N THEN at + 1 ELSE at
  BY <1>4, <1>5 DEF HandleAck
<1>6. ASSUME HandleAck(at, {})
      PROVE  SR!HandleAck(at, 1, {}) /\ base' = seq_num
  BY <1>0, <1>1, <1>3, <1>4, <1>5, <1>6, Parameters DEF SR!HandleAck, base
<1> QED
  BY <1>4, <1>6

\* What Stop and Wait ignores, Selective Repeat discards.
LEMMA Ignored ==
  ASSUME SRP!IInv, NEW p \in net, p.type = "ACK", IgnoreAck(p)
  PROVE  SR!DiscardAck(p)
<1>1. p.seq # 0 /\ p.seq \in 1..N /\ p.seq < seq_num /\ seq_num \in Nat
  BY Found DEF IgnoreAck
<1>2. p.seq < base
  <2>1. CASE pending = {}
    BY <1>1, <2>1 DEF base
  <2>2. ASSUME NEW q \in pending PROVE p.seq < base
    <3>1. q.seq = seq_num - 1 /\ q.seq # p.seq
      BY OnePending DEF IgnoreAck, Acknowledges
    <3> QED
      BY <1>1, <3>1 DEF base
  <2> QED
    BY <2>1, <2>2
<1> QED
  BY <1>1, <1>2, SameNetwork DEF IgnoreAck, senderVars, SR!DiscardAck, SR!senderVars, base

\* The number that acknowledges the pending packet empties the window.
LEMMA Slides ==
  ASSUME SRP!IInv, NEW p, Acknowledges(p)
  PROVE  /\ p.seq = base /\ base \in Nat /\ seq_num = base + 1
         /\ SR!Unacked(p.seq) = {}
         /\ SR!SlidesTo({}, seq_num) /\ seq_num \in base..seq_num
<1>1. PICK q \in pending : q.seq = p.seq
  BY DEF Acknowledges
<1>2. pending = {q} /\ q.seq = seq_num - 1 /\ q.seq \in 1..(N + 1)
  BY OnePending
<1>3. seq_num \in Nat /\ base = seq_num - 1
  BY <1>1, Found DEF base
<1>4. SR!Unacked(p.seq) = {}
  BY <1>1, <1>2 DEF SR!Unacked
<1> QED
  BY <1>1, <1>2, <1>3, <1>4 DEF SR!SlidesTo, SR!Seqs, base

\* DATA: with an empty buffer the run that a chunk completes is that chunk.
LEMMA Receives ==
  ASSUME SRP!IInv, NEW p \in net, p.type = "DATA"
  PROVE  /\ NothingNew(p) => SR!NothingNew(p)
         /\ Accept(p) => SR!Accept(p, next_expected + 1)
         /\ p.seq = next_expected /\ Writes(p) => SR!Writes(p, next_expected + 1)
<1> DEFINE n == next_expected + 1
           got == SR!Buffered(p)
<1>1. p.seq \in Nat /\ next_expected \in Nat \ {0}
  BY Found, Parameters
<1>2. ASSUME NothingNew(p)
      PROVE  SR!NothingNew(p)
  <2>1. SR!TooFar(p) <=> p.seq > next_expected
    BY <1>1 DEF SR!TooFar
  <2>2. SR!Repeated(p) <=> p.seq < next_expected
    BY DEF SR!Repeated
  <2>3. \/ SR!TooFar(p) /\ SR!Exchange(p, {})
        \/ ~SR!TooFar(p) /\ SR!Repeated(p) /\ SR!Exchange(p, {SR!Ack(p.seq)})
    BY <1>1, <1>2, <2>1, <2>2, SamePackets, SameNetwork DEF NothingNew
  <2> QED
    BY <1>2, <2>3 DEF NothingNew, receiverVars, SR!NothingNew, SR!receiverVars
<1>3. ASSUME p.seq = next_expected
      PROVE  /\ ~SR!TooFar(p) /\ ~SR!Repeated(p)
             /\ DOMAIN got = {next_expected} /\ got[next_expected] = p.data
             /\ SR!DeliversTo(got, n)
  <2>1. DOMAIN got = {next_expected} /\ got[next_expected] = p.data
    BY <1>3 DEF SR!Buffered
  <2>2. n \in next_expected..(next_expected + 1) /\ next_expected..(n - 1) = {next_expected}
        /\ n \notin {next_expected}
    BY <1>1
  <2> QED
    BY <1>1, <1>3, <2>1, <2>2 DEF SR!TooFar, SR!Repeated, SR!DeliversTo
<1>4. ASSUME Accept(p)
      PROVE  SR!Accept(p, n)
  <2>1. p.seq = next_expected
    BY <1>4 DEF Accept
  <2>2. {s \in DOMAIN got : s >= n} = {}
    BY <1>1, <1>3, <2>1
  <2>3. [s \in {s \in DOMAIN got : s >= n} |-> got[s]] = [s \in {} |-> 0]
    BY <2>2
  <2> QED
    BY <1>3, <1>4, <2>1, <2>3, SamePackets, SameNetwork DEF Accept, SR!Accept
<1>5. ASSUME p.seq = next_expected, Writes(p)
      PROVE  SR!Writes(p, n)
  <2>1. n - next_expected = 1 /\ next_expected + 1 - 1 = next_expected
    BY <1>1
  <2>2. SR!Run(got, n) = <<p.data>>
    BY <1>3, <1>5, <2>1 DEF SR!Run
  <2>3. file \in Seq(1..N)
    BY DEF SRP!IInv, SRP!ReceiverInv
  <2>4. p.data \in 1..N
    <3>1. p \in SRP!PossiblePackets
      BY DEF SRP!IInv, SRP!NetInv
    <3> QED
      BY <3>1, SRP!Kinds, Parameters
  <2>5. Append(file, p.data) = file \o <<p.data>>
    BY <2>3, <2>4
  <2> QED
    BY <1>5, <2>2, <2>5 DEF Writes, SR!Writes
<1> QED
  BY <1>2, <1>4, <1>5
-----------------------------------------------------------------------------
(* The steps.                                                               *)

\* The handlers of the client.
LEMMA ClientMaps ==
  ASSUME SRP!IInv, NEW p \in net,
         ClientSynAck(p) \/ ClientAck(p) \/ ClientData(p)
  PROVE  SR!ClientSynAck(p) \/ SR!ClientAck(p) \/ SR!ClientData(p)
<1>1. CASE ClientSynAck(p)
  <2>1. pending = {} /\ cursor \in 0..N /\ p.type = "SYN_ACK" /\ base = seq_num
    BY <1>1, Found DEF ClientSynAck, ClientTakes, base
  <2>2. CASE op = "upload"
    <3>1. /\ HandleAck(cursor, {})
          /\ Exchange(p, {Ack(0)} \union {} \union NewPackets(cursor, {}))
      BY <1>1, <2>1, <2>2 DEF ClientSynAck
    <3>2. SR!HandleAck(cursor, 1, pending) /\ base' = base
      BY <2>1, <3>1, Pushes
    <3>3. SR!Exchange(p, {SR!Ack(0)} \union {} \union SR!NewPackets(cursor, 1, pending))
      BY <2>1, <3>1, Pushes, SamePackets, SameNetwork
    <3> QED
      BY <1>1, <2>2, <3>2, <3>3, SameNetwork
      DEF ClientSynAck, SR!ClientSynAck, receiverVars, SR!receiverVars, base
  <2>3. CASE op # "upload"
    BY <1>1, <2>3, SamePackets, SameNetwork
    DEF ClientSynAck, SR!ClientSynAck, receiverVars, SR!receiverVars, senderVars, SR!senderVars
  <2> QED
    BY <2>2, <2>3
<1>2. CASE ClientAck(p)
  <2>1. p.type = "ACK" /\ UNCHANGED receiverVars
    BY <1>2 DEF ClientAck, ClientTakes
  <2>2. CASE IgnoreAck(p)
    BY <1>2, <2>1, <2>2, Ignored, SameNetwork
    DEF ClientAck, SR!ClientAck, receiverVars, SR!receiverVars
  <2>3. CASE Acknowledges(p) /\ HandleAck(cursor, {}) /\ Exchange(p, NewPackets(cursor, {}))
             /\ UNCHANGED worker
    <3>1. /\ SR!Unacked(p.seq) = {} /\ p.seq = base /\ base \in Nat /\ seq_num - base = 1
          /\ SR!SlidesTo({}, seq_num) /\ seq_num \in base..seq_num
      BY <2>3, Slides
    <3>2. SR!HandleAck(cursor, 1, {}) /\ base' = seq_num
          /\ SR!Exchange(p, {} \union SR!NewPackets(cursor, 1, {}))
      BY <2>3, Pushes, Found, SameNetwork
    <3>3. p.seq >= base
      BY <3>1
    <3>4. \E b \in base..seq_num, late \in SUBSET SR!Unacked(p.seq) :
            /\ SR!SlidesTo(SR!Unacked(p.seq), b)
            /\ base' = b
            /\ SR!HandleAck(cursor, b - base, SR!Unacked(p.seq))
            /\ SR!Exchange(p, late \union SR!NewPackets(cursor, b - base, SR!Unacked(p.seq)))
      BY <3>1, <3>2
    <3>5. /\ SR!ClientTakes(p, "ACK") /\ client = "transferring"
          /\ UNCHANGED <<op, client, handle>>
      BY <1>2, SameNetwork DEF ClientAck
    <3> QED
      BY <2>1, <2>3, <3>3, <3>4, <3>5
      DEF SR!ClientAck, receiverVars, SR!receiverVars, base
  <2> QED
    BY <1>2, <2>2, <2>3 DEF ClientAck
<1>3. CASE ClientData(p)
  <2>1. p.type = "DATA" /\ UNCHANGED senderVars
    BY <1>3 DEF ClientData, ClientTakes
  <2>2. CASE NothingNew(p)
    BY <1>3, <2>1, <2>2, Receives, SameNetwork
    DEF ClientData, SR!ClientData, senderVars, SR!senderVars
  <2>3. CASE Accept(p) /\ Writes(p) /\ UNCHANGED worker
    <3>1. SR!Accept(p, next_expected + 1) /\ SR!Writes(p, next_expected + 1)
      BY <2>1, <2>3, Receives DEF Accept
    <3>2. next_expected + 1 \in next_expected..(next_expected + 1)
      BY Found
    <3> QED
      BY <1>3, <2>1, <2>3, <3>1, <3>2, SameNetwork
      DEF ClientData, SR!ClientData, senderVars, SR!senderVars
  <2> QED
    BY <1>3, <2>2, <2>3 DEF ClientData
<1> QED
  BY <1>1, <1>2, <1>3

\* The worker of a download.
LEMMA SourceMaps ==
  ASSUME SRP!IInv, NEW p \in net,
         WorkerOpens(p) \/ WorkerOpenFails(p) \/ WorkerAck(p)
  PROVE  SR!WorkerOpens(p) \/ SR!WorkerOpenFails(p) \/ SR!WorkerAck(p)
<1>1. CASE WorkerOpens(p)
  <2>1. pending = {} /\ base = seq_num /\ 0 \in 0..N
    BY <1>1, Found, Parameters DEF WorkerOpens, WorkerTakes, base
  <2>2. HandleAck(0, {}) /\ Exchange(p, NewPackets(0, {}))
    BY <1>1, <2>1 DEF WorkerOpens
  <2>3. /\ SR!HandleAck(0, 1, pending) /\ base' = base
        /\ SR!Exchange(p, SR!NewPackets(0, 1, pending))
    BY <2>1, <2>2, Pushes, SameNetwork
  <2> QED
    BY <1>1, <2>3, SameNetwork
    DEF WorkerOpens, SR!WorkerOpens, receiverVars, SR!receiverVars, base
<1>2. CASE WorkerOpenFails(p)
  BY <1>2, SameNetwork DEF WorkerOpenFails, SR!WorkerOpenFails, receiverVars,
     SR!receiverVars
<1>3. CASE WorkerAck(p)
  <2>1. p.type = "ACK" /\ op = "download" /\ UNCHANGED receiverVars
    BY <1>3 DEF WorkerAck, WorkerTakes
  <2>2. CASE IgnoreAck(p)
    BY <1>3, <2>1, <2>2, Ignored, SameNetwork
    DEF WorkerAck, SR!WorkerAck, receiverVars, SR!receiverVars
  <2>3. CASE Acknowledges(p) /\ HandleAck(cursor, {}) /\ Exchange(p, NewPackets(cursor, {}))
             /\ UNCHANGED worker
    <3>1. /\ SR!Unacked(p.seq) = {} /\ p.seq = base /\ base \in Nat /\ seq_num - base = 1
          /\ SR!SlidesTo({}, seq_num) /\ seq_num \in base..seq_num
      BY <2>3, Slides
    <3>2. SR!HandleAck(cursor, 1, {}) /\ base' = seq_num
          /\ SR!Exchange(p, SR!NewPackets(cursor, 1, {}))
      BY <2>3, Pushes, Found, SameNetwork
    <3>3. p.seq >= base
      BY <3>1
    <3>4. \E b \in base..seq_num :
            /\ SR!SlidesTo(SR!Unacked(p.seq), b)
            /\ base' = b
            /\ SR!HandleAck(cursor, b - base, SR!Unacked(p.seq))
            /\ SR!Exchange(p, SR!NewPackets(cursor, b - base, SR!Unacked(p.seq)))
      BY <3>1, <3>2
    <3>5. handle = "open"
      <4>1. PICK q \in pending : q.seq = p.seq
        BY <2>3 DEF Acknowledges
      <4>2. q.seq \in 1..(N + 1)
        BY OnePending
      <4>3. p.seq \in 1..N
        BY <2>1, <4>1, <4>2, Found
      <4> QED
        BY <2>1, <4>1, <4>3, OpenWhileSending, Parameters
    <3>6. SR!WorkerTakes(p, "ACK") /\ UNCHANGED <<op, client, handle>>
      BY <1>3, SameNetwork DEF WorkerAck
    <3> QED
      BY <2>1, <2>3, <3>3, <3>4, <3>5, <3>6
      DEF SR!WorkerAck, receiverVars, SR!receiverVars, base
  <2> QED
    BY <1>3, <2>2, <2>3 DEF WorkerAck
<1> QED
  BY <1>1, <1>2, <1>3

\* The worker of an upload.
LEMMA DestinationMaps ==
  ASSUME SRP!IInv, NEW p \in net,
         WorkerCreates(p) \/ WorkerData(p) \/ WorkerDataFails(p)
  PROVE  SR!WorkerCreates(p) \/ SR!WorkerData(p) \/ SR!WorkerDataFails(p)
<1> DEFINE n == next_expected + 1
<1>0. /\ n \in next_expected..(next_expected + 1)
      /\ n \in (next_expected + 1)..(next_expected + 1)
  BY Found
<1>1. CASE WorkerCreates(p)
  BY <1>1, SameNetwork DEF WorkerCreates, SR!WorkerCreates, senderVars, SR!senderVars
<1>2. CASE WorkerData(p)
  <2>1. p.type = "DATA" /\ UNCHANGED senderVars
    BY <1>2 DEF WorkerData, WorkerTakes
  <2>2. CASE NothingNew(p)
    BY <1>2, <2>1, <2>2, Receives, SameNetwork
    DEF WorkerData, SR!WorkerData, senderVars, SR!senderVars
  <2>3. CASE handle = "open" /\ Accept(p) /\ Writes(p) /\ UNCHANGED worker
    <3>1. SR!Accept(p, n) /\ SR!Writes(p, n)
      BY <2>1, <2>3, Receives DEF Accept
    <3> QED
      BY <1>0, <1>2, <2>1, <2>3, <3>1, SameNetwork
      DEF WorkerData, SR!WorkerData, senderVars, SR!senderVars
  <2> QED
    BY <1>2, <2>2, <2>3 DEF WorkerData
<1>3. CASE WorkerDataFails(p)
  <2>1. SR!Accept(p, n)
    BY <1>3, Receives DEF WorkerDataFails, WorkerTakes
  <2> QED
    BY <1>0, <1>3, <2>1, SameNetwork
    DEF WorkerDataFails, SR!WorkerDataFails, senderVars, SR!senderVars
<1> QED
  BY <1>1, <1>2, <1>3

\* A new thread, and the steps that leave the protocol objects alone.
LEMMA SessionMaps ==
  ASSUME NEW p, Start(p) \/ SessionStep(p) \/ Disturb(p)
  PROVE  SR!Start(p) \/ SR!SessionStep(p) \/ SR!Disturb(p)
<1>1. CASE Start(p)
  BY <1>1, SameSession DEF Start, SR!Start, SR!NoChunks
<1>2. CASE SessionStep(p)
  BY <1>2, SameSession DEF SessionStep, SR!SessionStep, protocolVars
<1>3. CASE Disturb(p)
  BY <1>3, SameSession DEF Disturb, SR!Disturb, protocolVars
<1> QED
  BY <1>1, <1>2, <1>3

\* The waits that end without a packet.
LEMMA TimeoutMaps ==
  ASSUME ClientTimeout \/ WorkerTimeout \/ GiveUp
  PROVE  SR!ClientTimeout \/ SR!WorkerTimeout \/ SR!GiveUp
<1>1. CASE ClientTimeout
  BY <1>1 DEF ClientTimeout, SR!ClientTimeout, Resend, SR!Resend, protocolVars
<1>2. CASE WorkerTimeout
  BY <1>2 DEF WorkerTimeout, SR!WorkerTimeout, Resend, SR!Resend, protocolVars
<1>3. CASE GiveUp
  BY <1>3
  DEF GiveUp, SR!GiveUp, ConnectTimeout, SR!ConnectTimeout, WorkerInactive, SR!WorkerInactive,
      protocolVars
<1> QED
  BY <1>1, <1>2, <1>3

\* Every step of Stop and Wait is one of Selective Repeat.
LEMMA StepMaps ==
  ASSUME SRP!IInv, [Next]_vars
  PROVE  [SR!Next]_(SR!vars)
<1>1. ASSUME NEW p \in net, Deliver(p) \/ Disturb(p)
      PROVE  SR!Deliver(p) \/ SR!Disturb(p)
  BY <1>1, ClientMaps, SourceMaps, DestinationMaps, SessionMaps DEF Deliver, SR!Deliver
<1>2. CASE Next
  BY <1>1, <1>2, TimeoutMaps DEF Next, SR!Next
<1>3. CASE UNCHANGED vars
  BY <1>3 DEF vars, sessionVars, protocolVars, SR!vars, SR!sessionVars
<1> QED
  BY <1>2, <1>3

\* Both instances begin alike.
LEMMA SameInit == ASSUME SR!Init PROVE SRP!Init
  BY SamePackets DEF SR!Init, SRP!Init, SR!SessionInit, SRP!SessionInit, SR!NoChunks,
     SRP!NoChunks

\* Stop and Wait begins as Selective Repeat does.
LEMMA InitMaps == Init => SR!Init
  BY SamePackets DEF Init, SR!Init, SessionInit, SR!SessionInit, SR!NoChunks

\* SYN, SYN_ACK and ACK 0 arrive once.
OnceOnly == "duplicate" \notin Faults

\* The invariant of Selective Repeat holds of the mapped state.
THEOREM MappedInvariance == OnceOnly /\ Spec => []SRP!IInv
<1>1. OnceOnly /\ Init => SRP!IInv /\ OnceOnly
  BY InitMaps, SameInit, SRP!InitInv, Parameters
<1>2. SRP!IInv /\ OnceOnly /\ [Next]_vars => (SRP!IInv /\ OnceOnly)'
  BY StepMaps, SameStep, SRP!NextInv, Parameters DEF OnceOnly, SRP!OnceOnly
<1> QED
  BY <1>1, <1>2, PTL DEF Spec

\* Stop and Wait is Selective Repeat with a window of one, for files of any
\* length: whatever Selective Repeat promises of a transfer it promises too
\* (stop_and_wait.py, selective_repeat.py).
THEOREM ImplementsCorrect == OnceOnly /\ Spec => ImplementsSelectiveRepeat
<1>1. Init => SR!Init
  BY InitMaps
<1>2. SRP!IInv /\ [Next]_vars => [SR!Next]_(SR!vars)
  BY StepMaps
<1> QED
  BY <1>1, <1>2, MappedInvariance, PTL DEF Spec, ImplementsSelectiveRepeat, SR!Spec

\* So what SelectiveRepeatProofs proves of Selective Repeat holds of the mapped
\* state.
LEMMA MapsToProved ==
  /\ OnceOnly /\ Spec => SRP!Spec
  /\ OnceOnly <=> SRP!OnceOnly
<1>1. Init => SRP!Init
  BY InitMaps, SameInit
<1>2. SRP!IInv /\ [Next]_vars => [SRP!Next]_(SRP!vars)
  BY StepMaps, SameStep
<1>3. OnceOnly /\ Spec => SRP!Spec
  BY <1>1, <1>2, MappedInvariance, PTL DEF Spec, SRP!Spec
<1>4. OnceOnly <=> SRP!OnceOnly
  BY DEF OnceOnly, SRP!OnceOnly
<1> QED
  BY <1>3, <1>4

\* The two ends of a Stop and Wait transfer keep the promises of FileTransfer: the
\* copy grows by the next chunks of the source, and is complete when the client
\* ends normally (Server._handle_data, Client.handle_data).
THEOREM TransferCorrect == OnceOnly /\ N # 0 /\ Spec => SRP!ImplementsFileTransfer
  BY MapsToProved, SRP!Refinement, Parameters

\* The copy made by Stop and Wait is a prefix of the file at any moment.
THEOREM PrefixCorrect == OnceOnly /\ Spec => []SRP!FileIsPrefix
  BY MapsToProved, SRP!PrefixCorrect, Parameters

\* A client that ends normally has copied the file, unless it is empty.
THEOREM CompleteCorrect == OnceOnly /\ N # 0 /\ Spec => []SRP!DoneMeansComplete
  BY MapsToProved, SRP!CompleteCorrect, Parameters

\* A copy whose client has ended normally is never touched again.
THEOREM FinalCorrect == OnceOnly /\ N # 0 /\ Spec => SRP!Final
  BY MapsToProved, SRP!FinalCorrect, Parameters
-----------------------------------------------------------------------------
(* CLOSE, whatever arrives twice.                                           *)

\* A packet the receiver's number bears out: it acknowledges, and closes, what
\* was received.
Sound(p) ==
  /\ p.seq \in Nat
  /\ p.type = "ACK" /\ p.seq # 0 => p.seq < next_expected
  /\ p.type = "CLOSE" => p.seq <= next_expected

\* When nothing is pending the receiver has every number that was given; and a
\* thread that starts on an upload finds no object to replace.
CloseInv ==
  /\ op \in {"upload", "download"}
  /\ seq_num \in Nat \ {0} /\ next_expected \in Nat \ {0}
  /\ \A p \in net \union pending : Sound(p)
  /\ \A q \in pending : q.seq = seq_num - 1 /\ q.seq # 0 /\ q.type \in {"DATA", "CLOSE"}
  /\ pending = {} => seq_num <= next_expected
  /\ op = "upload" => worker # "finished" /\ (worker = "none" => next_expected = 1)

\* The fields of the packets the program makes.
LEMMA Fields ==
  /\ Syn.type = "SYN" /\ Syn.seq = 0
  /\ SynAck.type = "SYN_ACK" /\ SynAck.seq = 0
  /\ FinAck.type = "CLOSE_ACK" /\ FinAck.seq = 0
  /\ \A s : Ack(s).type = "ACK" /\ Ack(s).seq = s
  /\ \A s, c : Data(s, c).type = "DATA" /\ Data(s, c).seq = s
  /\ \A s : Fin(s).type = "CLOSE" /\ Fin(s).seq = s
  BY DEF Syn, SynAck, FinAck, Ack, Data, Fin, Packet

\* A step that sends sound packets, and leaves the objects alone.
LEMMA SendStep ==
  ASSUME CloseInv, \A p \in net' : p \in net \/ Sound(p),
         UNCHANGED <<op, protocolVars>>,
         op = "upload" => worker' # "finished" /\ (worker' = "none" => worker = "none")
  PROVE  CloseInv'
<1>1. \A p : Sound(p)' = Sound(p)
  BY DEF Sound, protocolVars
<1> QED
  BY <1>1 DEF CloseInv, protocolVars

\* A delivery adds its replies only.
LEMMA Exchanged ==
  ASSUME NEW p, NEW replies, Exchange(p, replies)
  PROVE  net' \subseteq net \union replies
  BY DEF Exchange

\* handle_ack, when the receiver has what was given a number or something is
\* pending still.
LEMMA PushStep ==
  ASSUME CloseInv, NEW at, NEW win \in SUBSET pending, win = {} => seq_num <= next_expected,
         HandleAck(at, win),
         \A p \in net' : p \in net \/ p \in NewPackets(at, win) \/ Sound(p),
         UNCHANGED <<op, worker, next_expected>>
  PROVE  CloseInv'
<1>1. \A p : Sound(p)' = Sound(p)
  BY DEF Sound
<1>2. \A p \in NewPackets(at, win) :
        Sound(p) /\ p.seq = seq_num /\ p.type \in {"DATA", "CLOSE"}
  BY Fields DEF CloseInv, NewPackets, Sound
<1>3. CASE NewPackets(at, win) = {}
  <2>1. pending' = win /\ seq_num' = seq_num /\ win # {}
    BY <1>3 DEF HandleAck, NewPackets
  <2> QED
    BY <1>1, <1>3, <2>1 DEF CloseInv
<1>4. CASE NewPackets(at, win) # {}
  <2>1. pending' = NewPackets(at, win) /\ seq_num' = seq_num + 1
    BY <1>4 DEF HandleAck
  <2> QED
    BY <1>1, <1>2, <1>4, <2>1 DEF CloseInv
<1> QED
  BY <1>3, <1>4

\* An acknowledgement leaves nothing pending only if the receiver has the number.
LEMMA AckedStep ==
  ASSUME CloseInv, NEW p \in net, p.type = "ACK", Acknowledges(p)
  PROVE  seq_num <= next_expected
<1>1. PICK q \in pending : q.seq = p.seq
  BY DEF Acknowledges
<1> QED
  BY <1>1 DEF CloseInv, Sound

\* DATA: the receiver's number grows.
LEMMA DataStep ==
  ASSUME CloseInv, NEW p \in net, Accept(p), UNCHANGED <<op, seq_num, pending>>,
         worker # "none" \/ op = "download",
         op = "upload" => worker' \notin {"none", "finished"}
  PROVE  CloseInv'
<1>1. next_expected' = next_expected + 1 /\ net' \subseteq net \union {Ack(next_expected)}
  BY Exchanged DEF Accept
<1>2. ASSUME NEW q, Sound(q) PROVE Sound(q)'
  BY <1>1, <1>2 DEF Sound, CloseInv
<1>3. ASSUME NEW q, q = Ack(next_expected) PROVE Sound(q)'
  <2>1. q.type = "ACK" /\ q.seq = next_expected
    BY <1>3, Fields
  <2>2. next_expected \in Nat /\ next_expected < next_expected'
    BY <1>1 DEF CloseInv
  <2> QED
    BY <2>1, <2>2 DEF Sound
<1>4. \A q \in net' \union pending' : Sound(q)'
  BY <1>1, <1>2, <1>3 DEF CloseInv
<1>5. next_expected' \in Nat \ {0} /\ (pending' = {} => seq_num' <= next_expected')
  BY <1>1 DEF CloseInv
<1> QED
  BY <1>4, <1>5 DEF CloseInv

\* Whatever arrives.
LEMMA DeliverClose ==
  ASSUME CloseInv, NEW p \in net, Deliver(p)
  PROVE  CloseInv'
<1>a. Sound(Ack(0)) /\ Sound(Syn) /\ Sound(SynAck) /\ Sound(FinAck)
  BY Fields DEF Sound
<1>b. \A q \in pending : Sound(q)
  BY DEF CloseInv
<1>1. CASE ClientSynAck(p)
  <2>1. UNCHANGED <<op, worker, next_expected>>
    BY <1>1 DEF ClientSynAck, receiverVars
  <2>2. CASE op = "upload"
    <3>1. PICK late \in SUBSET pending :
            Exchange(p, {Ack(0)} \union late \union NewPackets(cursor, pending))
      BY <1>1, <2>2 DEF ClientSynAck
    <3>2. net' \subseteq net \union ({Ack(0)} \union late) \union NewPackets(cursor, pending)
      BY <3>1, Exchanged
    <3>3. HandleAck(cursor, pending)
      BY <1>1, <2>2 DEF ClientSynAck
    <3>4. \A q \in {Ack(0)} \union late : Sound(q)
      BY <1>a, <1>b
    <3>5. pending = {} => seq_num <= next_expected
      BY DEF CloseInv
    <3> QED
      BY <2>1, <3>2, <3>3, <3>4, <3>5, PushStep
  <2>3. CASE op # "upload"
    <3>1. Exchange(p, {Ack(0)}) /\ UNCHANGED protocolVars
      BY <1>1, <2>3 DEF ClientSynAck, senderVars, receiverVars, protocolVars
    <3> QED
      BY <1>a, <2>1, <2>3, <3>1, Exchanged, SendStep
  <2> QED
    BY <2>2, <2>3
<1>2. ASSUME IgnoreAck(p), UNCHANGED <<op, receiverVars>> PROVE CloseInv'
  <2>1. net' \subseteq net \union {} /\ UNCHANGED <<protocolVars, worker>>
    BY <1>2, Exchanged DEF IgnoreAck, senderVars, receiverVars, protocolVars
  <2> QED
    BY <1>2, <2>1, SendStep DEF CloseInv
<1>3. ASSUME p.type = "ACK", Acknowledges(p), HandleAck(cursor, {}),
             Exchange(p, NewPackets(cursor, {})), UNCHANGED <<op, worker, receiverVars>>
      PROVE  CloseInv'
  <2>1. net' \subseteq net \union {} \union NewPackets(cursor, {}) /\ {} \in SUBSET pending
    BY <1>3, Exchanged
  <2> QED
    BY <1>3, <2>1, AckedStep, PushStep DEF receiverVars
<1>4. CASE ClientAck(p) \/ WorkerAck(p)
  BY <1>2, <1>3, <1>4 DEF ClientAck, WorkerAck, ClientTakes, WorkerTakes
<1>5. ASSUME NothingNew(p), UNCHANGED <<op, senderVars>> PROVE CloseInv'
  <2>1. UNCHANGED <<protocolVars, worker>>
    BY <1>5 DEF NothingNew, senderVars, receiverVars, protocolVars
  <2>2. CASE p.seq < next_expected /\ Exchange(p, {Ack(p.seq)})
    <3>1. Sound(Ack(p.seq))
      BY <2>2, Fields DEF Sound, CloseInv
    <3> QED
      BY <1>5, <2>1, <2>2, <3>1, Exchanged, SendStep DEF CloseInv
  <2>3. CASE Exchange(p, {})
    BY <1>5, <2>1, <2>3, Exchanged, SendStep DEF CloseInv
  <2> QED
    BY <1>5, <2>2, <2>3 DEF NothingNew
<1>6. CASE ClientData(p)
  <2>1. op = "download" /\ UNCHANGED <<op, senderVars>>
    BY <1>6 DEF ClientData, ClientTakes, ToServer, CloseInv
  <2> QED
    BY <1>5, <1>6, <2>1, DataStep DEF ClientData, senderVars
<1>7. CASE WorkerData(p) \/ WorkerDataFails(p)
  <2>1. worker = "running" /\ UNCHANGED <<op, senderVars>>
    BY <1>7 DEF WorkerData, WorkerDataFails, WorkerTakes
  <2> QED
    BY <1>5, <1>7, <2>1, DataStep DEF WorkerData, WorkerDataFails, senderVars
<1>8. CASE Start(p)
  <2>1. /\ net' \subseteq net \union {SynAck} /\ worker' = "running" /\ UNCHANGED op
        /\ worker \in {"none", "finished"}
    BY <1>8, Exchanged DEF Start, WorkerStart, Spawns
  <2>2. CASE op = "upload"
    <3>1. UNCHANGED protocolVars
      BY <1>8, <2>1, <2>2 DEF Start, CloseInv, protocolVars
    <3> QED
      BY <1>a, <2>1, <3>1, SendStep
  <2>3. CASE op # "upload"
    <3>1. seq_num' = 1 /\ pending' = {} /\ UNCHANGED next_expected
      BY <1>8, <2>3 DEF Start
    <3>2. \A q : Sound(q)' = Sound(q)
      BY <3>1 DEF Sound
    <3> QED
      BY <1>a, <2>1, <2>3, <3>1, <3>2 DEF CloseInv
  <2> QED
    BY <2>2, <2>3
<1>9. CASE WorkerCreates(p)
  <2>1. net' \subseteq net \union {} /\ UNCHANGED <<op, worker, protocolVars>>
    BY <1>9, Exchanged DEF WorkerCreates, senderVars, protocolVars
  <2> QED
    BY <2>1, SendStep DEF CloseInv
<1>10. CASE WorkerOpens(p)
  <2>1. /\ net' \subseteq net \union {} \union NewPackets(0, pending)
        /\ HandleAck(0, pending) /\ UNCHANGED <<op, worker, next_expected>>
    BY <1>10, Exchanged DEF WorkerOpens, receiverVars
  <2>2. pending = {} => seq_num <= next_expected
    BY DEF CloseInv
  <2> QED
    BY <2>1, <2>2, PushStep
<1>11. CASE WorkerOpenFails(p)
  <2>1. /\ net' \subseteq net \union {} /\ worker' = "crashed"
        /\ UNCHANGED <<op, protocolVars>>
    BY <1>11, Exchanged DEF WorkerOpenFails, receiverVars, protocolVars
  <2> QED
    BY <2>1, SendStep
<1>12. CASE SessionStep(p)
  <2>1. UNCHANGED <<op, protocolVars>>
    BY <1>12 DEF SessionStep, ClientClose, ClientCloseFin, WorkerOversized, WorkerRefuses,
         WorkerSynAgain, WorkerClose, WorkerCloseFin, Swallow
  <2>2. net' \subseteq net \union {SynAck, FinAck}
    BY <1>12, Exchanged DEF SessionStep, ClientClose, ClientCloseFin, WorkerOversized,
         WorkerRefuses, WorkerSynAgain, WorkerClose, WorkerCloseFin, Swallow
  <2>3. op = "upload" => worker' # "finished" /\ (worker' = "none" => worker = "none")
    <3>1. WorkerCloseFin(p) => op # "upload"
      BY DEF WorkerCloseFin, WorkerTakes, ToServer
    <3> QED
      BY <1>12, <3>1 DEF SessionStep, ClientClose, ClientCloseFin, WorkerOversized,
         WorkerRefuses, WorkerSynAgain, WorkerClose, Swallow, CloseInv
  <2> QED
    BY <1>a, <2>1, <2>2, <2>3, SendStep
<1> QED
  BY <1>1, <1>4, <1>6, <1>7, <1>8, <1>9, <1>10, <1>11, <1>12 DEF Deliver

\* CLOSE means that everything was received, also when SYN_ACK or ACK 0 arrive
\* twice and make the sender drop what was pending (_handle_ack, handle_ack).
THEOREM CloseCorrect == Spec => []CloseMeansReceived
<1>1. Init => CloseInv
  BY Fields DEF Init, SessionInit, CloseInv, Sound
<1>2. CloseInv /\ [Next]_vars => CloseInv'
  <2> SUFFICES ASSUME CloseInv, [Next]_vars PROVE CloseInv'
    OBVIOUS
  <2>1. ASSUME NEW p \in net, Disturb(p) PROVE CloseInv'
    <3>1. net' \subseteq net \union {} /\ UNCHANGED <<op, protocolVars>>
          /\ (worker' = worker \/ worker' = "crashed")
      BY <2>1, Exchanged DEF Disturb, Lose, DeliverCorrupt
    <3> QED
      BY <3>1, SendStep DEF CloseInv
  <2>2. CASE ClientTimeout \/ WorkerTimeout
    <3>1. net' \subseteq net \union pending /\ UNCHANGED <<op, worker, protocolVars>>
      BY <2>2 DEF ClientTimeout, WorkerTimeout, Resend
    <3> QED
      BY <3>1, SendStep DEF CloseInv
  <2>3. CASE GiveUp
    <3>1. net' \subseteq net \union {} /\ UNCHANGED <<op, protocolVars>>
          /\ (worker' = worker \/ worker' = "inactive")
      BY <2>3 DEF GiveUp, ConnectTimeout, WorkerInactive
    <3> QED
      BY <3>1, SendStep DEF CloseInv
  <2>4. CASE UNCHANGED vars
    <3>1. net' \subseteq net \union {} /\ UNCHANGED <<op, worker, protocolVars>>
      BY <2>4 DEF vars, sessionVars, protocolVars
    <3> QED
      BY <3>1, SendStep DEF CloseInv
  <2> QED
    BY <2>1, <2>2, <2>3, <2>4, DeliverClose DEF Next
<1>3. CloseInv => CloseMeansReceived
  BY DEF CloseInv, Sound, CloseMeansReceived
<1> QED
  BY <1>1, <1>2, <1>3, PTL DEF Spec
-----------------------------------------------------------------------------
(* The pending packet, whatever arrives twice.                              *)

\* Types, with what they rest on: the chunks of DATA are those of a file.
PendingInv ==
  /\ TypeOK /\ NeverIdle
  /\ \A p \in net : p.type = "DATA" => p.data \in 1..N
  /\ \A p \in pending : p.type = "DATA" => p.data \in 1..N

PacketSet == [type : Types, seq : Nat, data : 0..N]
GoodPacket(p) == p \in PacketSet /\ (p.type = "DATA" => p.data \in 1..N)

LEMMA GoodPackets ==
  /\ GoodPacket(Syn) /\ GoodPacket(SynAck) /\ GoodPacket(FinAck)
  /\ \A s \in Nat : GoodPacket(Ack(s)) /\ GoodPacket(Fin(s))
  /\ \A s \in Nat, c \in 1..N : GoodPacket(Data(s, c))
  BY SessionAssumption DEF GoodPacket, PacketSet, Types, Syn, SynAck, FinAck, Ack, Fin, Data, Packet

\* The invariant, packet by packet.
LEMMA PendingForm ==
  PendingInv <=> /\ NeverIdle
                 /\ op \in {"upload", "download"}
                 /\ client \in {"connecting", "transferring", "done", "aborted"}
                 /\ worker \in {"none", "running", "finished", "refused", "crashed", "inactive"}
                 /\ handle \in {"none", "open", "closed"}
                 /\ cursor \in 0..N /\ file \in Seq(1..N)
                 /\ seq_num \in Nat \ {0} /\ next_expected \in Nat \ {0}
                 /\ \A p \in net \union pending : GoodPacket(p)
                 /\ \A p, q \in pending : p = q
  BY DEF PendingInv, TypeOK, GoodPacket, PacketSet

\* What the sessions' variables may become while nobody begins to send.
Threads ==
  /\ op' = op
  /\ client' \in {client, "done", "aborted"} \/ (client' = "transferring" /\ op = "download")
  /\ worker' \in {worker, "running", "finished", "refused", "crashed", "inactive"}
  /\ handle' \in {handle, "none", "closed", "open"}
  /\ Sending' => Sending

\* A step that sends good packets and leaves the sender alone.
LEMMA CalmStep ==
  ASSUME PendingInv, Threads, UNCHANGED <<seq_num, pending, cursor>>,
         file' \in Seq(1..N), next_expected' \in Nat \ {0},
         \A p \in net' : p \in net \/ GoodPacket(p)
  PROVE  PendingInv'
<1>1. \A p \in net' \union pending' : GoodPacket(p)
  BY PendingForm
<1>2. NeverIdle'
  BY PendingForm DEF Threads, NeverIdle
<1>3. /\ op' \in {"upload", "download"}
      /\ client' \in {"connecting", "transferring", "done", "aborted"}
      /\ worker' \in {"none", "running", "finished", "refused", "crashed", "inactive"}
      /\ handle' \in {"none", "open", "closed"}
  BY PendingForm DEF Threads
<1>4. (\A p \in net' \union pending' : GoodPacket(p)') /\ \A p, q \in pending' : p = q
  BY <1>1, PendingForm DEF GoodPacket, PacketSet
<1>5. PendingInv' <=> /\ NeverIdle'
                      /\ op' \in {"upload", "download"}
                      /\ client' \in {"connecting", "transferring", "done", "aborted"}
                      /\ worker' \in {"none", "running", "finished", "refused", "crashed", "inactive"}
                      /\ handle' \in {"none", "open", "closed"}
                      /\ cursor' \in 0..N /\ file' \in Seq(1..N)
                      /\ seq_num' \in Nat \ {0} /\ next_expected' \in Nat \ {0}
                      /\ \A p \in net' \union pending' : GoodPacket(p)'
                      /\ \A p, q \in pending' : p = q
  BY DEF PendingInv, TypeOK, GoodPacket, PacketSet
<1> QED
  BY <1>2, <1>3, <1>4, <1>5, PendingForm

\* handle_ack always leaves a packet pending: a chunk, CLOSE, or the one it had.
LEMMA HandleAckPends ==
  ASSUME PendingInv, NEW at \in 0..N, NEW waiting \in SUBSET pending,
         HandleAck(at, waiting)
  PROVE  /\ pending' # {} /\ \A p, q \in pending' : p = q
         /\ \A p \in pending' \union NewPackets(at, waiting) : GoodPacket(p)
         /\ seq_num' \in Nat \ {0} /\ cursor' \in 0..N
<1>0. seq_num \in Nat \ {0} /\ N \in Nat
  BY SessionAssumption, PendingForm
<1>1. CASE at < N
  <2>1. NewPackets(at, waiting) = {Data(seq_num, at + 1)} /\ at + 1 \in 1..N
    BY <1>0, <1>1 DEF NewPackets
  <2>2. GoodPacket(Data(seq_num, at + 1))
    BY <1>0, <2>1, GoodPackets
  <2>3. pending' = NewPackets(at, waiting) /\ seq_num' = seq_num + 1 /\ cursor' = at + 1
    BY <1>1, <2>1 DEF HandleAck
  <2> QED
    BY <1>0, <2>1, <2>2, <2>3
<1>2. CASE ~(at < N) /\ waiting = {}
  <2>1. NewPackets(at, waiting) = {Fin(seq_num)} /\ GoodPacket(Fin(seq_num))
    BY <1>0, <1>2, GoodPackets DEF NewPackets
  <2>2. pending' = NewPackets(at, waiting) /\ seq_num' = seq_num + 1 /\ cursor' = at
    BY <1>2, <2>1 DEF HandleAck
  <2> QED
    BY <1>0, <2>1, <2>2
<1>3. CASE ~(at < N) /\ waiting # {}
  <2>1. NewPackets(at, waiting) = {} /\ pending' = waiting /\ seq_num' = seq_num /\ cursor' = at
    BY <1>3 DEF NewPackets, HandleAck
  <2> QED
    BY <1>0, <1>3, <2>1, PendingForm
<1> QED
  BY <1>1, <1>2, <1>3

\* A step that handles an acknowledgement, or the end of the handshake.
LEMMA SendsStep ==
  ASSUME PendingInv, NEW at \in 0..N, NEW waiting \in SUBSET pending,
         HandleAck(at, waiting), UNCHANGED <<op, worker, file, next_expected>>,
         client' \in {client, "transferring"}, handle' \in {handle, "open"},
         \A p \in net' : p \in net \union pending \union NewPackets(at, waiting) \/ GoodPacket(p)
  PROVE  PendingInv'
<1>1. /\ pending' # {} /\ \A p, q \in pending' : p = q
      /\ \A p \in pending' \union NewPackets(at, waiting) : GoodPacket(p)
      /\ seq_num' \in Nat \ {0} /\ cursor' \in 0..N
  BY HandleAckPends, PendingForm
<1>2. \A p \in net' \union pending' : GoodPacket(p)'
  BY <1>1, PendingForm DEF GoodPacket, PacketSet
<1>3. NeverIdle'
  BY <1>1 DEF NeverIdle
<1>4. /\ op' \in {"upload", "download"}
      /\ client' \in {"connecting", "transferring", "done", "aborted"}
      /\ worker' \in {"none", "running", "finished", "refused", "crashed", "inactive"}
      /\ handle' \in {"none", "open", "closed"}
      /\ file' \in Seq(1..N) /\ next_expected' \in Nat \ {0}
  BY PendingForm
<1> QED
  BY <1>1, <1>2, <1>3, <1>4 DEF PendingInv, TypeOK, GoodPacket, PacketSet

\* DATA and its number: the chunk is appended or not.
LEMMA ReceiverStep ==
  ASSUME PendingInv, NEW p \in net, p.type = "DATA", UNCHANGED <<op, client, handle, senderVars>>,
         \/ NothingNew(p)
         \/ Accept(p) /\ Writes(p) /\ worker' = worker
         \/ Accept(p) /\ file' = file /\ worker' = "crashed"
  PROVE  PendingInv'
<1>0. /\ p \in PacketSet /\ p.data \in 1..N /\ p.seq \in Nat /\ next_expected \in Nat \ {0}
      /\ file \in Seq(1..N)
  BY PendingForm DEF GoodPacket, PacketSet
<1>1. GoodPacket(Ack(p.seq))
  BY <1>0, GoodPackets
<1>2. \A q \in net' : q \in net \/ GoodPacket(q)
  BY <1>1, Exchanged DEF NothingNew, Accept
<1>3. UNCHANGED <<seq_num, pending, cursor>>
  BY DEF senderVars
<1>4. next_expected' \in Nat \ {0} /\ file' \in Seq(1..N)
  <2>1. CASE NothingNew(p)
    BY <1>0, <2>1 DEF NothingNew, receiverVars
  <2>2. CASE Accept(p) /\ (Writes(p) \/ file' = file)
    <3>1. next_expected' = next_expected + 1
      BY <2>2 DEF Accept
    <3>2. \A c \in 1..N : Append(file, c) \in Seq(1..N)
      BY <1>0
    <3>3. file' \in Seq(1..N)
      BY <1>0, <2>2, <3>2 DEF Writes
    <3> QED
      BY <1>0, <3>1, <3>3
  <2> QED
    BY <2>1, <2>2
<1>5. Threads
  BY DEF Threads, Sending, NothingNew
<1> QED
  BY <1>2, <1>3, <1>4, <1>5, CalmStep

\* Whatever arrives.
LEMMA DeliverPends ==
  ASSUME PendingInv, NEW p \in net, Deliver(p)
  PROVE  PendingInv'
<1>a. /\ GoodPacket(Ack(0)) /\ GoodPacket(SynAck) /\ GoodPacket(FinAck)
  BY GoodPackets
<1>b. /\ cursor \in 0..N /\ 0 \in 0..N /\ file \in Seq(1..N) /\ next_expected \in Nat \ {0}
      /\ {} \in SUBSET pending /\ pending \in SUBSET pending
  BY SessionAssumption, PendingForm
<1>1. CASE ClientSynAck(p)
  <2>1. UNCHANGED <<op, worker, handle, file, next_expected>> /\ client' = "transferring"
    BY <1>1 DEF ClientSynAck, receiverVars
  <2>2. CASE op = "upload"
    <3>1. PICK late \in SUBSET pending :
            Exchange(p, {Ack(0)} \union late \union NewPackets(cursor, pending))
      BY <1>1, <2>2 DEF ClientSynAck
    <3>2. HandleAck(cursor, pending)
      BY <1>1, <2>2 DEF ClientSynAck
    <3>3. \A q \in net' : q \in net \union pending \union NewPackets(cursor, pending) \/ GoodPacket(q)
      BY <1>a, <3>1, Exchanged
    <3> QED
      BY <1>b, <2>1, <3>2, <3>3, SendsStep
  <2>3. CASE op # "upload"
    <3>1. Exchange(p, {Ack(0)}) /\ UNCHANGED <<seq_num, pending, cursor>> /\ op = "download"
      BY <1>1, <2>3 DEF ClientSynAck, senderVars
    <3>2. Threads
      BY <2>1, <3>1 DEF Threads, Sending
    <3> QED
      BY <1>a, <1>b, <2>1, <3>1, <3>2, Exchanged, CalmStep
  <2> QED
    BY <2>2, <2>3
<1>2. CASE ClientAck(p) \/ WorkerAck(p)
  <2>1. UNCHANGED <<op, client, handle, file, next_expected>>
    BY <1>2 DEF ClientAck, WorkerAck, receiverVars
  <2>2. CASE IgnoreAck(p)
    <3>1. UNCHANGED <<seq_num, pending, cursor, worker>> /\ Exchange(p, {})
      BY <2>2 DEF IgnoreAck, senderVars
    <3>2. Threads
      BY <2>1, <3>1 DEF Threads, Sending
    <3> QED
      BY <1>b, <2>1, <3>1, <3>2, Exchanged, CalmStep
  <2>3. CASE HandleAck(cursor, {}) /\ Exchange(p, NewPackets(cursor, {})) /\ worker' = worker
    BY <1>b, <2>1, <2>3, Exchanged, SendsStep
  <2> QED
    BY <1>2, <2>2, <2>3 DEF ClientAck, WorkerAck
<1>3. CASE ClientData(p) \/ WorkerData(p) \/ WorkerDataFails(p)
  BY <1>3, ReceiverStep DEF ClientData, ClientTakes, WorkerData, WorkerDataFails, WorkerTakes
<1>4. CASE Start(p)
  <2>1. /\ UNCHANGED <<op, client, cursor, file>> /\ worker' = "running" /\ handle' = "none"
        /\ Exchange(p, {SynAck})
    BY <1>4 DEF Start, WorkerStart
  <2>2. CASE op = "upload"
    <3>1. Threads
      BY <2>1, <2>2 DEF Threads, Sending
    <3>2. UNCHANGED <<seq_num, pending>> /\ next_expected' = 1
      BY <1>4, <2>2 DEF Start
    <3> QED
      BY <1>a, <1>b, <2>1, <3>1, <3>2, Exchanged, CalmStep
  <2>3. CASE op # "upload"
    <3>1. seq_num' = 1 /\ pending' = {} /\ UNCHANGED next_expected
      BY <1>4, <2>3 DEF Start
    <3>2. \A q \in net' \union pending' : GoodPacket(q)'
      BY <1>a, <2>1, <3>1, Exchanged, PendingForm DEF GoodPacket, PacketSet
    <3>3. NeverIdle'
      BY <2>1, <2>3 DEF NeverIdle, Sending
    <3> QED
      BY <2>1, <3>1, <3>2, <3>3, PendingForm DEF PendingInv, TypeOK, GoodPacket, PacketSet
  <2> QED
    BY <2>2, <2>3
<1>5. CASE WorkerCreates(p)
  <2>1. /\ UNCHANGED <<op, client, worker, seq_num, pending, cursor, next_expected>>
        /\ handle' = "open" /\ file' = <<>> /\ Exchange(p, {}) /\ op = "upload"
    BY <1>5 DEF WorkerCreates, senderVars
  <2>2. Threads
    BY <2>1 DEF Threads, Sending
  <2> QED
    BY <1>b, <2>1, <2>2, Exchanged, CalmStep
<1>6. CASE WorkerOpens(p)
  <2>1. /\ UNCHANGED <<op, client, worker, file, next_expected>> /\ handle' = "open"
        /\ HandleAck(0, pending) /\ Exchange(p, NewPackets(0, pending))
    BY <1>6 DEF WorkerOpens, receiverVars
  <2> QED
    BY <1>b, <2>1, Exchanged, SendsStep
<1>7. CASE WorkerOpenFails(p)
  <2>1. /\ UNCHANGED <<op, client, file, next_expected, seq_num, pending>> /\ worker' = "crashed"
        /\ cursor' \in {cursor, 0} /\ handle' \in {handle, "open"} /\ Exchange(p, {})
        /\ op = "download"
    BY <1>7 DEF WorkerOpenFails, receiverVars
  <2>2. NeverIdle'
    BY <2>1 DEF NeverIdle, Sending
  <2>3. \A q \in net' \union pending' : GoodPacket(q)'
    BY <2>1, Exchanged, PendingForm DEF GoodPacket, PacketSet
  <2> QED
    BY <1>b, <2>1, <2>2, <2>3, PendingForm DEF PendingInv, TypeOK, GoodPacket, PacketSet
<1>8. CASE SessionStep(p)
  <2>1. UNCHANGED <<seq_num, pending, cursor, file, next_expected>>
    BY <1>8 DEF SessionStep, ClientClose, ClientCloseFin, WorkerOversized, WorkerRefuses,
         WorkerSynAgain, WorkerClose, WorkerCloseFin, Swallow, protocolVars
  <2>2. net' \subseteq net \union {SynAck, FinAck}
    BY <1>8, Exchanged DEF SessionStep, ClientClose, ClientCloseFin, WorkerOversized,
         WorkerRefuses, WorkerSynAgain, WorkerClose, WorkerCloseFin, Swallow
  <2>3. /\ op' = op /\ client' \in {client, "done"} /\ handle' \in {handle, Closed}
        /\ worker' \in {worker, "crashed", "refused", "finished"}
    BY <1>8 DEF SessionStep, ClientClose, ClientCloseFin, WorkerOversized, WorkerRefuses,
         WorkerSynAgain, WorkerClose, WorkerCloseFin, Swallow
  <2>4. Threads
    BY <2>3 DEF Threads, Sending, Closed
  <2> QED
    BY <1>a, <1>b, <2>1, <2>2, <2>4, CalmStep
<1> QED
  BY <1>1, <1>2, <1>3, <1>4, <1>5, <1>6, <1>7, <1>8 DEF Deliver

\* The invariant is inductive, under every fault.
LEMMA PendingNext == ASSUME PendingInv, [Next]_vars PROVE PendingInv'
<1>b. /\ file \in Seq(1..N) /\ next_expected \in Nat \ {0}
      /\ \A p \in net \union pending : GoodPacket(p)
  BY PendingForm
<1>1. ASSUME NEW p \in net, Disturb(p) PROVE PendingInv'
  <2>1. /\ UNCHANGED <<op, handle, cursor, file, seq_num, pending, next_expected>>
        /\ client' \in {client, "aborted"} /\ worker' \in {worker, "crashed"}
        /\ net' \subseteq net
    BY <1>1, Exchanged DEF Disturb, Lose, DeliverCorrupt, protocolVars
  <2>2. Threads
    BY <2>1 DEF Threads, Sending
  <2> QED
    BY <1>b, <2>1, <2>2, CalmStep
<1>2. CASE ClientTimeout \/ WorkerTimeout \/ GiveUp \/ UNCHANGED vars
  <2>1. /\ UNCHANGED <<op, handle, cursor, file, seq_num, pending, next_expected>>
        /\ client' \in {client, "aborted"} /\ worker' \in {worker, "inactive"}
        /\ net' \subseteq net \union pending
    BY <1>2 DEF ClientTimeout, WorkerTimeout, GiveUp, ConnectTimeout, WorkerInactive, Resend,
         protocolVars, vars, sessionVars
  <2>2. Threads
    BY <2>1 DEF Threads, Sending
  <2> QED
    BY <1>b, <2>1, <2>2, CalmStep
<1> QED
  BY <1>1, <1>2, DeliverPends DEF Next

LEMMA PendingInit == Init => PendingInv
  BY SessionAssumption, GoodPackets, PendingForm DEF Init, SessionInit, NeverIdle, Sending

\* Every variable has its type and one packet at most is pending, under every
\* fault (push_payload, fin).
THEOREM TypeCorrect == Spec => []TypeOK
<1>1. PendingInv => TypeOK
  BY DEF PendingInv
<1> QED
  BY <1>1, PendingInit, PendingNext, PTL DEF Spec

\* The end that sends the file never waits with nothing to send again, under
\* every fault (handle_ack, get_timedouts).
THEOREM NeverIdleCorrect == Spec => []NeverIdle
<1>1. PendingInv => NeverIdle
  BY DEF PendingInv
<1> QED
  BY <1>1, PendingInit, PendingNext, PTL DEF Spec
=============================================================================

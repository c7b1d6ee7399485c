--------------------------- MODULE AddressSession ---------------------------
(***************************************************************************)
(* What tp1's server promises each client address, whatever its threads    *)
(* do: one session at a time, which takes packets of the address in the    *)
(* order they were received and ends in one of two ways.  A session closed *)
(* by CLOSE_ACK frees the address; one that dies keeps it, and none of the *)
(* packets of that address is taken ever after.  Nothing here knows of     *)
(* queues, locks or threads.                                               *)
(***************************************************************************)
EXTENDS Integers

CONSTANTS Addresses,
          MaxPackets    \* as in Server

VARIABLES received,     \* number of packets received
          session,      \* by address: none, open or dead
          handled       \* by address: the last of its packets that was taken

asVars == <<received, session, handled>>

ASInit ==
  /\ received = 0
  /\ session = [a \in Addresses |-> "none"]
  /\ handled = [a \in Addresses |-> 0]

\* A packet is received.  An address without a session gets one.
Arrive(a) ==
  /\ received < MaxPackets
  /\ received' = received + 1
  /\ session' = [session EXCEPT ![a] = IF @ = "none" THEN "open" ELSE @]
  /\ UNCHANGED handled

\* A later packet is taken, perhaps the last before the session dies.
Take(a) ==
  /\ session[a] = "open"
  /\ \E n \in (handled[a] + 1)..received : handled' = [handled EXCEPT ![a] = n]
  /\ \E s \in {"open", "dead"} : session' = [session EXCEPT ![a] = s]
  /\ UNCHANGED received

\* The session ends, by CLOSE_ACK or for lack of packets.
End(a, s) ==
  /\ session[a] = "open"
  /\ session' = [session EXCEPT ![a] = s]
  /\ UNCHANGED <<received, handled>>

ASNext == \E a \in Addresses : Arrive(a) \/ Take(a) \/ End(a, "none") \/ End(a, "dead")

ASSpec == ASInit /\ [][ASNext]_asVars
=============================================================================

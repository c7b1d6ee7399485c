----------------------------- MODULE IcmpHandler ------------------------------
(***************************************************************************)
(* The table of ICMP identifiers (icmp_handler.py): the table of           *)
(* NatHandler with identifiers for ports and the one protocol ICMP.  Every *)
(* function of icmp_handler.py has its counterpart in nat_handler.py.      *)
(***************************************************************************)
EXTENDS Integers

CONSTANTS
  Sessions,     \* pairs of a private address and an identifier
  Ids,          \* ICMP_ID_MIN..ICMP_ID_MAX
  EntryTimeout  \* ENTRY_TIMEOUT

VARIABLES
  icmp_table,    \* by protocol and session: the public identifier, and its age
  reverse_icmp,  \* by protocol and public identifier: the session
  icmp_id_pool   \* the free identifiers

icmpVars == <<icmp_table, reverse_icmp, icmp_id_pool>>

Table == INSTANCE NatHandler
  WITH Protocols <- {"ICMP"}, Endpoints <- Sessions, Ports <- Ids,
       nat_table <- icmp_table, reverse_nat <- reverse_icmp,
       public_port_pool <- icmp_id_pool

IcmpInit == Table!NatInit

\* create_entry: refused when no identifier is free, found or made.
RefuseEntry(s) == Table!Refuse(<<"ICMP", s>>)
CreateEntry(s) == Table!Find(<<"ICMP", s>>) \/ Table!Create(<<"ICMP", s>>)

\* get_reverse_entry: what it leaves, and the session it returns.
GetReverse == Table!Reap
HasReverse(id) == <<"ICMP", id>> \in Table!LiveReverse
Reverse(id) == reverse_icmp[<<"ICMP", id>>]

IcmpTick == Table!Tick
=============================================================================

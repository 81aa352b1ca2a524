----------------------------- MODULE RosterData -----------------------------
(***************************************************************************)
(* The roster of a network (app/roster.py): every member, online or not,   *)
(* with the virtual address it was given.  A roster is a total function    *)
(* here; a node that is not a member is mapped to NoAddr.                  *)
(*                                                                         *)
(* Nodes stand for SteamIDs and addresses for the hosts of the virtual     *)
(* subnet; both are positive numbers because the code orders them (the     *)
(* lowest SteamID is handed the lobby, the lowest free address is given).  *)
(***************************************************************************)
EXTENDS Naturals

CONSTANTS Node, Addr

ASSUME NodeAssumption == Node \subseteq Nat \ {0}
ASSUME AddrAssumption == Addr \subseteq Nat \ {0} /\ Addr # {}

NoNode == 0
NoAddr == 0

Roster == [Node -> Addr \cup {NoAddr}]

\* roster {} and, as lobby metadata, the empty text.
Empty == [m \in Node |-> NoAddr]

Members(r) == {m \in Node : r[m] # NoAddr}

Used(r) == {r[m] : m \in Members(r)}

Free(r) == Addr \ Used(r)

\* What decode() insists on: no two members share an address.
WellFormed(r) == \A m, o \in Members(r) : r[m] = r[o] => m = o

Lowest(S) == CHOOSE x \in S : \A y \in S : x <= y

\* assign() raises ValueError: a new member and no free address.
Full(r, m) == r[m] = NoAddr /\ Free(r) = {}

\* Mutant of Assign: the lowest address, without looking at those in use.
AssignLowest(r, m, wanted) ==
  IF r[m] # NoAddr \/ Full(r, m) THEN r
  ELSE [r EXCEPT ![m] = IF wanted \in Free(r) THEN wanted ELSE Lowest(Addr)]

\* assign(): a member keeps its address, a new one gets the address it asks
\* for when that is free, and otherwise the lowest free one.
Assign(r, m, wanted) ==
  IF r[m] # NoAddr \/ Full(r, m) THEN r
  ELSE [r EXCEPT ![m] = IF wanted \in Free(r) THEN wanted ELSE Lowest(Free(r))]

Without(r, gone) == [m \in Node |-> IF m \in gone THEN NoAddr ELSE r[m]]
=============================================================================

----------------------------- MODULE MCTraffic -----------------------------
(***************************************************************************)
(* Small instances of Traffic for TLC.                                     *)
(***************************************************************************)
EXTENDS Traffic

Bounds(loss, delay, break, outage, learn, packet) ==
  [loss |-> loss, delay |-> delay, break |-> break, outage |-> outage, learn |-> learn,
   packet |-> packet]

\* PC 1 has the first address; PC 2 the second, none, or another one.
ThreeRosters == {<<1, 2>>, <<1, 0>>, <<1, 3>>}

Ip(s, d) == [source |-> s, destination |-> d, carried |-> TRUE]

\* To the other member, to everyone, to nobody; a packet sent back; IGMP.
SomePackets == {Ip(1, 2), Ip(2, 1), Ip(1, Everyone), Ip(2, Everyone), Ip(1, Outside),
                [Ip(1, Everyone) EXCEPT !.carried = FALSE]}

TrafficLimit == Bounds(1, 2, 1, 1, 2, 1)

\* Two of anything, or a packet between two changes of a roster.
TrafficCost == Bounds(3, 3, 3, 3, 2, 2)
=============================================================================

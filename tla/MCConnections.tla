--------------------------- MODULE MCConnections ---------------------------
(***************************************************************************)
(* Small instances of Connections for TLC: bounds on what may happen to    *)
(* <<PC 1, PC 2>>, of which PC 1 connects.                                 *)
(***************************************************************************)
EXTENDS Connections

Bounds(enter, fail, deny, outage, send) ==
  [enter |-> enter, fail |-> fail, deny |-> deny, outage |-> outage, send |-> send]

\* Each comes once; PC 1 has a connection fail and loses Steam; PC 2 speaks
\* twice and closes on purpose once.
WearLimit == Bounds(<<1, 1>>, <<1, 0>>, <<0, 1>>, <<1, 0>>, <<0, 1>>)

\* Both come once, nothing fails, and PC 2 speaks once.
FarewellLimit == Bounds(<<1, 1>>, <<0, 0>>, <<0, 0>>, <<0, 0>>, <<0, 1>>)
=============================================================================

-------------------------- MODULE MCAdapterHelper --------------------------
(***************************************************************************)
(* Small instances of AdapterHelper for TLC.                               *)
(***************************************************************************)
EXTENDS AdapterHelper

Bounds(late, kill, crash, fault, packet, frame) ==
  [late |-> late, kill |-> kill, crash |-> crash, fault |-> fault,
   packet |-> packet, frame |-> frame]

Copies(b, c) == [bundled |-> b, cached |-> c]

\* wintun.dll has to be downloaded, or the bundled copy is a wrong one.
AnyLibrary == {Copies("missing", "other"), Copies("other", "official")}
OfficialLibrary == {Copies("missing", "official")}

HelperLimit == Bounds(1, 1, 1, 1, 2, 1)
LastWordLimit == Bounds(0, 0, 0, 1, 1, 0)
=============================================================================

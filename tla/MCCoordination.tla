--------------------------- MODULE MCCoordination ---------------------------
(***************************************************************************)
(* Small instances of Coordination for TLC: bounds on what may happen to   *)
(* <<PC 1, PC 2, PC 3>>, where PC 2 creates the network.                   *)
(***************************************************************************)
EXTENDS Coordination

Bounds(enter, outage, crash, drop, late) ==
  [enter |-> enter, outage |-> outage, crash |-> crash, drop |-> drop, late |-> late]

None == <<0, 0, 0>>
Once == <<1, 1, 1>>

\* Everybody comes (back) once; PC 3's clock runs out once.
SteadyLimit == Bounds(Once, None, None, None, <<0, 0, 1>>)

\* Everybody comes (back) once, and the creator's app is killed once.
KilledLimit == Bounds(Once, None, <<0, 1, 0>>, None, None)

\* PC 1 comes twice and PC 3 tries twice; PC 1 and the creator may be killed.
TriesLimit == Bounds(<<2, 0, 2>>, None, <<1, 1, 0>>, None, None)

\* PC 1 comes twice, the others once, and clocks run out as often as it takes.
OrderlyLimit == Bounds(<<2, 1, 1>>, None, None, None, <<9, 9, 9>>)
OrderlySpec == Init /\ [][Next /\ OrderlyStep]_vars

\* Two newcomers, whose clocks run out as often as it takes; the creator's
\* app is killed.
NewcomersLimit == Bounds(<<1, 0, 1>>, None, <<0, 1, 0>>, None, <<9, 0, 9>>)

\* The same with a link of PC 1 that drops.
DroppedLimit == Bounds(<<1, 0, 1>>, None, <<0, 1, 0>>, <<1, 0, 0>>, <<9, 0, 9>>)

\* One newcomer and a link that drops; the creator's PC loses Steam once and
\* goes online again once.
OutageLimit == Bounds(<<1, 1, 0>>, <<0, 1, 0>>, None, <<1, 0, 0>>, <<9, 9, 9>>)

\* Everybody comes (back) once and nothing goes wrong.
CalmLimit == Bounds(Once, None, None, None, None)

\* Two newcomers, and the creator's PC loses Steam.
CutOffLimit == Bounds(<<1, 0, 1>>, <<0, 1, 0>>, None, None, None)

\* PC 1 comes twice, and the creator's PC loses Steam.
ReturnedLimit == Bounds(<<2, 0, 0>>, <<0, 1, 0>>, None, None, None)
(***************************************************************************)
(* Two instances that start later, with everybody in the network and all   *)
(* of them online: PC 1 coordinates, and nothing goes wrong.               *)
(***************************************************************************)
At(pcs) == [n \in Node |-> IF n \in pcs THEN 1 ELSE 0]
Nowhere == At({})

Everybody(pcs) == [n \in Node |-> IF n \in pcs THEN n ELSE NoAddr]
Admitted(pcs, n) ==
  [Blank EXCEPT !.coord = 1, !.roster = Everybody(pcs), !.trusted = pcs, !.code = TRUE,
                !.authSent = IF n = 1 THEN NoNode ELSE 1]

Gathered(pcs, sessions, connections, saves) ==
  /\ lobby = [members |-> pcs, owner |-> 1, data |-> Everybody(pcs)]
  /\ conn = connections
  /\ chan = [m \in Node |-> [n \in Node |-> <<>>]]
  /\ mode = [n \in Node |-> IF n \in pcs THEN "online" ELSE "out"]
  /\ session = sessions
  /\ saved = [n \in Node |-> IF n \in saves THEN Everybody(pcs) ELSE Empty]
  /\ logged = [n \in Node |-> TRUE]
  /\ turn = NoNode
  /\ used = [k \in Kinds |-> Nowhere]

\* Three members; PCs 1 and 2 may each leave, or go offline, and return once.
ForgottenLimit == Bounds(At({1, 2}), Nowhere, Nowhere, Nowhere, Nowhere)
ForgottenInit ==
  Gathered(Node, [n \in Node |-> Admitted(Node, n)],
           {c \in SUBSET Node : Cardinality(c) = 2}, Node)
ForgottenSpec == ForgottenInit /\ [][Next]_vars

\* As it goes on from there, and with a newcomer, PC 4: PC 2 has left and is
\* back in the lobby, about to ask PC 1 to be let in; PC 3 has read its LEAVE,
\* and PC 1, which was away, has not.
GivenAwayLimit == Bounds(At({4}), Nowhere, Nowhere, Nowhere, Nowhere)
GivenAwayInit ==
  LET stay == [n \in {1, 3} |-> Admitted(1..3, n)] IN
  Gathered(1..3, [n \in Node |-> CASE n = 1 -> stay[1]
                                   [] n = 2 -> [Blank EXCEPT !.coord = 1, !.code = TRUE]
                                   [] n = 3 -> [stay[3] EXCEPT !.left = {2}]
                                   [] n = 4 -> Blank],
           {}, {1, 3})
GivenAwaySpec == GivenAwayInit /\ [][Next]_vars
=============================================================================

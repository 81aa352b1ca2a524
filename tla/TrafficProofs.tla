--------------------------- MODULE TrafficProofs ---------------------------
(***************************************************************************)
(* The packets and the round trip between two members, with any rosters,   *)
(* packets, timeouts and numbers, and any number of connections, losses,   *)
(* delays and suspensions.                                                 *)
(***************************************************************************)
EXTENDS Traffic, FiniteSetTheorems, WellFoundedInduction, TLAPS

-----------------------------------------------------------------------------
\* The inductive invariant.

Types ==
  /\ up \in [Node -> 0..MaxLink] /\ last \in 1..MaxLink /\ broken \in BOOLEAN
  /\ tracker \in [Node -> Tracker]
  /\ pending = [p \in Node |-> pending[p]]
  /\ suspended \in [Node -> BOOLEAN]
  /\ roster \in [Node -> Rosters] /\ adapter \in [Node -> Address \cup {None}]
  /\ used \in [What -> Nat]

\* The PINGs a member waits for.
Waits(f) ==
  /\ DOMAIN f \subseteq Sequence
  /\ \A s \in DOMAIN f : f[s] \in Age
  /\ Cardinality(DOMAIN f) <= MaxPending

\* A connected member has the newest connection, and sends under the address
\* its adapter has.
MemberInv ==
  \A p \in Node : /\ up[p] \in {None, last}
                  /\ roster[p][p] # None /\ adapter[p] \in {None, roster[p][p]}
                  /\ Waits(pending[p])

\* Whose PING a message is about.
Asker(m) == IF m.kind = "ping" THEN Other(m.to) ELSE m.to

\* Every number under way has been given out, and if it is waited for, then
\* since it was sent.
NumberInv(m) ==
  m.kind \in {"ping", "pong"} /\ m.sequence <= MaxSequence =>
    /\ m.sequence < tracker[Asker(m)].next
    /\ m.sequence \in DOMAIN pending[Asker(m)] => pending[Asker(m)][m.sequence] = m.age

PacketInv(m) ==
  m.kind = "packet" =>
    /\ m.packet.carried /\ m.packet.destination # Outside
    /\ m.packet.source = roster[Other(m.to)][Other(m.to)]
    /\ m.packet.source = adapter[Other(m.to)]

AirInv == \A m \in air : m \in Message /\ m.link = last /\ NumberInv(m) /\ PacketInv(m)

IInv == Types /\ MemberInv /\ AirInv

-----------------------------------------------------------------------------
\* Two members, and finite sets of numbers.

LEMMA TwoMembers ==
  ASSUME NEW p \in Node
  PROVE  Other(p) \in Node /\ Other(p) # p /\ Other(Other(p)) = p
<1>1. IsFiniteSet(Node \ {p}) /\ Cardinality(Node \ {p}) = 1
  BY TwoNodes, FS_RemoveElement
<1>2. PICK q : Node \ {p} = {q}
  BY <1>1, FS_Singleton
<1>3. q \in Node /\ q # p /\ Node = {p, q}
  BY <1>2
<1> QED BY <1>3 DEF Other

LEMMA Bounds ==
  /\ Timeout \in Nat \ {0} /\ Stale \in Nat \ {0}
  /\ MaxPending \in Nat \ {0} /\ MaxSequence \in Nat \ {0}
BY LatencyAssumption

LEMMA MinIn ==
  ASSUME NEW S \in SUBSET Nat, S # {}
  PROVE  Min(S) \in S
<1> DEFINE R == {ss \in Nat \X Nat : ss[1] < ss[2]}
<1>1. IsWellFoundedOn(R, Nat)
  BY NatLessThanWellFounded, Zenon DEF OpToRel
<1>2. \A z, y \in Nat : <<y, z>> \in R <=> y < z
  OBVIOUS
<1> HIDE DEF R
<1>3. PICK x \in S : \A y \in S : ~ (<<y, x>> \in R)
  BY <1>1, WFMin
<1>4. \E z \in S : \A y \in S : z <= y
  <2>1. ASSUME NEW y \in S PROVE x <= y
    <3>1. ~(y < x)
      BY <1>2, <1>3
    <3> QED BY <3>1
  <2> QED BY <2>1
<1>5. (CHOOSE z \in S : \A y \in S : z <= y) \in S
  BY <1>4, Zenon
<1> QED BY <1>5 DEF Min

LEMMA FiniteNumbers ==
  ASSUME NEW S \in SUBSET Sequence
  PROVE  IsFiniteSet(S) /\ S \in SUBSET Nat /\ Cardinality(S) \in Nat
<1>1. IsFiniteSet(Sequence)
  BY Bounds, FS_Interval DEF Sequence
<1>2. IsFiniteSet(S)
  BY <1>1, FS_Subset
<1> QED BY <1>2, FS_CardinalityType, Bounds DEF Sequence

LEMMA NothingWaits == Waits(<<>>) /\ DOMAIN <<>> = {}
<1>1. DOMAIN <<>> = {}
  OBVIOUS
<1>2. Cardinality({}) = 0
  BY FS_EmptySet
<1> QED BY <1>1, <1>2, Bounds DEF Waits

\* Waiting for less.
LEMMA RestrictWaits ==
  ASSUME NEW f, Waits(f), NEW S, S \subseteq DOMAIN f
  PROVE  /\ Waits(Restrict(f, S)) /\ DOMAIN Restrict(f, S) = S
         /\ \A s \in S : Restrict(f, S)[s] = f[s]
<1>1. DOMAIN f \in SUBSET Sequence /\ S \in SUBSET DOMAIN f
  BY DEF Waits
<1>2. Cardinality(S) <= Cardinality(DOMAIN f) /\ Cardinality(S) \in Nat
      /\ Cardinality(DOMAIN f) \in Nat
  BY <1>1, FiniteNumbers, FS_Subset
<1>3. Cardinality(S) <= MaxPending
  BY <1>2, Bounds DEF Waits
<1> QED BY <1>1, <1>3 DEF Waits, Restrict

\* What due() adds: one more number may wait, and the oldest goes.
LEMMA NewestWaits ==
  ASSUME NEW f, Waits(f), NEW n \in Sequence,
         NEW g, g = [s \in DOMAIN Alive(f) \cup {n} |-> IF s = n THEN 0 ELSE f[s]]
  PROVE  /\ Waits(Newest(g))
         /\ DOMAIN Newest(g) \subseteq DOMAIN f \cup {n}
         /\ \A s \in DOMAIN Newest(g) : Newest(g)[s] = IF s = n THEN 0 ELSE f[s]
<1> DEFINE A == DOMAIN Alive(f)
           D == A \cup {n}
<1>1. A \subseteq DOMAIN f /\ Waits(Alive(f))
  BY RestrictWaits DEF Alive
<1>2. IsFiniteSet(A) /\ Cardinality(A) \in Nat /\ Cardinality(A) <= MaxPending
  BY <1>1, FiniteNumbers DEF Waits
<1>3. /\ IsFiniteSet(D) /\ D \in SUBSET Sequence /\ D # {} /\ D \in SUBSET Nat
      /\ Cardinality(D) \in Nat /\ Cardinality(D) <= MaxPending + 1
  <2>1. D \in SUBSET Sequence
    BY <1>1 DEF Waits
  <2> QED BY <1>2, <2>1, FiniteNumbers, FS_AddElement, Bounds
<1>4. /\ DOMAIN g = D
      /\ \A s \in D : g[s] = IF s = n THEN 0 ELSE f[s]
      /\ \A s \in D : g[s] \in Age
  BY <1>1, Bounds DEF Waits, Age
<1> HIDE DEF A, D
<1>5. CASE Cardinality(D) > MaxPending
  <2>1. Newest(g) = Restrict(g, D \ {Min(D)})
    BY <1>4, <1>5 DEF Newest
  <2>2. Min(D) \in D
    BY <1>3, MinIn
  <2>3. Cardinality(D \ {Min(D)}) = Cardinality(D) - 1
    BY <1>3, <2>2, FS_RemoveElement
  <2>4. Cardinality(D \ {Min(D)}) <= MaxPending
    BY <1>3, <2>3, Bounds
  <2> QED BY <1>1, <1>3, <1>4, <2>1, <2>4 DEF Waits, Restrict, A, D
<1>6. CASE ~(Cardinality(D) > MaxPending)
  <2>1. Newest(g) = g
    BY <1>4, <1>6 DEF Newest
  <2>2. Cardinality(D) <= MaxPending
    BY <1>3, <1>6, Bounds
  <2> QED BY <1>1, <1>3, <1>4, <2>1, <2>2 DEF Waits, A, D
<1> QED BY <1>5, <1>6

-----------------------------------------------------------------------------
LEMMA InitInv == Init => IInv
<1> SUFFICES ASSUME Init PROVE IInv
  OBVIOUS
<1>1. Types
  <2>1. Untracked \in Tracker
    BY LinkAssumption, Bounds DEF Untracked, Tracker, Sequence, None
  <2>2. /\ up \in [Node -> 0..MaxLink] /\ last \in 1..MaxLink
        /\ used \in [What -> Nat]
    BY LinkAssumption DEF Init, None
  <2>4. broken \in BOOLEAN /\ suspended \in [Node -> BOOLEAN]
    BY DEF Init
  <2>3. /\ tracker \in [Node -> Tracker] /\ pending = [p \in Node |-> pending[p]]
        /\ roster \in [Node -> Rosters] /\ adapter \in [Node -> Address \cup {None}]
    BY <2>1 DEF Init
  <2> QED BY <2>2, <2>3, <2>4 DEF Types
<1>2. MemberInv
  BY NothingWaits DEF Init, MemberInv, None
<1>3. AirInv
  BY DEF Init, AirInv
<1> QED BY <1>1, <1>2, <1>3 DEF IInv

LEMMA InvImplies == IInv => TypeOK /\ NumbersTrue /\ OwnTraffic /\ NothingRejected
<1> SUFFICES ASSUME IInv PROVE TypeOK /\ NumbersTrue /\ OwnTraffic /\ NothingRejected
  OBVIOUS
<1>1. TypeOK
  BY DEF IInv, Types, MemberInv, AirInv, TypeOK, Waits, Range
<1>2. NumbersTrue
  BY DEF IInv, AirInv, NumberInv, Asker, NumbersTrue
<1>3. OwnTraffic
  BY DEF IInv, AirInv, PacketInv, OwnTraffic
<1>4. NothingRejected
  <2> SUFFICES ASSUME NEW m \in air, m.kind = "packet", Agreed(Other(m.to), m.to),
                      m.packet.destination \in {Everyone, roster[m.to][m.to]}
               PROVE  Handed(m.to, m.packet)
    BY DEF NothingRejected
  <2> DEFINE q == m.to
             p == Other(q)
             r == roster[q]
  <2>1. q \in Node /\ p \in Node /\ p # q
    BY TwoMembers DEF IInv, AirInv, Message
  <2>2. r \in Rosters /\ r = roster[p] /\ r[p] # None /\ r[q] # None /\ adapter[q] = r[q]
    BY <2>1 DEF IInv, Types, Agreed
  <2>3. r[p] \in Address /\ r[p] # r[q]
    BY <2>1, <2>2, RostersAssumption
  <2>4. m.packet.carried /\ m.packet.destination # Outside /\ m.packet.source = r[p]
    BY <2>2 DEF IInv, AirInv, PacketInv
  <2> HIDE DEF r
  <2> QED BY <2>1, <2>2, <2>3, <2>4 DEF Handed, Accepts, MayDeliver, r
<1> QED BY <1>1, <1>2, <1>3, <1>4

-----------------------------------------------------------------------------
\* The steps.

LEMMA SpendIsFine ==
  ASSUME IInv, NEW what \in What, Spend(what)
  PROVE  used' \in [What -> Nat]
BY DEF IInv, Types, Spend

\* Nothing new is sent, no PING is sent or answered, and no address changes.
LEMMA AirStays ==
  ASSUME IInv, air' \subseteq air,
         UNCHANGED <<last, tracker, pending, roster, adapter>>
  PROVE  AirInv'
BY DEF IInv, AirInv, NumberInv, Asker, PacketInv

LEMMA Sendable ==
  ASSUME IInv, NEW p \in Node, up[p] # None, NEW kind \in {"ping", "pong", "packet"},
         NEW n \in Sequence \cup {0}, NEW k \in Packet
  PROVE  LET m == ToSend(p, kind, n, k) IN
         /\ m \in Message /\ m.link = last /\ m.kind = kind /\ m.to = Other(p)
         /\ m.sequence = n /\ m.age = 0 /\ m.packet = k
<1>1. up[p] = last /\ last \in 1..MaxLink /\ Other(p) \in Node /\ 0 \in Age
  BY TwoMembers, Bounds DEF IInv, Types, MemberInv, Age
<1> QED BY <1>1 DEF ToSend, Message

LEMMA NoPacketIsPacket == NoPacket \in Packet
BY DEF NoPacket, Packet, Destination

LEMMA FromWindowsKeeps == ASSUME IInv, NEW p \in Node, FromWindows(p) PROVE IInv'
<1> PICK k \in Packets : /\ Recipients(p, k) # {}
                         /\ air' = air \cup {ToSend(p, "packet", 0, k) : q \in Recipients(p, k)}
  BY DEF FromWindows
<1> DEFINE m == ToSend(p, "packet", 0, k)
<1>1. /\ UNCHANGED <<up, last, broken, tracker, pending, suspended, roster, adapter>>
      /\ adapter[p] # None /\ used' \in [What -> Nat]
  BY SpendIsFine DEF FromWindows, What
<1>2. up[p] # None /\ Outgoing(k, roster[p][p])
  BY DEF Recipients
<1>3. k \in Packet
  BY PacketsAssumption
<1>4. /\ m \in Message /\ m.link = last /\ m.kind = "packet" /\ m.to = Other(p)
      /\ m.packet = k
  BY <1>2, <1>3, Sendable
<1>5. Other(m.to) = p
  BY <1>4, TwoMembers
<1>6. adapter[p] = roster[p][p]
  BY <1>1 DEF IInv, MemberInv
<1>7. NumberInv(m) /\ PacketInv(m)
  BY <1>2, <1>4, <1>5, <1>6 DEF NumberInv, PacketInv, Outgoing
<1>8. air' \subseteq air \cup {m}
  OBVIOUS
<1> HIDE DEF m
<1>9. AirInv'
  BY <1>1, <1>4, <1>7, <1>8 DEF IInv, AirInv, NumberInv, Asker, PacketInv
<1> QED BY <1>1, <1>9 DEF IInv, Types, MemberInv

LEMMA TrackedIsFine ==
  ASSUME IInv, NEW p \in Node,
         NEW t, t = Tracked(tracker[p], Connection(p))
  PROVE  /\ t \in Tracker /\ t.next = tracker[p].next /\ tracker[p].next \in Sequence
         /\ t.link # None => up[p] # None
<1>1. tracker[p] \in Tracker /\ up[p] \in 0..MaxLink
  BY DEF IInv, Types
<1>2. Connection(p) \in 0..MaxLink /\ (Connection(p) # None => Connection(p) = up[p])
  BY <1>1, LinkAssumption DEF Connection, None
<1>3. t.link = Connection(p) /\ t.next = tracker[p].next
  BY <1>1 DEF Tracked, Untracked, Tracker
<1>4. t \in Tracker
  <2>1. CASE tracker[p].link = Connection(p)
    BY <1>1, <2>1 DEF Tracked
  <2>2. CASE tracker[p].link # Connection(p)
    <3>1. t = [Untracked EXCEPT !.link = Connection(p), !.next = tracker[p].next]
      BY <2>2 DEF Tracked
    <3>2. tracker[p].next \in Sequence
      BY <1>1 DEF Tracker
    <3>3. t = [link |-> Connection(p), wait |-> 0, shown |-> FALSE, since |-> 0,
               next |-> tracker[p].next]
      BY <3>1 DEF Untracked
    <3>4. 0 \in 0..(Stale + 1)
      BY Bounds
    <3> QED BY <1>2, <3>2, <3>3, <3>4 DEF Tracker
  <2> QED BY <2>1, <2>2
<1> QED BY <1>1, <1>2, <1>3, <1>4 DEF Tracker

\* A member starts to wait for less, perhaps for nothing, and keeps count.
LEMMA WaitsForLess ==
  ASSUME IInv, NEW p \in Node, NEW t \in Tracker, t.next = tracker[p].next,
         NEW S \in SUBSET DOMAIN pending[p], NEW f,
         f = Restrict(pending[p], S) \/ f = <<>>,
         tracker' = [tracker EXCEPT ![p] = t],
         pending' = [pending EXCEPT ![p] = f],
         air' \subseteq air,
         used' \in [What -> Nat], suspended' \in [Node -> BOOLEAN],
         UNCHANGED <<up, last, broken, roster, adapter>>
  PROVE  IInv'
<1>1. /\ Waits(f) /\ DOMAIN f \subseteq DOMAIN pending[p]
      /\ \A s \in DOMAIN f : f[s] = pending[p][s]
  BY RestrictWaits, NothingWaits DEF IInv, MemberInv
<1>2. /\ DOMAIN pending = Node /\ tracker \in [Node -> Tracker]
      /\ pending'[p] = f /\ tracker'[p] = t
      /\ \A q \in Node \ {p} : pending'[q] = pending[q] /\ tracker'[q] = tracker[q]
      /\ tracker' \in [Node -> Tracker] /\ pending' = [q \in Node |-> pending'[q]]
  <2>1. pending = [q \in Node |-> pending[q]] /\ tracker \in [Node -> Tracker]
    BY DEF IInv, Types
  <2>2. DOMAIN pending = Node
    BY <2>1
  <2> QED BY <2>1, <2>2
<1>3. Types'
  BY <1>2 DEF IInv, Types
<1>4. MemberInv'
  BY <1>1, <1>2 DEF IInv, MemberInv
<1>5. AirInv'
  <2> SUFFICES ASSUME NEW m \in air'
               PROVE  NumberInv(m)'
    BY DEF IInv, AirInv, PacketInv
  <2>1. NumberInv(m) /\ Asker(m) \in Node
    BY TwoMembers DEF IInv, AirInv, Message, Asker
  <2>2. tracker'[Asker(m)].next = tracker[Asker(m)].next
    BY <1>2, <2>1
  <2>3. DOMAIN pending'[Asker(m)] \subseteq DOMAIN pending[Asker(m)]
        /\ \A s \in DOMAIN pending'[Asker(m)] : pending'[Asker(m)][s] = pending[Asker(m)][s]
    BY <1>1, <1>2, <2>1
  <2> QED BY <2>1, <2>2, <2>3 DEF NumberInv, Asker
<1> QED BY <1>3, <1>4, <1>5 DEF IInv

LEMMA PingKeeps == ASSUME IInv, NEW p \in Node, Ping(p) PROVE IInv'
<1> DEFINE t == Tracked(tracker[p], Connection(p))
           f == IF t = tracker[p] THEN pending[p] ELSE <<>>
           g == [s \in DOMAIN Alive(f) \cup {t.next} |-> IF s = t.next THEN 0 ELSE f[s]]
           m == ToSend(p, "ping", t.next, NoPacket)
           t2 == [t EXCEPT !.wait = 1, !.next = After(@)]
<1>1. /\ t \in Tracker /\ t.next = tracker[p].next /\ t.next \in Sequence
      /\ t.link # None => up[p] # None
  BY TrackedIsFine
<1>2. /\ UNCHANGED <<up, last, broken, suspended, roster, adapter, used>>
      /\ used' \in [What -> Nat] /\ suspended' \in [Node -> BOOLEAN]
  BY DEF Ping, IInv, Types
<1>3. CASE ~Due(t, f)
  <2>1. /\ tracker' = [tracker EXCEPT ![p] = t] /\ pending' = [pending EXCEPT ![p] = <<>>]
        /\ UNCHANGED air
    BY <1>3 DEF Ping
  <2> HIDE DEF t
  <2> QED BY <1>1, <1>2, <2>1, WaitsForLess
<1>4. CASE Due(t, f)
  <2>1. /\ tracker' = [tracker EXCEPT ![p] = t2]
        /\ pending' = [pending EXCEPT ![p] = Newest(g)]
        /\ air' = air \cup {m}
    BY <1>4 DEF Ping
  <2>2. up[p] # None
    BY <1>1, <1>4 DEF Due
  <2>3. Waits(f) /\ DOMAIN f \subseteq DOMAIN pending[p]
        /\ \A s \in DOMAIN f : f[s] = pending[p][s]
    BY NothingWaits DEF IInv, MemberInv
  <2> HIDE DEF t, f
  <2>4. /\ Waits(Newest(g))
        /\ DOMAIN Newest(g) \subseteq DOMAIN pending[p] \cup {t.next}
        /\ \A s \in DOMAIN Newest(g) :
             Newest(g)[s] = IF s = t.next THEN 0 ELSE pending[p][s]
    BY <1>1, <2>3, NewestWaits
  <2>5. /\ t2 \in Tracker /\ t2.next = After(t.next)
        /\ t.next <= MaxSequence => t2.next = t.next + 1
        /\ t.next > MaxSequence => t2.next = t.next
    <3>1. /\ After(t.next) \in Sequence
          /\ t.next <= MaxSequence => After(t.next) = t.next + 1
          /\ t.next > MaxSequence => After(t.next) = t.next
      BY <1>1, Bounds DEF After, Sequence
    <3> QED BY <1>1, <3>1 DEF Tracker
  <2>6. /\ m \in Message /\ m.link = last /\ m.kind = "ping" /\ m.to = Other(p)
        /\ m.sequence = t.next /\ m.age = 0
    BY <1>1, <2>2, Sendable, NoPacketIsPacket
  <2> PICK new \in Message :
        /\ air' = air \cup {new} /\ new.link = last /\ new.kind = "ping"
        /\ new.to = Other(p) /\ new.sequence = t.next /\ new.age = 0
    BY <2>1, <2>6
  <2> HIDE DEF g, m, t2
  <2>7. /\ pending'[p] = Newest(g) /\ tracker'[p] = t2
        /\ \A q \in Node \ {p} : pending'[q] = pending[q] /\ tracker'[q] = tracker[q]
        /\ tracker' \in [Node -> Tracker] /\ pending' = [q \in Node |-> pending'[q]]
    <3>1. pending = [q \in Node |-> pending[q]] /\ tracker \in [Node -> Tracker]
      BY DEF IInv, Types
    <3>2. DOMAIN pending = Node
      BY <3>1
    <3> QED BY <2>1, <2>5, <3>1, <3>2
  <2>8. Types'
    BY <1>2, <2>7 DEF IInv, Types
  <2>9. MemberInv'
    BY <1>2, <2>4, <2>7 DEF IInv, MemberInv
  <2>10. ASSUME NEW n \in air PROVE NumberInv(n)'
    <3>1. NumberInv(n) /\ Asker(n) \in Node /\ n.sequence \in Sequence \cup {0}
      BY TwoMembers DEF IInv, AirInv, Message, Asker
    <3>2. CASE Asker(n) # p
      BY <2>7, <3>1, <3>2 DEF NumberInv, Asker
    <3>3. CASE Asker(n) = p
      <4> SUFFICES ASSUME n.kind \in {"ping", "pong"}, n.sequence <= MaxSequence
                   PROVE  /\ n.sequence < t2.next
                          /\ n.sequence \in DOMAIN Newest(g) =>
                               Newest(g)[n.sequence] = n.age
        BY <2>7, <3>3 DEF NumberInv, Asker
      <4>1. n.sequence < t.next
        BY <1>1, <3>1, <3>3 DEF NumberInv
      <4>2. n.sequence < t2.next /\ n.sequence # t.next
        BY <1>1, <2>5, <3>1, <4>1, Bounds DEF Sequence
      <4> QED BY <2>4, <3>1, <3>3, <4>2 DEF NumberInv
    <3> QED BY <3>2, <3>3
  <2>11. NumberInv(new)'
    <3>1. Asker(new) = p
      BY TwoMembers DEF Asker
    <3>2. t.next <= MaxSequence => t.next < t2.next
      BY <1>1, <2>5, Bounds DEF Sequence
    <3> QED BY <2>4, <2>7, <3>1, <3>2 DEF NumberInv, Asker
  <2>12. AirInv'
    BY <1>2, <2>10, <2>11 DEF IInv, AirInv, PacketInv
  <2> QED BY <2>8, <2>9, <2>12 DEF IInv
<1> QED BY <1>3, <1>4

\* A message has been read or lost, and what became of it is under way.
LEMMA NewAirIsFine ==
  ASSUME IInv, NEW S, air' \subseteq air \cup S,
         UNCHANGED <<last, tracker, pending, roster, adapter>>,
         \A m \in S : m \in Message /\ m.link = last /\ NumberInv(m) /\ PacketInv(m)
  PROVE  AirInv'
BY DEF IInv, AirInv, NumberInv, Asker, PacketInv

LEMMA ReadKeeps == ASSUME IInv, NEW p \in Node, Read(p) PROVE IInv'
<1> PICK m \in air :
      /\ m.to = p /\ m.link = up[p]
      /\ CASE m.kind = "packet" ->
                air' = air \ {m} /\ UNCHANGED <<tracker, pending>>
           [] m.kind = "ping" ->
                /\ air' = (air \ {m}) \cup
                     IF m.sequence > MaxSequence THEN {}
                     ELSE {[ToSend(p, "pong", m.sequence, NoPacket) EXCEPT !.age = m.age]}
                /\ UNCHANGED <<tracker, pending>>
           [] OTHER ->
                Counted(p, m) /\ air' = air \ {m}
  BY DEF Read
<1>1. /\ UNCHANGED <<up, last, broken, suspended, roster, adapter, used>>
      /\ used' \in [What -> Nat] /\ suspended' \in [Node -> BOOLEAN]
      /\ up[p] # None
  BY DEF Read, IInv, Types
<1>2. m \in Message /\ m.link = last /\ NumberInv(m)
  BY DEF IInv, AirInv
<1>3. CASE m.kind = "packet"
  <2>1. air' \subseteq air /\ UNCHANGED <<tracker, pending>>
    BY <1>3
  <2>2. AirInv'
    BY <1>1, <2>1, AirStays
  <2> QED BY <1>1, <2>1, <2>2 DEF IInv, Types, MemberInv
<1>4. CASE m.kind = "ping" /\ m.sequence > MaxSequence
  <2>1. air' \subseteq air /\ UNCHANGED <<tracker, pending>>
    BY <1>4
  <2>2. AirInv'
    BY <1>1, <2>1, AirStays
  <2> QED BY <1>1, <2>1, <2>2 DEF IInv, Types, MemberInv
<1>5. CASE m.kind = "ping" /\ ~(m.sequence > MaxSequence)
  <2> DEFINE sent == ToSend(p, "pong", m.sequence, NoPacket)
             n == [sent EXCEPT !.age = m.age]
  <2>1. air' = (air \ {m}) \cup {n} /\ UNCHANGED <<tracker, pending>>
    BY <1>5
  <2>2. m.sequence \in Sequence \cup {0} /\ m.age \in Age
    BY <1>2 DEF Message
  <2>3. /\ sent \in Message /\ sent.link = last /\ sent.kind = "pong" /\ sent.to = Other(p)
        /\ sent.sequence = m.sequence
    BY <1>1, <2>2, Sendable, NoPacketIsPacket
  <2> HIDE DEF sent
  <2>4. /\ n \in Message /\ n.link = last /\ n.kind = "pong" /\ n.to = Other(p)
        /\ n.sequence = m.sequence /\ n.age = m.age
    BY <2>2, <2>3 DEF Message
  <2> HIDE DEF n
  <2>5. NumberInv(n) /\ PacketInv(n)
    BY <1>2, <1>5, <2>4, TwoMembers DEF NumberInv, PacketInv, Asker
  <2>6. AirInv'
    <3>1. \A k \in {n} : k \in Message /\ k.link = last /\ NumberInv(k) /\ PacketInv(k)
      BY <2>4, <2>5
    <3>2. air' \subseteq air \cup {n}
      BY <2>1
    <3> QED BY <1>1, <2>1, <3>1, <3>2, NewAirIsFine
  <2> QED BY <1>1, <2>1, <2>6 DEF IInv, Types, MemberInv
<1>6. CASE m.kind \notin {"packet", "ping"}
  <2>1. Counted(p, m) /\ air' \subseteq air
    BY <1>6
  <2>2. CASE m.sequence \in DOMAIN Alive(pending[p])
    <3> DEFINE t == [tracker[p] EXCEPT !.shown = TRUE, !.since = 0]
               S == DOMAIN pending[p] \ {m.sequence}
    <3>1. tracker' = [tracker EXCEPT ![p] = t]
      BY <2>1, <2>2 DEF Counted, IInv, Types
    <3>2. t \in Tracker /\ t.next = tracker[p].next
      <4>1. tracker[p] \in Tracker /\ 0 \in 0..(Stale + 1)
        BY Bounds DEF IInv, Types
      <4> QED BY <4>1 DEF Tracker
    <3>3. pending' = [pending EXCEPT ![p] = Restrict(pending[p], S)]
      BY <2>1, <2>2 DEF Counted
    <3> QED BY <1>1, <2>1, <3>1, <3>2, <3>3, WaitsForLess
  <2>3. CASE m.sequence \notin DOMAIN Alive(pending[p])
    <3>1. UNCHANGED <<tracker, pending>>
      BY <2>1, <2>3 DEF Counted
    <3>2. AirInv'
      BY <1>1, <2>1, <3>1, AirStays
    <3> QED BY <1>1, <3>1, <3>2 DEF IInv, Types, MemberInv
  <2> QED BY <2>2, <2>3
<1> QED BY <1>3, <1>4, <1>5, <1>6

LEMMA SuspendKeeps == ASSUME IInv, NEW p \in Node, Suspend(p) PROVE IInv'
<1> DEFINE t == Cleared(tracker[p])
<1>1. /\ UNCHANGED <<up, last, broken, air, roster, adapter>>
      /\ used' \in [What -> Nat] /\ suspended' \in [Node -> BOOLEAN]
      /\ tracker' = [tracker EXCEPT ![p] = t] /\ pending' = [pending EXCEPT ![p] = <<>>]
  BY SpendIsFine DEF Suspend, IInv, Types, What
<1>2. t \in Tracker /\ t.next = tracker[p].next
  <2>1. tracker[p] \in Tracker
    BY DEF IInv, Types
  <2>2. t = [link |-> None, wait |-> 0, shown |-> FALSE, since |-> 0, next |-> tracker[p].next]
    <3>1. t = [Untracked EXCEPT !.next = tracker[p].next]
      BY DEF Cleared
    <3> HIDE DEF t
    <3> QED BY <3>1 DEF Untracked
  <2>3. 0 \in 0..(Stale + 1) /\ None \in 0..MaxLink /\ tracker[p].next \in Sequence
    BY <2>1, Bounds, LinkAssumption DEF None, Tracker
  <2> QED BY <2>2, <2>3 DEF Tracker
<1> HIDE DEF t
<1> QED BY <1>1, <1>2, WaitsForLess

LEMMA LoseKeeps == ASSUME IInv, Lose PROVE IInv'
<1>1. air' \subseteq air /\ used' \in [What -> Nat]
      /\ UNCHANGED <<up, last, broken, tracker, pending, suspended, roster, adapter>>
  BY SpendIsFine DEF Lose, What
<1>2. AirInv'
  BY <1>1, AirStays
<1> QED BY <1>1, <1>2 DEF IInv, Types, MemberInv

LEMMA RenewKeeps == ASSUME IInv, Renew PROVE IInv'
<1>1. Types'
  <2>1. last' \in 1..MaxLink
    <3>1. last \in 1..MaxLink /\ last < MaxLink /\ last' = last + 1
      BY DEF IInv, Types, Renew
    <3> QED BY <3>1, LinkAssumption
  <2>4. broken' \in BOOLEAN
    BY DEF Renew
  <2>2. None \in 0..MaxLink
    BY LinkAssumption DEF None
  <2>3. up' \in [Node -> 0..MaxLink]
    BY <2>2 DEF Renew
  <2> QED BY <2>1, <2>3, <2>4 DEF IInv, Types, Renew
<1>2. MemberInv' /\ AirInv'
  BY DEF IInv, MemberInv, AirInv, Renew, Types
<1> QED BY <1>1, <1>2 DEF IInv

LEMMA LinkKeeps ==
  ASSUME IInv, NEW p \in Node, Connect(p) \/ Notice(p) \/ Break \/ Resume(p)
  PROVE  IInv'
<1>1. air' \subseteq air /\ UNCHANGED <<last, tracker, pending, roster, adapter>>
  BY DEF Connect, Notice, Break, Resume
<1>2. AirInv'
  BY <1>1, AirStays
<1>3. used' \in [What -> Nat] /\ broken' \in BOOLEAN /\ suspended' \in [Node -> BOOLEAN]
  BY SpendIsFine DEF Connect, Notice, Break, Resume, IInv, Types, What
<1>4. up' \in [Node -> 0..MaxLink] /\ \A q \in Node : up'[q] \in {None, last}
  BY LinkAssumption DEF Connect, Notice, Break, Resume, IInv, Types, MemberInv, None
<1> QED BY <1>1, <1>2, <1>3, <1>4 DEF IInv, Types, MemberInv

LEMMA LearnKeeps == ASSUME IInv, NEW p \in Node, Learn(p) PROVE IInv'
<1>1. /\ UNCHANGED <<up, last, broken, air, tracker, pending, suspended, adapter>>
      /\ used' \in [What -> Nat]
  BY SpendIsFine DEF Learn, What
<1>2. roster' \in [Node -> Rosters] /\ \A q \in Node : roster'[q][q] = roster[q][q]
  BY DEF Learn, IInv, Types
<1>3. AirInv'
  <2> SUFFICES ASSUME NEW m \in air PROVE PacketInv(m)'
    BY <1>1 DEF IInv, AirInv, NumberInv, Asker
  <2>1. Other(m.to) \in Node
    BY TwoMembers DEF IInv, AirInv, Message
  <2> QED BY <1>1, <1>2, <2>1 DEF IInv, AirInv, PacketInv
<1> QED BY <1>1, <1>2, <1>3 DEF IInv, Types, MemberInv

LEMMA SetAddressKeeps == ASSUME IInv, NEW p \in Node, SetAddress(p) PROVE IInv'
<1>1. /\ UNCHANGED <<up, last, broken, air, tracker, pending, suspended, roster, used>>
      /\ adapter[p] = None /\ adapter' = [adapter EXCEPT ![p] = roster[p][p]]
  BY DEF SetAddress
<1>2. roster[p][p] \in Address \cup {None}
  BY RostersAssumption DEF IInv, Types
<1>3. /\ adapter' \in [Node -> Address \cup {None}] /\ adapter'[p] = roster[p][p]
      /\ \A q \in Node \ {p} : adapter'[q] = adapter[q]
  BY <1>1, <1>2 DEF IInv, Types
<1>4. AirInv'
  <2> SUFFICES ASSUME NEW m \in air PROVE PacketInv(m)'
    BY <1>1 DEF IInv, AirInv, NumberInv, Asker
  <2>1. Other(m.to) \in Node /\ PacketInv(m)
    BY TwoMembers DEF IInv, AirInv, Message
  <2> QED BY <1>1, <1>3, <2>1 DEF PacketInv
<1> QED BY <1>1, <1>3, <1>4 DEF IInv, Types, MemberInv

LEMMA OlderIsFine ==
  /\ \A age \in Age : Older(age, Timeout) \in Age
  /\ \A age \in 0..(Stale + 1) : Older(age, Stale) \in 0..(Stale + 1)
BY Bounds DEF Older, Age

\* A message and the PING that is waited for get older together.
LEMMA TickKeeps == ASSUME IInv, Tick PROVE IInv'
<1> DEFINE older(m) == [m EXCEPT !.age = Older(m.age, Timeout)]
<1>1. /\ UNCHANGED <<up, last, broken, suspended, roster, adapter>>
      /\ used' \in [What -> Nat]
  BY SpendIsFine DEF Tick, IInv, Types, What
<1>2. air' = {older(m) : m \in air}
  BY DEF Tick
<1>3. /\ tracker' \in [Node -> Tracker]
      /\ \A p \in Node : tracker'[p].next = tracker[p].next
  <2> SUFFICES ASSUME NEW p \in Node
               PROVE  LET t == [tracker[p] EXCEPT !.wait = 0, !.since = Older(@, Stale)]
                      IN  t \in Tracker /\ t.next = tracker[p].next
    BY DEF Tick
  <2>1. tracker[p] \in Tracker
    BY DEF IInv, Types
  <2> QED BY <2>1, OlderIsFine DEF Tracker
<1>4. \A p \in Node : /\ DOMAIN pending'[p] = DOMAIN pending[p]
                      /\ \A s \in DOMAIN pending[p] :
                           pending'[p][s] = Older(pending[p][s], Timeout)
  BY DEF Tick
<1>5. Types'
  <2>1. pending' = [p \in Node |-> pending'[p]]
    BY DEF Tick
  <2> QED BY <1>1, <1>3, <2>1 DEF IInv, Types
<1>6. MemberInv'
  BY <1>1, <1>4, OlderIsFine DEF IInv, MemberInv, Waits
<1>7. ASSUME NEW m \in air
      PROVE  older(m) \in Message /\ older(m).link = last
             /\ NumberInv(older(m))' /\ PacketInv(older(m))'
  <2>1. m \in Message /\ m.link = last /\ NumberInv(m) /\ PacketInv(m)
    BY DEF IInv, AirInv
  <2>2. /\ older(m) \in Message /\ older(m).link = m.link /\ older(m).kind = m.kind
        /\ older(m).to = m.to /\ older(m).sequence = m.sequence
        /\ older(m).packet = m.packet /\ older(m).age = Older(m.age, Timeout)
    <3>1. Older(m.age, Timeout) \in Age
      BY <2>1, OlderIsFine DEF Message
    <3> QED BY <2>1, <3>1 DEF Message
  <2> HIDE DEF older
  <2>3. Asker(older(m)) = Asker(m) /\ Asker(m) \in Node
    BY <2>1, <2>2, TwoMembers DEF Asker, Message
  <2>4. NumberInv(older(m))'
    BY <1>3, <1>4, <2>1, <2>2, <2>3 DEF NumberInv, Asker
  <2>5. PacketInv(older(m))'
    BY <1>1, <2>1, <2>2 DEF PacketInv
  <2> QED BY <2>1, <2>2, <2>4, <2>5
<1> HIDE DEF older
<1>8. AirInv'
  BY <1>1, <1>2, <1>7 DEF AirInv
<1> QED BY <1>5, <1>6, <1>8 DEF IInv

LEMMA NextInv == IInv /\ [Next]_vars => IInv'
<1> SUFFICES ASSUME IInv, [Next]_vars PROVE IInv'
  OBVIOUS
<1>1. CASE UNCHANGED vars
  BY <1>1 DEF vars, IInv, Types, MemberInv, AirInv, NumberInv, Asker, PacketInv
<1>2. CASE Renew \/ Lose \/ Tick
  BY <1>2, RenewKeeps, LoseKeeps, TickKeeps
<1>3. CASE Break
  <2>1. \E p : p \in Node
    <3>1. Cardinality({}) = 0
      BY FS_EmptySet
    <3> QED BY <3>1, TwoNodes
  <2> QED BY <1>3, <2>1, LinkKeeps
<1>4. ASSUME NEW p \in Node, FromWindows(p) \/ Ping(p) \/ Read(p) \/ Suspend(p) PROVE IInv'
  BY <1>4, FromWindowsKeeps, PingKeeps, ReadKeeps, SuspendKeeps
<1>5. ASSUME NEW p \in Node,
             Resume(p) \/ Connect(p) \/ Notice(p) \/ Learn(p) \/ SetAddress(p)
      PROVE  IInv'
  BY <1>5, LinkKeeps, LearnKeeps, SetAddressKeeps
<1> QED BY <1>1, <1>2, <1>3, <1>4, <1>5 DEF Next

\* Nothing is under way but over the newest connection, at most MAX_PENDING
\* PINGs are waited for, and every record keeps its shape.
THEOREM TypesStay == Spec => []TypeOK
<1>1. Spec => []IInv
  BY InitInv, NextInv, PTL DEF Spec
<1> QED BY <1>1, InvImplies, PTL

\* However many PINGs and PONGs are lost, delayed past each other, or outlive
\* a suspension, a round trip is only ever measured with the answer to the
\* PING it began with.
THEOREM NumbersStayTrue == Spec => []NumbersTrue
<1>1. Spec => []IInv
  BY InitInv, NextInv, PTL DEF Spec
<1> QED BY <1>1, InvImplies, PTL

\* Only packets with the member's own address travel, the one its adapter
\* has: the adapter gets it once, and the session ignores every roster that
\* says otherwise.
THEOREM OnlyOwnTraffic == Spec => []OwnTraffic
<1>1. Spec => []IInv
  BY InitInv, NextInv, PTL DEF Spec
<1> QED BY <1>1, InvImplies, PTL

\* The checks of sender, receiver and helper agree on every packet for as
\* long as the two members have the same roster.
THEOREM ChecksAgree == Spec => []NothingRejected
<1>1. Spec => []IInv
  BY InitInv, NextInv, PTL DEF Spec
<1> QED BY <1>1, InvImplies, PTL
=============================================================================

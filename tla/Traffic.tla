------------------------------ MODULE Traffic ------------------------------
(***************************************************************************)
(* What two members send each other unreliably: IP packets (app/tunnel.py, *)
(* adapter/ipv4.py, NetworkSession.send_packet) and the PING and PONG that *)
(* measure the round trip (app/latency.py).  Messages are lost, delayed    *)
(* and overtake each other; the connection is replaced, or survives while  *)
(* the session is suspended; rosters change.  Time passes in intervals of  *)
(* PING_INTERVAL.                                                          *)
(***************************************************************************)
EXTENDS Integers, FiniteSets, FiniteSetsExt, Functions

CONSTANTS
  Node,         \* the two members
  Address,      \* addresses of the virtual network
  Rosters,      \* the copies of the roster a member may have, one after the other
  Packets,      \* the packets Windows may send into the adapter
  Timeout,      \* PING_TIMEOUT in intervals
  Stale,        \* STALE_AFTER in intervals
  MaxPending,   \* MAX_PENDING
  MaxSequence,  \* MAX_SEQUENCE (access.py)
  MaxLink,      \* bound: connections made
  Measuring,    \* bound: the members whose PINGs are followed
  Limit,        \* bound: Limit[what], how often it may happen
  Cost,         \* bound: Cost[what], what it takes of MaxSpent
  MaxSpent      \* bound: how much of that may happen altogether

ASSUME TwoNodes == IsFiniteSet(Node) /\ Cardinality(Node) = 2
ASSUME LinkAssumption == MaxLink \in Nat \ {0}
ASSUME LatencyAssumption == {Timeout, Stale, MaxPending, MaxSequence} \subseteq Nat \ {0}

None == 0
ASSUME AddressNotNone == None \notin Address
Other(p) == CHOOSE q \in Node : q # p

\* Destinations that are no member's address.
Everyone == -1   \* the broadcast addresses and multicast groups
Outside == -2    \* not in the virtual network
Destination == Address \cup {Everyone, Outside}

\* An IP packet; IPv6, IGMP and malformed ones are not carried.
Packet == [source : Address \cup {Outside}, destination : Destination, carried : BOOLEAN]
NoPacket == [source |-> Outside, destination |-> Outside, carried |-> FALSE]
ASSUME PacketsAssumption == Packets \subseteq Packet
\* No two members have the same address: decode() refuses such a roster.
ASSUME RostersAssumption ==
  /\ Rosters \subseteq [Node -> Address \cup {None}]
  /\ \A r \in Rosters : \A m, n \in Node : r[m] = r[n] /\ r[m] # None => m = n

Age == 0..(Timeout + 1)
Sequence == 1..(MaxSequence + 1)
Message == [kind : {"ping", "pong", "packet"}, to : Node, link : 1..MaxLink,
            sequence : Sequence \cup {0}, age : Age, packet : Packet]

\* LatencyTracker with its _Peer; link is None while the other is not tracked.
Tracker == [link : 0..MaxLink, wait : {0, 1}, shown : BOOLEAN, since : 0..(Stale + 1),
            next : Sequence]
Untracked == [link |-> None, wait |-> 0, shown |-> FALSE, since |-> 0, next |-> 1]

What == {"loss", "delay", "break", "outage", "learn", "packet"}

VARIABLES
  up,       \* the connection at each end, once it is connected there
  last,     \* the newest connection
  broken,   \* whether it has ended
  air,      \* messages under way
  tracker,  \* each member's LatencyTracker
  pending,  \* the PINGs it waits for, and how old they are
  suspended,
  roster,   \* each member's copy of the roster
  adapter,  \* the address its adapter has
  used

vars == <<up, last, broken, air, tracker, pending, suspended, roster, adapter, used>>

TypeOK ==
  /\ up \in [Node -> 0..MaxLink] /\ last \in 1..MaxLink
  /\ broken \in BOOLEAN
  /\ air \subseteq Message
  /\ \A m \in air : m.link = last
  /\ tracker \in [Node -> Tracker]
  /\ \A p \in Node : /\ DOMAIN pending[p] \subseteq Sequence
                     /\ Range(pending[p]) \subseteq Age
                     /\ Cardinality(DOMAIN pending[p]) <= MaxPending
  /\ suspended \in [Node -> BOOLEAN]
  /\ roster \in [Node -> Rosters]
  /\ adapter \in [Node -> Address \cup {None}]
  /\ used \in [What -> Nat]

Init ==
  /\ up = [p \in Node |-> None] /\ last = 1 /\ broken = FALSE
  /\ air = {}
  /\ tracker = [p \in Node |-> Untracked]
  /\ pending = [p \in Node |-> <<>>]
  /\ suspended = [p \in Node |-> FALSE]
  /\ \E r \in Rosters : roster = [p \in Node |-> r] /\ \A p \in Node : r[p] # None
  /\ adapter = [p \in Node |-> None]
  /\ used = [w \in What |-> 0]

Spent == MapThenSumSet(LAMBDA w : used[w] * Cost[w], What)

CanSpend(what) == used[what] < Limit[what] /\ Spent + Cost[what] <= MaxSpent

Spend(what) ==
  /\ CanSpend(what)
  /\ used' = [used EXCEPT ![what] = @ + 1]

-----------------------------------------------------------------------------
(***************************************************************************)
(* Packets.                                                                *)
(***************************************************************************)

\* Mutant of Outgoing: a packet from another member is sent on.
OutgoingAny(k, local) ==
  k.carried /\ k.destination # Outside /\ local # None /\ k.destination # local

\* tunnel.outgoing(): may a packet from Windows leave at all?
Outgoing(k, local) ==
  /\ k.carried /\ k.destination # Outside /\ local # None
  /\ k.source = local /\ k.destination # local

\* Mutant of MayDeliver: nothing but the member's own address counts.
MayDeliverOwn(k, local, sender) ==
  /\ k.carried /\ local # None
  /\ k.source \in Address \ {local}
  /\ sender # None => k.source = sender
  /\ k.destination = local

\* ipv4.may_deliver(), also the helper's may_write(): sender is None there.
MayDeliver(k, local, sender) ==
  /\ k.carried /\ k.destination # Outside /\ local # None
  /\ k.source \in Address \ {local}
  /\ sender # None => k.source = sender
  /\ k.destination \in {Everyone, local}

\* tunnel.accepts_packet()
Accepts(k, sender, local) == sender # None /\ MayDeliver(k, local, sender)

\* send_packet(): to the owner of the address, or to every connected member.
Recipients(p, k) ==
  LET q == Other(p) IN
  IF Outgoing(k, roster[p][p]) /\ up[p] # None
     /\ IF k.destination = Everyone THEN roster[p][q] # None
        ELSE roster[p][q] = k.destination
  THEN {q} ELSE {}

ToSend(p, kind, sequence, k) ==
  [kind |-> kind, to |-> Other(p), link |-> up[p], sequence |-> sequence, age |-> 0,
   packet |-> k]

\* Windows sends a packet into the adapter, maybe one it was handed before; the
\* helper passes it on (_forward_packets()).
FromWindows(p) ==
  /\ adapter[p] # None
  /\ Spend("packet")
  /\ \E k \in Packets :
       /\ Recipients(p, k) # {}
       /\ air' = air \cup {ToSend(p, "packet", 0, k) : q \in Recipients(p, k)}
  /\ UNCHANGED <<up, last, broken, tracker, pending, suspended, roster, adapter>>

\* _receive_packet(), and on to Windows through the helper: is it handed over?
Handed(q, k) ==
  /\ Accepts(k, roster[q][Other(q)], roster[q][q])
  /\ adapter[q] # None /\ MayDeliver(k, adapter[q], None)

-----------------------------------------------------------------------------
(***************************************************************************)
(* The round trip.                                                         *)
(***************************************************************************)

\* LatencyTracker.track(): starts over with a connection.
Connection(p) == IF roster[p][Other(p)] # None THEN up[p] ELSE None

Tracked(t, link) ==
  IF t.link = link THEN t ELSE [Untracked EXCEPT !.link = link, !.next = t.next]

\* _expire()
Alive(f) == Restrict(f, {s \in DOMAIN f : f[s] <= Timeout})

\* Mutant of Newest: any number of PINGs may wait.
Everything(f) == f

\* What may wait at once: the oldest number goes.
Newest(f) ==
  IF Cardinality(DOMAIN f) > MaxPending
  THEN Restrict(f, DOMAIN f \ {Min(DOMAIN f)}) ELSE f

\* itertools.count(): numbers above MAX_SEQUENCE are all alike.
After(s) == IF s > MaxSequence THEN s ELSE s + 1

\* Mutant of Due: not while another is waited for, which does not expire.
DueInTurn(t, waiting) == t.link # None /\ t.wait = 0 /\ DOMAIN waiting = {}

\* due(): is a PING to be sent now?
Due(t, waiting) == t.link # None /\ t.wait = 0

\* _ping(), at the end of process().
Ping(p) ==
  /\ p \in Measuring /\ ~suspended[p]
  /\ \E t \in {Tracked(tracker[p], Connection(p))} :
     \E waiting \in {IF t = tracker[p] THEN pending[p] ELSE <<>>} :
       IF Due(t, waiting)
       THEN /\ tracker' = [tracker EXCEPT ![p] = [t EXCEPT !.wait = 1, !.next = After(@)]]
            /\ pending' = [pending EXCEPT ![p] =
                 Newest([s \in DOMAIN Alive(waiting) \cup {t.next} |->
                           IF s = t.next THEN 0 ELSE waiting[s]])]
            /\ air' = air \cup {ToSend(p, "ping", t.next, NoPacket)}
       ELSE /\ t # tracker[p]
            /\ tracker' = [tracker EXCEPT ![p] = t]
            /\ pending' = [pending EXCEPT ![p] = <<>>]
            /\ UNCHANGED air
  /\ UNCHANGED <<up, last, broken, suspended, roster, adapter, used>>

\* pong(): counts only if its PING is still waited for.
Counted(p, m) ==
  IF m.sequence \in DOMAIN Alive(pending[p])
  THEN /\ tracker' = [tracker EXCEPT ![p].shown = TRUE, ![p].since = 0]
       /\ pending' = [pending EXCEPT ![p] = Restrict(@, DOMAIN @ \ {m.sequence})]
  ELSE UNCHANGED <<tracker, pending>>

\* One message in process(): also while suspended, though a PING is answered
\* only if its number is one that PING and PONG may have.
Read(p) ==
  /\ up[p] # None
  /\ \E m \in air :
       /\ m.to = p /\ m.link = up[p]
       /\ CASE m.kind = "packet" ->
                 air' = air \ {m} /\ UNCHANGED <<tracker, pending>>
            [] m.kind = "ping" ->
                 /\ air' = (air \ {m}) \cup
                      IF m.sequence > MaxSequence THEN {}
                      ELSE {[ToSend(p, "pong", m.sequence, NoPacket) EXCEPT !.age = m.age]}
                 /\ UNCHANGED <<tracker, pending>>
            [] OTHER ->
                 Counted(p, m) /\ air' = air \ {m}
  /\ UNCHANGED <<up, last, broken, suspended, roster, adapter, used>>

\* Mutant of Cleared: the numbers start over, too.
ClearedAll(t) == Untracked

\* suspend() forgets what was measured, not the numbers; connections stay.
Cleared(t) == [Untracked EXCEPT !.next = t.next]

Suspend(p) ==
  /\ ~suspended[p] /\ Spend("outage")
  /\ suspended' = [suspended EXCEPT ![p] = TRUE]
  /\ tracker' = [tracker EXCEPT ![p] = Cleared(@)]
  /\ pending' = [pending EXCEPT ![p] = <<>>]
  /\ UNCHANGED <<up, last, broken, air, roster, adapter>>

Resume(p) ==
  /\ suspended[p]
  /\ suspended' = [suspended EXCEPT ![p] = FALSE]
  /\ UNCHANGED <<up, last, broken, air, tracker, pending, roster, adapter, used>>

-----------------------------------------------------------------------------
(***************************************************************************)
(* The rest of the session, Steam and time.                                *)
(***************************************************************************)

\* A new connection replaces a broken one, of which nothing is left.
Renew ==
  /\ broken /\ last < MaxLink /\ \E p \in Node : up[p] = None
  /\ last' = last + 1 /\ broken' = FALSE
  /\ up' = [p \in Node |-> None] /\ air' = {}
  /\ UNCHANGED <<tracker, pending, suspended, roster, adapter, used>>

\* It gets connected at one end, then at the other.
Connect(p) ==
  /\ ~broken /\ up[p] = None
  /\ up' = [up EXCEPT ![p] = last]
  /\ UNCHANGED <<last, broken, air, tracker, pending, suspended, roster, adapter, used>>

\* It ends, and then one end notices, and the other.
Break ==
  /\ ~broken /\ Spend("break") /\ broken' = TRUE
  /\ UNCHANGED <<up, last, air, tracker, pending, suspended, roster, adapter>>

Notice(p) ==
  /\ broken /\ up[p] # None
  /\ up' = [up EXCEPT ![p] = None]
  /\ air' = {m \in air : m.to # p}
  /\ UNCHANGED <<last, broken, tracker, pending, suspended, roster, adapter, used>>

\* _take_roster(): the session follows the coordinator's roster, unless that
\* has another address for this member than the one it has.
Learn(p) ==
  /\ Spend("learn")
  /\ \E r \in Rosters :
       /\ r # roster[p] /\ r[p] = roster[p][p]
       /\ roster' = [roster EXCEPT ![p] = r]
  /\ UNCHANGED <<up, last, broken, air, tracker, pending, suspended, adapter>>

\* The helper gives the adapter the member's address, once.
SetAddress(p) ==
  /\ adapter[p] = None /\ roster[p][p] # None
  /\ adapter' = [adapter EXCEPT ![p] = roster[p][p]]
  /\ UNCHANGED <<up, last, broken, air, tracker, pending, suspended, roster, used>>

Lose ==
  /\ Spend("loss")
  /\ \E m \in air : air' = air \ {m}
  /\ UNCHANGED <<up, last, broken, tracker, pending, suspended, roster, adapter>>

Older(age, limit) == IF age > limit THEN age ELSE age + 1

\* PING_INTERVAL passes.  Nothing is under way that long but what is delayed.
Tick ==
  /\ IF air = {} THEN UNCHANGED used ELSE Spend("delay")
  /\ air' = {[m EXCEPT !.age = Older(@, Timeout)] : m \in air}
  /\ tracker' = [p \in Node |-> [tracker[p] EXCEPT !.wait = 0, !.since = Older(@, Stale)]]
  /\ pending' = [p \in Node |-> [s \in DOMAIN pending[p] |-> Older(pending[p][s], Timeout)]]
  /\ UNCHANGED <<up, last, broken, suspended, roster, adapter>>

-----------------------------------------------------------------------------
Next ==
  \/ Renew \/ Break \/ Lose \/ Tick
  \/ \E p \in Node :
       \/ FromWindows(p) \/ Ping(p) \/ Read(p) \/ Suspend(p) \/ Resume(p)
       \/ Connect(p) \/ Notice(p) \/ Learn(p) \/ SetAddress(p)

Spec == Init /\ [][Next]_vars

\* The window's timer runs process(); a broken connection is noticed and made
\* again (Connections); the link carries what is not lost; time passes.
Fairness ==
  /\ \A p \in Node : WF_vars(Ping(p)) /\ WF_vars(Read(p)) /\ WF_vars(Resume(p))
  /\ WF_vars(Tick)

FairSpec == Spec /\ Fairness

-----------------------------------------------------------------------------
\* Only what a member's own Windows sent under the member's own address goes
\* out: a packet that was handed to a member never travels on, even if its
\* Windows sends it back into the adapter (tunnel.py:18), and the address its
\* session sends under is the one its adapter has, whatever it learns.
OwnTraffic ==
  \A m \in air : m.kind = "packet" =>
    LET p == Other(m.to) IN m.packet.source = adapter[p] /\ m.packet.source = roster[p][p]

\* The two members know each other alike, and the adapter is set up.
Agreed(p, q) ==
  /\ roster[p] = roster[q] /\ \A n \in Node : roster[q][n] # None
  /\ adapter[q] = roster[q][q]

\* What one member's checks let out, the other's let in: a packet under way
\* while both have the same roster reaches Windows, through the checks of the
\* sender, the receiver and the receiver's helper.  (Not one to an address
\* the receiver no longer had when the sender learnt of its new one.)
NothingRejected ==
  \A m \in air :
    /\ m.kind = "packet" /\ Agreed(Other(m.to), m.to)
    /\ m.packet.destination \in {Everyone, roster[m.to][m.to]}
    => Handed(m.to, m.packet)

\* An answer under way is never taken for that to another PING: where its
\* number is waited for, it was sent when the tracker thinks it was, whatever
\* was lost, delayed, replaced or suspended (latency.py:13).
NumbersTrue ==
  \A m \in air : m.kind \in {"ping", "pong"} /\ m.sequence <= MaxSequence =>
    LET p == IF m.kind = "ping" THEN Other(m.to) ELSE m.to IN
    m.sequence \in DOMAIN pending[p] => pending[p][m.sequence] = m.age

\* rtt()
Shown(p) == tracker[p].link # None /\ tracker[p].shown /\ tracker[p].since <= Stale

Linked(p) ==
  /\ \A n \in Node : up[n] = last
  /\ ~broken /\ ~suspended[p] /\ roster[p][Other(p)] # None

Calm == \A what \in What : ~CanSpend(what)

\* After the last message lost or delayed, connection broken and suspension,
\* a member that is connected to another comes to show the round trip to it,
\* as long as there are sequence numbers left.
RttReturns ==
  \A p \in Measuring :
    Calm /\ Linked(p) /\ tracker[p].next <= MaxSequence ~> Shown(p)
=============================================================================

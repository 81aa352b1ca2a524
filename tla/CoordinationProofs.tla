-------------------------- MODULE CoordinationProofs --------------------------
(***************************************************************************)
(* The safety of a network with any PCs, addresses and bounds, and with or *)
(* without Prompt: types, unique addresses, only invited members, and a    *)
(* session that never changes the address of its own PC.                   *)
(*                                                                         *)
(* First what the operators of RosterData preserve of a roster, and what   *)
(* every operator of NetworkSession preserves of a view: its types,        *)
(* rosters without shared addresses in which only invited users are, codes *)
(* and messages with a code only where an invited user has them, and the   *)
(* address of the PC itself.  Then the invariant, action by action.        *)
(***************************************************************************)
EXTENDS Coordination, FiniteSetTheorems, SequenceTheorems, TLAPS

-----------------------------------------------------------------------------
\* The lowest of a set of numbers is one of them: among the intervals 0 .. x
\* there is a smallest one.
LEMMA LowestIsIn ==
  ASSUME NEW S, S \subseteq Nat, S # {}
  PROVE  Lowest(S) \in S
<1> DEFINE T == {0 .. x : x \in S}
<1>1. T \subseteq FiniteSubsetsOf(Nat) /\ T # {}
  <2>1. ASSUME NEW x \in S PROVE 0 .. x \in FiniteSubsetsOf(Nat)
    <3>1. x \in Int /\ 0 \in Int
      OBVIOUS
    <3>2. IsFiniteSet(0 .. x)
      BY <3>1, FS_Interval
    <3> QED BY <3>2 DEF FiniteSubsetsOf
  <2> QED BY <2>1
<1>2. IsWellFoundedOn(StrictSubsetOrdering(Nat), FiniteSubsetsOf(Nat))
  BY FS_StrictSubsetOrderingWellFounded
<1> HIDE DEF T
<1>3. PICK t \in T : \A u \in T : ~ (<<u, t>> \in StrictSubsetOrdering(Nat))
  BY <1>1, <1>2, WFMin
<1>4. PICK x \in S : t = 0 .. x
  BY DEF T
<1>5. \A y \in S : x <= y
  <2> SUFFICES ASSUME NEW y \in S, ~ (x <= y) PROVE FALSE
    OBVIOUS
  <2>1. 0 .. y \in T
    BY DEF T
  <2>2. 0 .. y \subseteq 0 .. x /\ 0 .. y # 0 .. x
    <3>1. x \in Nat /\ y \in Nat /\ y < x
      OBVIOUS
    <3>2. x \in 0 .. x /\ x \notin 0 .. y
      BY <3>1
    <3> QED BY <3>1, <3>2
  <2>3. <<0 .. y, 0 .. x>> \in StrictSubsetOrdering(Nat)
    BY <2>2 DEF StrictSubsetOrdering
  <2> QED BY <1>3, <1>4, <2>1, <2>3
<1> QED BY <1>5 DEF Lowest

\* An empty roster is one, and nobody is in it.
LEMMA EmptyRoster == Empty \in Roster /\ WellFormed(Empty) /\ Members(Empty) = {}
BY DEF Empty, Roster, WellFormed, Members

\* assign() yields a roster without shared addresses, with at most the one
\* new member, and leaves the address of every member alone.
LEMMA AssignKeepsApart ==
  ASSUME NEW r \in Roster, WellFormed(r), NEW m \in Node, NEW wanted
  PROVE  /\ Assign(r, m, wanted) \in Roster
         /\ WellFormed(Assign(r, m, wanted))
         /\ Members(Assign(r, m, wanted)) \subseteq Members(r) \cup {m}
         /\ \A o \in Members(r) : Assign(r, m, wanted)[o] = r[o]
<1>1. CASE r[m] # NoAddr \/ Full(r, m)
  BY <1>1 DEF Assign
<1>2. CASE ~ (r[m] # NoAddr \/ Full(r, m))
  <2> DEFINE a == IF wanted \in Free(r) THEN wanted ELSE Lowest(Free(r))
  <2>1. a \in Free(r)
    <3>1. Free(r) \subseteq Nat /\ Free(r) # {}
      BY <1>2, AddrAssumption DEF Full, Free
    <3> QED BY <3>1, LowestIsIn
  <2>2. Assign(r, m, wanted) = [r EXCEPT ![m] = a]
    BY <1>2 DEF Assign
  <2>3. a \in Addr /\ \A o \in Members(r) : r[o] # a
    BY <2>1 DEF Free, Used
  <2> HIDE DEF a
  <2> QED BY <1>2, <2>2, <2>3 DEF Roster, WellFormed, Members
<1> QED BY <1>1, <1>2

\* Taking users out of a roster leaves the others as they are.
LEMMA WithoutKeepsApart ==
  ASSUME NEW r \in Roster, WellFormed(r), NEW gone
  PROVE  /\ Without(r, gone) \in Roster
         /\ WellFormed(Without(r, gone))
         /\ Members(Without(r, gone)) = Members(r) \ gone
         /\ \A o \in Node \ gone : Without(r, gone)[o] = r[o]
BY DEF Without, Roster, WellFormed, Members

-----------------------------------------------------------------------------
GoodRoster(r) == r \in Roster /\ WellFormed(r) /\ Members(r) \subseteq Invited

\* What is said, by its kind.
LEMMA MessageKinds ==
  ASSUME NEW msg \in Message
  PROVE  /\ msg.kind \in {"auth", "accepted", "denied", "leave"} /\ msg.code \in BOOLEAN
         /\ msg.kind = "accepted" => msg = Accepted(msg.code)
         /\ msg.kind = "leave" => msg = Leave
BY DEF Message, Accepted, Leave

LEMMA Messages ==
  /\ \A code \in BOOLEAN, wanted \in Addr \cup {NoAddr} : Auth(code, wanted) \in Message
  /\ \A code \in BOOLEAN : Accepted(code) \in Message
  /\ Denied \in Message /\ Leave \in Message
  /\ \A code, wanted : Auth(code, wanted).kind = "auth" /\ Auth(code, wanted).code = code
  /\ \A code : Accepted(code).kind = "accepted" /\ Accepted(code).code = code
  /\ Denied.kind = "denied" /\ ~Denied.code /\ Leave.kind = "leave" /\ ~Leave.code
BY DEF Message, Auth, Accepted, Denied, Leave

\* A message with the code is from, or for, somebody who was invited.
Fit(m, n) == {msg \in Message : msg.code => (IF msg.kind = "auth" THEN m ELSE n) \in Invited}

GoodSession(s, n) ==
  /\ s \in Session
  /\ GoodRoster(s.roster) /\ GoodRoster(s.known)
  /\ s.code => n \in Invited

GoodLobby(lob) == lob \in Lobby /\ GoodRoster(lob.data)

GoodChannels(c) == c \in Channels /\ \A m, n \in Node : c[m][n] \in Seq(Fit(m, n))

GoodView(w, n) ==
  w \in WorldView /\ GoodSession(w.s, n) /\ GoodLobby(w.lobby) /\ GoodChannels(w.chan)

InSession(w, t) == [w EXCEPT !.s = t]

\* A PC that has an address keeps it.
KeepsOwn(s, t, n) == Joined(s, n) => t.roster[n] = s.roster[n]

-----------------------------------------------------------------------------
LEMMA EmptyIsGood == GoodRoster(Empty)
BY EmptyRoster DEF GoodRoster

LEMMA BlankIsGood == \A n \in Node : GoodSession(Blank, n)
BY EmptyIsGood DEF Blank, GoodSession, Session, Empty, Roster, NoNode

LEMMA NewSessionIsGood ==
  ASSUME NEW n \in Node, NEW known, GoodRoster(known), NEW code \in BOOLEAN, code => n \in Invited
  PROVE  GoodSession(NewSession(n, known, code), n)
<1> DEFINE r == IF Members(known) = {n} THEN known ELSE Empty
<1>1. GoodRoster(r)
  BY EmptyIsGood
<1>2. Members(known) \in SUBSET Node
  BY DEF Members
<1>3. Blank \in Session
  BY BlankIsGood DEF GoodSession
<1>4. NewSession(n, known, code) = [Blank EXCEPT !.known = known, !.trusted = Members(known),
                                                 !.code = code, !.roster = r]
  BY DEF NewSession
<1> HIDE DEF r
<1>5. r \in Roster /\ known \in Roster
  BY <1>1 DEF GoodRoster
<1> QED BY <1>1, <1>2, <1>3, <1>4, <1>5 DEF GoodSession, Session

-----------------------------------------------------------------------------
\* Taking a roster.
LEMMA TakeRosterIsGood ==
  ASSUME NEW n \in Node, NEW s, GoodSession(s, n), NEW writer, NEW text, GoodRoster(text)
  PROVE  /\ GoodSession(TakeRoster(s, n, writer, text), n)
         /\ KeepsOwn(s, TakeRoster(s, n, writer, text), n)
<1> DEFINE taken == [s EXCEPT !.left = (@ \ (Members(text) \ Members(s.roster))) \cap Members(text),
                              !.roster = text,
                              !.trusted = @ \cup Members(text)]
           fits == WellFormed(text) /\ (Joined(s, n) => text[n] = s.roster[n])
           takes == writer \in s.trusted /\ text # Empty /\ text # s.roster /\ fits
<1>1. Members(text) \in SUBSET Node
  BY DEF Members
<1>2. GoodSession(taken, n) /\ taken.roster = text
  BY <1>1 DEF GoodSession, Session, GoodRoster
<1>3. TakeRoster(s, n, writer, text) = IF takes THEN taken ELSE s
  BY DEF TakeRoster
<1> HIDE DEF taken
<1> QED BY <1>2, <1>3 DEF KeepsOwn

LEMMA FollowIsGood ==
  ASSUME NEW n \in Node, NEW s, GoodSession(s, n), NEW lob, GoodLobby(lob)
  PROVE  GoodSession(Follow(s, n, lob), n) /\ KeepsOwn(s, Follow(s, n, lob), n)
<1> DEFINE now == [s EXCEPT !.coord = lob.owner]
           taken == TakeRoster(now, n, lob.owner, lob.data)
           over == TakeRoster(now, n, s.coord, lob.data)
           back == [taken EXCEPT !.roster = s.known]
<1>1. GoodSession(now, n) /\ now.roster = s.roster
  BY DEF GoodSession, Session, GoodLobby, Lobby
<1>2. GoodRoster(lob.data)
  BY DEF GoodLobby
<1> HIDE DEF now
<1>3. GoodSession(taken, n) /\ KeepsOwn(now, taken, n)
  BY <1>1, <1>2, TakeRosterIsGood
<1>4. GoodSession(over, n) /\ KeepsOwn(now, over, n)
  BY <1>1, <1>2, TakeRosterIsGood
<1> HIDE DEF taken, over
<1>5. GoodSession(back, n)
  BY <1>3 DEF GoodSession, Session, GoodRoster
<1>6. ~ Joined(taken, n) => ~ Joined(s, n)
  BY <1>1, <1>3 DEF KeepsOwn, Joined
<1>7. Follow(s, n, lob) =
        IF lob.owner = n /\ Joined(s, n)
        THEN IF s.coord # n THEN over ELSE now
        ELSE IF lob.owner = n /\ ~Joined(taken, n) /\ Joined([s EXCEPT !.roster = s.known], n)
                   /\ lob.data = Empty
        THEN back ELSE taken
  BY DEF Follow, now, taken, over
<1> HIDE DEF back
<1> QED BY <1>1, <1>3, <1>4, <1>5, <1>6, <1>7 DEF KeepsOwn, Joined

LEMMA SyncIsGood ==
  ASSUME NEW n \in Node, NEW w, GoodView(w, n)
  PROVE  GoodView(Sync(w, n), n) /\ KeepsOwn(w.s, Sync(w, n).s, n)
<1> DEFINE t == Follow(w.s, n, w.lobby)
<1>1. GoodSession(t, n) /\ KeepsOwn(w.s, t, n)
  BY FollowIsGood DEF GoodView
<1>2. Sync(w, n) = IF w.on /\ n \in w.lobby.members THEN [w EXCEPT !.s = t] ELSE w
  BY DEF Sync
<1> HIDE DEF t
<1>3. GoodView([w EXCEPT !.s = t], n) /\ [w EXCEPT !.s = t].s = t
  BY <1>1 DEF GoodView, WorldView, GoodSession
<1> QED BY <1>1, <1>2, <1>3 DEF KeepsOwn

-----------------------------------------------------------------------------
\* Sending and publishing.
LEMMA FitIsMessage == \A m, n \in Node : Fit(m, n) \subseteq Message
BY DEF Fit

LEMMA SendIsGood ==
  ASSUME NEW n \in Node, NEW w, GoodView(w, n), NEW to, NEW msg, \A m \in to : msg \in Fit(n, m)
  PROVE  GoodView(Send(w, n, to, msg), n) /\ Send(w, n, to, msg).s = w.s
<1> DEFINE row == [m \in Node |-> IF m \in to THEN Append(w.chan[n][m], msg) ELSE w.chan[n][m]]
           c == [w.chan EXCEPT ![n] = row]
<1>1. w.chan \in Channels /\ \A a, b \in Node : w.chan[a][b] \in Seq(Fit(a, b))
  BY DEF GoodView, GoodChannels
<1>2. \A m \in Node : row[m] \in Seq(Fit(n, m))
  <2> TAKE m \in Node
  <2>1. CASE m \in to
    BY <2>1, <1>1, AppendProperties
  <2>2. CASE m \notin to
    BY <2>2, <1>1
  <2> QED BY <2>1, <2>2
<1>3. row \in [Node -> Seq(Message)]
  <2>1. \A m \in Node : row[m] \in Seq(Message)
    <3> TAKE m \in Node
    <3> HIDE DEF row
    <3>1. Fit(n, m) \subseteq Message
      BY FitIsMessage
    <3>2. Seq(Fit(n, m)) \subseteq Seq(Message)
      BY <3>1, SeqMonotonic
    <3> QED BY <1>2, <3>2
  <2> QED BY <2>1
<1> HIDE DEF row
<1>4. GoodChannels(c)
  BY <1>1, <1>2, <1>3 DEF GoodChannels, Channels
<1>5. Send(w, n, to, msg) = [w EXCEPT !.chan = c]
  BY <1>1 DEF Send, c, row, GoodView, WorldView, Channels
<1> HIDE DEF c
<1> QED BY <1>4, <1>5 DEF GoodView, WorldView, GoodChannels

LEMMA PublishIsGood ==
  ASSUME NEW n \in Node, NEW w, GoodView(w, n)
  PROVE  GoodView(Publish(w, n), n) /\ Publish(w, n).s = w.s
<1> DEFINE t == [w EXCEPT !.lobby.data = w.s.roster]
<1>1. GoodLobby(t.lobby)
  BY DEF GoodView, WorldView, GoodSession, GoodRoster, GoodLobby, Lobby
<1>2. t \in WorldView /\ t.s = w.s /\ t.chan = w.chan
  BY <1>1 DEF GoodView, WorldView, GoodLobby
<1> HIDE DEF t
<1>3. Publish(w, n) = t \/ Publish(w, n) = w
  BY DEF Publish, t
<1> QED BY <1>1, <1>2, <1>3 DEF GoodView

LEMMA DenyIsGood ==
  ASSUME NEW n \in Node, NEW w, GoodView(w, n), NEW guests
  PROVE  GoodView(Deny(w, n, guests), n) /\ Deny(w, n, guests).s.roster = w.s.roster
<1> DEFINE sent == Send(w, n, guests \cap ConnectedPeers(w, n), Denied)
           up == {p \in sent.conn : ~ \E g \in guests : p = {n, g}}
           deaf == [sent.s EXCEPT !.blocked = @ \cup (guests \cap w.lobby.members)]
<1>1. \A m \in guests \cap ConnectedPeers(w, n) : Denied \in Fit(n, m)
  BY Messages DEF Fit
<1>2. GoodView(sent, n) /\ sent.s = w.s
  BY <1>1, SendIsGood
<1>3. w.lobby.members \in SUBSET Node
  BY DEF GoodView, GoodLobby, Lobby
<1> HIDE DEF sent
<1>4. GoodSession(deaf, n) /\ deaf.roster = w.s.roster
  BY <1>2, <1>3 DEF GoodView, GoodSession, Session
<1>5. up \subseteq Pairs
  BY <1>2 DEF GoodView, WorldView
<1>6. Deny(w, n, guests) = [sent EXCEPT !.conn = up, !.s = deaf]
  BY <1>2 DEF Deny, sent, GoodView, WorldView
<1> HIDE DEF up, deaf
<1> QED BY <1>2, <1>4, <1>5, <1>6 DEF GoodView, WorldView, GoodSession

LEMMA AcceptIsGood ==
  ASSUME NEW n \in Node, NEW w, GoodView(w, n), NEW guest \in Invited
  PROVE  GoodView(Accept(w, n, guest), n) /\ Accept(w, n, guest).s = w.s
<1>1. w.s.code \in BOOLEAN
  BY DEF GoodView, GoodSession, Session
<1>2. Accepted(w.s.code) \in Fit(n, guest)
  BY <1>1, Messages DEF Fit
<1> QED BY <1>2, SendIsGood DEF Accept

-----------------------------------------------------------------------------
\* The coordinator's work.
LEMMA AdmitIsGood ==
  ASSUME NEW n \in Node, NEW w, GoodView(w, n),
         NEW guest \in Node, NEW msg \in Fit(guest, n), msg.kind = "auth"
  PROVE  GoodView(Admit(w, n, guest, msg), n) /\ KeepsOwn(w.s, Admit(w, n, guest, msg).s, n)
<1> DEFINE r == Assign(w.s.roster, guest, msg.addr)
           let == [w EXCEPT !.s.roster = r, !.s.left = @ \ {guest}, !.s.trusted = @ \cup {guest}]
           miss == [w EXCEPT !.s.failures[guest] = @ + 1]
           rightCode == w.s.code /\ msg.code
<1>1. CASE w.s.roster[guest] # NoAddr
  <2>1. guest \in Invited
    BY <1>1 DEF GoodView, GoodSession, GoodRoster, Members
  <2>2. Admit(w, n, guest, msg) = Accept(w, n, guest)
    BY <1>1 DEF Admit
  <2> QED BY <2>1, <2>2, AcceptIsGood DEF KeepsOwn
<1>2. CASE w.s.roster[guest] = NoAddr /\ rightCode /\ Admit(w, n, guest, msg) = Accept(Publish(let, n), n, guest)
  <2>1. guest \in Invited
    BY <1>2 DEF Fit
  <2>2. GoodRoster(r) /\ \A o \in Members(w.s.roster) : r[o] = w.s.roster[o]
    BY <2>1, AssignKeepsApart DEF GoodView, GoodSession, GoodRoster
  <2> HIDE DEF r
  <2>3. GoodSession(let.s, n) /\ let.s.roster = r /\ let \in WorldView
    BY <2>2 DEF GoodView, WorldView, GoodSession, Session, GoodRoster
  <2>4. GoodView(let, n) /\ KeepsOwn(w.s, let.s, n)
    BY <2>2, <2>3 DEF GoodView, WorldView, KeepsOwn, Joined, Members
  <2> HIDE DEF let
  <2> QED BY <1>2, <2>1, <2>4, PublishIsGood, AcceptIsGood
<1>3. CASE Admit(w, n, guest, msg) = Deny(w, n, {guest})
  BY <1>3, DenyIsGood DEF KeepsOwn
<1>4. CASE Admit(w, n, guest, msg) = Deny(miss, n, {guest})
  <2> DEFINE f == [w.s.failures EXCEPT ![guest] = @ + 1]
  <2>c. w.s.failures \in [Node -> Nat]
    BY DEF GoodView, GoodSession, Session
  <2>d. w.s.failures[guest] + 1 \in Nat
    BY <2>c
  <2>a. f \in [Node -> Nat]
    BY <2>c, <2>d
  <2>b. miss = [w EXCEPT !.s = [w.s EXCEPT !.failures = f]]
    BY DEF GoodView, GoodSession, Session, WorldView
  <2> HIDE DEF f, miss
  <2>1. GoodSession(miss.s, n) /\ miss.s.roster = w.s.roster /\ miss \in WorldView
    BY <2>a, <2>b DEF GoodView, WorldView, GoodSession, Session
  <2>2. GoodView(miss, n)
    BY <2>1, <2>b DEF GoodView, WorldView
  <2> QED BY <1>4, <2>1, <2>2, DenyIsGood DEF KeepsOwn
<1> HIDE DEF let, miss
<1>5. \/ w.s.roster[guest] # NoAddr
      \/ /\ w.s.roster[guest] = NoAddr /\ rightCode
         /\ Admit(w, n, guest, msg) = Accept(Publish(let, n), n, guest)
      \/ Admit(w, n, guest, msg) = Deny(w, n, {guest})
      \/ Admit(w, n, guest, msg) = Deny(miss, n, {guest})
  BY DEF Admit, let, miss
<1> QED BY <1>1, <1>2, <1>3, <1>4, <1>5

LEMMA CoordinateIsGood ==
  ASSUME NEW n \in Node, NEW w, GoodView(w, n), NEW silent
  PROVE  GoodView(Coordinate(w, n, silent), n) /\ KeepsOwn(w.s, Coordinate(w, n, silent).s, n)
<1> DEFINE r == Without(w.s.roster, w.s.left \ {n})
           t == [w EXCEPT !.s.roster = r]
<1>1. GoodRoster(r) /\ r[n] = w.s.roster[n]
  BY WithoutKeepsApart DEF GoodView, GoodSession, GoodRoster
<1> HIDE DEF r
<1>2. GoodSession(t.s, n) /\ t.s.roster = r /\ t \in WorldView
  BY <1>1 DEF GoodView, WorldView, GoodSession, Session, GoodRoster
<1>3. GoodView(t, n)
  BY <1>2 DEF GoodView, WorldView
<1>4. Coordinate(w, n, silent) = Deny(Publish(t, n), n, silent)
  BY DEF Coordinate, r, t
<1> HIDE DEF t
<1> QED BY <1>1, <1>2, <1>3, <1>4, PublishIsGood, DenyIsGood DEF KeepsOwn

-----------------------------------------------------------------------------
\* Messages, and the ticks of the others.
LEMMA WithSession ==
  ASSUME NEW n \in Node, NEW w, GoodView(w, n), NEW t, GoodSession(t, n)
  PROVE  GoodView(InSession(w, t), n) /\ InSession(w, t).s = t
BY DEF InSession, GoodView, WorldView, GoodSession

LEMMA HandleIsGood ==
  ASSUME NEW n \in Node, NEW w, GoodView(w, n), NEW from \in Node, NEW msg \in Fit(from, n)
  PROVE  GoodView(Handle(w, n, from, msg), n) /\ KeepsOwn(w.s, Handle(w, n, from, msg).s, n)
<1> DEFINE gone == [w.s EXCEPT !.left = @ \cup {from}]
           told == [w.s EXCEPT !.trusted = @ \cup {from}, !.code = TRUE]
           sent == [w.s EXCEPT !.refused = "denied"]
<1>1. GoodSession(gone, n) /\ gone.roster = w.s.roster
  BY DEF GoodView, GoodSession, Session
<1>2. GoodSession(sent, n) /\ sent.roster = w.s.roster
  BY DEF GoodView, GoodSession, Session
<1>3. msg.kind = "accepted" /\ msg.code => GoodSession(told, n) /\ told.roster = w.s.roster
  BY DEF GoodView, GoodSession, Session, Fit
<1>4. msg.kind \in {"auth", "accepted", "denied", "leave"}
  BY MessageKinds DEF Fit
<1>5. w \in WorldView
  BY DEF GoodView
<1> HIDE DEF gone, told, sent
<1>6. CASE msg.kind = "auth"
  <2>1. Handle(w, n, from, msg) = Admit(w, n, from, msg) \/ Handle(w, n, from, msg) = w
    BY <1>6 DEF Handle
  <2> QED BY <1>6, <2>1, AdmitIsGood DEF KeepsOwn
<1>7. CASE msg.kind = "leave"
  <2>1. Handle(w, n, from, msg) = InSession(w, gone) \/ Handle(w, n, from, msg) = w
    BY <1>5, <1>7 DEF Handle, InSession, gone, WorldView, Session
  <2> QED BY <1>1, <2>1, WithSession DEF KeepsOwn
<1>8. CASE msg.kind = "accepted"
  <2>1. \/ Handle(w, n, from, msg) = w
        \/ msg.code /\ Handle(w, n, from, msg) = InSession(w, told)
    BY <1>5, <1>8 DEF Handle, InSession, told, WorldView, Session
  <2> QED BY <1>3, <1>8, <2>1, WithSession DEF KeepsOwn
<1>9. CASE msg.kind = "denied"
  <2>1. Handle(w, n, from, msg) = InSession(w, sent) \/ Handle(w, n, from, msg) = w
    BY <1>5, <1>9 DEF Handle, InSession, sent, WorldView, Session
  <2> QED BY <1>2, <2>1, WithSession DEF KeepsOwn
<1> QED BY <1>4, <1>6, <1>7, <1>8, <1>9

LEMMA RefusedIsGood ==
  ASSUME NEW n \in Node, NEW w, GoodView(w, n), NEW why \in {"", "denied", "unavailable"}
  PROVE  /\ GoodView([w EXCEPT !.s.refused = why], n)
         /\ [w EXCEPT !.s.refused = why].s.roster = w.s.roster
<1> DEFINE t == [w.s EXCEPT !.refused = why]
<1>1. GoodSession(t, n) /\ t.roster = w.s.roster
  BY DEF GoodView, GoodSession, Session
<1>2. [w EXCEPT !.s.refused = why] = InSession(w, t)
  BY DEF InSession, GoodView, WorldView
<1> HIDE DEF t
<1>3. GoodView(InSession(w, t), n) /\ InSession(w, t).s = t
  BY <1>1, WithSession
<1> QED BY <1>1, <1>2, <1>3

LEMMA HandOffIsGood ==
  ASSUME NEW n \in Node, NEW w, GoodView(w, n)
  PROVE  GoodView(HandOff(w, n), n) /\ HandOff(w, n).s.roster = w.s.roster
<1> DEFINE online == Members(w.lobby.data) \cap (w.lobby.members \ {n})
           given == [w EXCEPT !.lobby.owner = Lowest(online)]
<1>1. CASE online = {}
  <2>1. HandOff(w, n) = [w EXCEPT !.s.refused = "unavailable"]
    BY <1>1 DEF HandOff
  <2> QED BY <2>1, RefusedIsGood
<1>2. CASE online # {}
  <2>1. online \in SUBSET Nat
    BY NodeAssumption DEF Members
  <2>2. Lowest(online) \in online
    BY <1>2, <2>1, LowestIsIn
  <2>3. Lowest(online) \in Node
    BY <2>2 DEF Members
  <2>4. given.s = w.s /\ given.chan = w.chan /\ given \in WorldView
    BY <2>3 DEF GoodView, WorldView, GoodLobby, Lobby
  <2>5. GoodLobby(given.lobby)
    BY <2>3 DEF GoodView, WorldView, GoodLobby, Lobby
  <2>6. HandOff(w, n) = given \/ HandOff(w, n) = w
    BY <1>2 DEF HandOff
  <2> HIDE DEF given
  <2> QED BY <2>4, <2>5, <2>6 DEF GoodView
<1> QED BY <1>1, <1>2

LEMMA MemberChecksIsGood ==
  ASSUME NEW n \in Node, NEW w, GoodView(w, n), NEW late
  PROVE  /\ GoodView(MemberChecks(w, n, late), n)
         /\ MemberChecks(w, n, late).s.roster = w.s.roster
<1> DEFINE msg == Auth(w.s.code, w.s.known[n])
           sent == Send(w, n, {w.s.coord}, msg)
           asked == [sent.s EXCEPT !.authSent = w.s.coord]
<1>1. msg \in Message /\ msg.kind = "auth" /\ (msg.code => n \in Invited)
  <2>1. w.s.code \in BOOLEAN /\ w.s.known[n] \in Addr \cup {NoAddr} /\ (w.s.code => n \in Invited)
    BY DEF GoodView, GoodSession, GoodRoster, Session, Roster
  <2> QED BY <2>1, Messages
<1>2. \A m \in {w.s.coord} : msg \in Fit(n, m)
  BY <1>1 DEF Fit
<1>3. GoodView(sent, n) /\ sent.s = w.s
  BY <1>2, SendIsGood
<1>4. MemberChecks(w, n, late) \in
        {[sent EXCEPT !.s.authSent = w.s.coord], [w EXCEPT !.s.refused = "unavailable"], w}
  BY DEF MemberChecks, sent, msg
<1> HIDE DEF sent, msg
<1>5. GoodSession(asked, n) /\ asked.roster = w.s.roster
  BY <1>3 DEF GoodView, GoodSession, Session
<1>6. [sent EXCEPT !.s.authSent = w.s.coord] = InSession(sent, asked)
  BY <1>3 DEF InSession, GoodView, WorldView
<1> HIDE DEF asked
<1>7. GoodView([w EXCEPT !.s.refused = "unavailable"], n)
      /\ [w EXCEPT !.s.refused = "unavailable"].s.roster = w.s.roster
  BY RefusedIsGood
<1>8. GoodView(InSession(sent, asked), n) /\ InSession(sent, asked).s = asked
  BY <1>3, <1>5, WithSession
<1> QED BY <1>3, <1>4, <1>5, <1>6, <1>7, <1>8

-----------------------------------------------------------------------------
\* Leaving.
LEMMA AnnounceIsGood ==
  ASSUME NEW n \in Node, NEW w, GoodView(w, n)
  PROVE  GoodView(Announce(w, n), n)
<1> DEFINE r == Without(w.s.roster, {n})
           t == [w EXCEPT !.s.roster = r]
<1>1. GoodRoster(r)
  BY WithoutKeepsApart DEF GoodView, GoodSession, GoodRoster
<1> HIDE DEF r
<1>2. GoodSession(t.s, n) /\ t \in WorldView
  BY <1>1 DEF GoodView, WorldView, GoodSession, Session, GoodRoster
<1>3. GoodView(t, n)
  BY <1>2 DEF GoodView, WorldView
<1>4. \A m \in Node : Leave \in Fit(n, m)
  BY Messages DEF Fit
<1>5. \A v : ConnectedPeers(v, n) \subseteq Node
  BY DEF ConnectedPeers
<1>6. Announce(w, n) \in {Send(Publish(t, n), n, ConnectedPeers(w, n), Leave),
                          Send(w, n, ConnectedPeers(w, n), Leave), w}
  BY <1>3 DEF Announce, t, r, ConnectedPeers
<1> HIDE DEF t
<1> QED BY <1>3, <1>4, <1>5, <1>6, PublishIsGood, SendIsGood

LEMMA CutIsGood ==
  ASSUME NEW n \in Node, NEW w, GoodView(w, n), NEW lost
  PROVE  GoodView(Cut(w, n, lost), n) /\ Cut(w, n, lost).s = w.s /\ Cut(w, n, lost).lobby = w.lobby
<1> DEFINE c == [a \in Node |-> [b \in Node |->
                   IF b = n \/ (a = n /\ b \in lost) THEN <<>> ELSE w.chan[a][b]]]
           up == {p \in w.conn : n \notin p}
<1>1. GoodChannels(c)
  BY EmptySeq DEF GoodView, GoodChannels, Channels
<1>2. up \subseteq Pairs
  BY DEF GoodView, WorldView
<1>3. Cut(w, n, lost) = [w EXCEPT !.conn = up, !.chan = c]
  BY DEF Cut, GoodView, WorldView
<1> HIDE DEF c, up
<1> QED BY <1>1, <1>2, <1>3 DEF GoodView, WorldView, GoodChannels

-----------------------------------------------------------------------------
\* The inductive invariant.  On its own "only invited users are members" is
\* not inductive: a code on its way, a code a session has, and a roster that
\* an offline or restoring PC will come back with have to be covered.
SharedInv == GoodLobby(lobby) /\ conn \subseteq Pairs /\ GoodChannels(chan)

SessionInv == session \in [Node -> Session] /\ \A n \in Node : GoodSession(session[n], n)

ModeInv ==
  /\ mode \in [Node -> Mode]
  /\ \A n \in Node : mode[n] \in {"rejoin", "retry", "goodbye"} => n \in Invited

SavedInv ==
  /\ saved \in [Node -> Roster]
  /\ \A n \in Node : GoodRoster(saved[n]) /\ (saved[n] # Empty => n \in Invited)

RestInv ==
  /\ logged \in [Node -> BOOLEAN]
  /\ turn \in Node \cup {NoNode}
  /\ used \in [Kinds -> [Node -> Nat]]

IInv == SharedInv /\ SessionInv /\ ModeInv /\ SavedInv /\ RestInv

\* The action of OwnAddressStable.
OwnKept ==
  \A n \in Node :
     /\ mode[n] \in {"online", "suspended"} /\ mode'[n] \in {"online", "suspended"}
     /\ Joined(session[n], n)
     => session'[n].roster[n] = session[n].roster[n]

LEMMA InvImplies == IInv => TypeOK /\ UniqueAddresses /\ OnlyInvited
<1> SUFFICES ASSUME IInv PROVE TypeOK /\ UniqueAddresses /\ OnlyInvited
  OBVIOUS
<1>1. TypeOK
  BY DEF IInv, SharedInv, SessionInv, ModeInv, SavedInv, RestInv, TypeOK, GoodLobby, GoodChannels
<1>2. UniqueAddresses
  BY DEF IInv, SharedInv, SessionInv, SavedInv, UniqueAddresses, GoodLobby, GoodSession, GoodRoster
<1>3. OnlyInvited
  BY DEF IInv, SharedInv, SessionInv, SavedInv, OnlyInvited, GoodLobby, GoodSession, GoodRoster
<1> QED BY <1>1, <1>2, <1>3

-----------------------------------------------------------------------------
\* The initial state.
LEMMA InitInv == Init => IInv
<1> SUFFICES ASSUME Init PROVE IInv
  OBVIOUS
<1> DEFINE first == [Empty EXCEPT ![Creator] = Lowest(Addr)]
           started == [NewSession(Creator, first, TRUE) EXCEPT !.coord = Creator]
<1>1. Creator \in Node /\ Creator \in Invited
  BY CreatorAssumption
<1>2. Lowest(Addr) \in Addr
  BY AddrAssumption, LowestIsIn
<1>3. GoodRoster(first)
  <2>1. first \in Roster
    BY <1>1, <1>2 DEF Empty, Roster
  <2>2. Members(first) \subseteq {Creator}
    BY DEF Members, Empty
  <2> HIDE DEF first
  <2> QED BY <1>1, <2>1, <2>2 DEF GoodRoster, WellFormed
<1> HIDE DEF first
<1>4. GoodSession(NewSession(Creator, first, TRUE), Creator)
  BY <1>1, <1>3, NewSessionIsGood
<1>5. GoodSession(started, Creator)
  BY <1>1, <1>4 DEF GoodSession, Session
<1> HIDE DEF started
<1>6. session = [n \in Node |-> IF n = Creator THEN started ELSE Blank]
  BY DEF Init, started, first
<1>7. SessionInv
  BY <1>5, <1>6, BlankIsGood DEF SessionInv, GoodSession
<1>8. GoodLobby(lobby)
  BY <1>1, EmptyIsGood DEF Init, GoodLobby, Lobby, GoodRoster
<1>9. GoodChannels(chan)
  BY EmptySeq DEF Init, GoodChannels, Channels
<1>10. ModeInv
  BY DEF Init, ModeInv, Mode, Live
<1>11. SavedInv
  BY EmptyIsGood DEF Init, SavedInv, GoodRoster
<1>12. RestInv
  BY <1>1 DEF Init, RestInv
<1> QED BY <1>7, <1>8, <1>9, <1>10, <1>11, <1>12 DEF IInv, SharedInv, Init

-----------------------------------------------------------------------------
\* What the actions are built from.
LEMMA ViewIsGood == ASSUME IInv, NEW n \in Node PROVE GoodView(View(n), n)
BY DEF IInv, SharedInv, SessionInv, RestInv, View, GoodView, WorldView, GoodLobby, GoodChannels

LEMMA SpendIsFine ==
  ASSUME RestInv, NEW n \in Node, NEW kind \in Kinds, Spend(kind, n)
  PROVE  used' \in [Kinds -> [Node -> Nat]]
<1> DEFINE row == [used[kind] EXCEPT ![n] = used[kind][n] + 1]
<1>1. used[kind] \in [Node -> Nat]
  BY DEF RestInv
<1>2. used[kind][n] + 1 \in Nat
  BY <1>1
<1>3. row \in [Node -> Nat]
  BY <1>1, <1>2
<1>4. used' = [used EXCEPT ![kind] = row]
  BY DEF Spend
<1> HIDE DEF row
<1> QED BY <1>3, <1>4 DEF RestInv

LEMMA TimeoutIsFine ==
  ASSUME RestInv, NEW n \in Node, NEW late, Timeout(late, n)
  PROVE  used' \in [Kinds -> [Node -> Nat]]
BY SpendIsFine DEF Timeout, Kinds, RestInv

LEMMA ForgetPeerIsGood ==
  ASSUME NEW n \in Node, NEW m \in Node, NEW s, GoodSession(s, m)
  PROVE  /\ GoodSession([s EXCEPT !.blocked = @ \ {n}], m)
         /\ [s EXCEPT !.blocked = @ \ {n}].roster = s.roster
<1>1. s \in Session
  BY DEF GoodSession
<1>2. s.blocked \ {n} \in SUBSET Node
  BY <1>1 DEF Session
<1>3. [s EXCEPT !.blocked = @ \ {n}] \in Session
  BY <1>1, <1>2 DEF Session
<1> QED BY <1>1, <1>3 DEF GoodSession, Session

LEMMA UnblockIsGood ==
  ASSUME NEW n \in Node, NEW ses, ses \in [Node -> Session],
         \A m \in Node : GoodSession(ses[m], m)
  PROVE  /\ Unblock(ses, n) \in [Node -> Session]
         /\ \A m \in Node : /\ GoodSession(Unblock(ses, n)[m], m)
                            /\ Unblock(ses, n)[m].roster = ses[m].roster
<1>1. \A m \in Node : Unblock(ses, n)[m] = [ses[m] EXCEPT !.blocked = @ \ {n}]
  BY DEF Unblock
<1>2. \A m \in Node : GoodSession([ses[m] EXCEPT !.blocked = @ \ {n}], m)
                      /\ [ses[m] EXCEPT !.blocked = @ \ {n}].roster = ses[m].roster
  BY ForgetPeerIsGood
<1> QED BY <1>1, <1>2 DEF Unblock, GoodSession

LEMMA GoneIsGood == GoodLobby(GoneLobby)
BY EmptyIsGood DEF GoneLobby, GoodLobby, Lobby, GoodRoster

LEMMA OutOfIsGood ==
  ASSUME NEW n \in Node, NEW lob, GoodLobby(lob), NEW heir \in Heirs(n, lob)
  PROVE  GoodLobby(OutOf(lob, n, heir))
<1>1. heir \in Node \cup {NoNode}
  BY DEF GoodLobby, Lobby, Heirs
<1>2. GoodLobby([lob EXCEPT !.members = @ \ {n}, !.owner = heir])
  BY <1>1 DEF GoodLobby, Lobby
<1> QED BY <1>2, GoneIsGood DEF OutOf

LEMMA CloseIsGood ==
  ASSUME IInv, NEW n \in Node, NEW w, GoodView(w, n), NEW linger, CloseNetwork(w, n, linger)
  PROVE  SharedInv' /\ SessionInv' /\ ModeInv' /\ OwnKept
<1> PICK heir \in Heirs(n, w.lobby),
         lost \in {{}, IF linger THEN {} ELSE ConnectedPeers(w, n)} :
      /\ Show(IF w.on THEN [Cut(w, n, lost) EXCEPT !.lobby = OutOf(@, n, heir)]
              ELSE Cut(w, n, lost))
      /\ session' = Unblock([session EXCEPT ![n] = Blank], n)
      /\ mode' = [mode EXCEPT ![n] = "out"]
  BY DEF CloseNetwork
<1>1. GoodView(Cut(w, n, lost), n) /\ Cut(w, n, lost).lobby = w.lobby
  BY CutIsGood
<1>2. GoodLobby(OutOf(w.lobby, n, heir))
  BY OutOfIsGood DEF GoodView
<1> DEFINE cut == Cut(w, n, lost)
<1> HIDE DEF cut
<1>3. conn' = cut.conn /\ chan' = cut.chan /\ lobby' \in {OutOf(w.lobby, n, heir), w.lobby}
  BY <1>1 DEF Show, cut, GoodView, WorldView
<1>4. SharedInv'
  BY <1>1, <1>2, <1>3 DEF SharedInv, GoodView, WorldView, cut
<1> DEFINE ses == [session EXCEPT ![n] = Blank]
<1>5. ses \in [Node -> Session] /\ \A m \in Node : GoodSession(ses[m], m)
  BY BlankIsGood DEF IInv, SessionInv, GoodSession
<1>6. \A m \in Node \ {n} : ses[m].roster = session[m].roster
  BY DEF IInv, SessionInv
<1> HIDE DEF ses
<1>7. session' = Unblock(ses, n)
  BY DEF ses
<1>8. SessionInv'
  BY <1>5, <1>7, UnblockIsGood DEF SessionInv
<1>9. ModeInv'
  BY DEF IInv, ModeInv, Mode
<1>10. OwnKept
  <2> SUFFICES ASSUME NEW m \in Node, mode'[m] \in {"online", "suspended"}
               PROVE  session'[m].roster = session[m].roster
    BY DEF OwnKept
  <2>1. m # n
    BY DEF IInv, ModeInv
  <2> QED BY <1>5, <1>6, <1>7, <2>1, UnblockIsGood
<1> QED BY <1>4, <1>8, <1>9, <1>10

\* A session that goes on: what the view of its PC has become.
LEMMA KeepIsGood ==
  ASSUME IInv, NEW n \in Node, NEW w, GoodView(w, n), NEW as \in Live, KeepOpen(w, n, as),
         as # "farewell" => KeepsOwn(session[n], w.s, n)
  PROVE  SharedInv' /\ SessionInv' /\ ModeInv' /\ OwnKept
<1>1. SharedInv'
  BY DEF KeepOpen, Show, SharedInv, GoodView, WorldView
<1>2. SessionInv'
  BY DEF KeepOpen, IInv, SessionInv, GoodView, GoodSession
<1>3. ModeInv'
  BY DEF KeepOpen, IInv, ModeInv, Mode, Live
<1>4. OwnKept
  BY DEF KeepOpen, IInv, SessionInv, ModeInv, OwnKept, KeepsOwn
<1> QED BY <1>1, <1>2, <1>3, <1>4

\* A PC that is in its own roster saves only what makes it an invited member.
LEMMA SaveIsGood ==
  ASSUME IInv, NEW n \in Node, NEW r, GoodRoster(r), r[n] # NoAddr \/ r = Empty,
         saved' = [saved EXCEPT ![n] = r]
  PROVE  SavedInv'
<1>1. r # Empty => n \in Invited
  BY DEF GoodRoster, Members
<1> QED BY <1>1 DEF IInv, SavedInv, GoodRoster

LEMMA ForgetIsGood ==
  ASSUME IInv, NEW n \in Node, saved' = [saved EXCEPT ![n] = Empty]
  PROVE  SavedInv'
BY SaveIsGood, EmptyIsGood

LEMMA SavedStays == ASSUME IInv, UNCHANGED saved PROVE SavedInv'
BY DEF IInv, SavedInv

LEMMA CheckNetworkIsGood ==
  ASSUME IInv, NEW n \in Node, NEW w, GoodView(w, n), KeepsOwn(session[n], w.s, n),
         CheckNetwork(w, n)
  PROVE  SharedInv' /\ SessionInv' /\ ModeInv' /\ SavedInv' /\ OwnKept
<1>1. CASE Joined(w.s, n)
  <2>1. KeepOpen(w, n, "online") /\ saved' = [saved EXCEPT ![n] = w.s.roster]
    BY <1>1 DEF CheckNetwork
  <2>2. GoodRoster(w.s.roster) /\ w.s.roster[n] # NoAddr
    BY <1>1 DEF GoodView, GoodSession, Joined
  <2> QED BY <2>1, <2>2, KeepIsGood, SaveIsGood DEF Live
<1>2. CASE ~Joined(w.s, n) /\ w.s.refused = ""
  <2>1. KeepOpen(w, n, "online") /\ UNCHANGED saved
    BY <1>2 DEF CheckNetwork
  <2> QED BY <2>1, KeepIsGood, SavedStays DEF Live
<1>3. CASE ~Joined(w.s, n) /\ w.s.refused # ""
  <2>1. CloseNetwork(w, n, FALSE)
    BY <1>3 DEF CheckNetwork
  <2>2. saved' = [saved EXCEPT ![n] = Empty] \/ UNCHANGED saved
    BY <1>3 DEF CheckNetwork
  <2> QED BY <2>1, <2>2, CloseIsGood, ForgetIsGood, SavedStays
<1> QED BY <1>1, <1>2, <1>3

LEMMA FarewellIsGood ==
  ASSUME IInv, NEW n \in Node, NEW w, GoodView(w, n), NEW late, Farewell(w, n, late)
  PROVE  SharedInv' /\ SessionInv' /\ ModeInv' /\ OwnKept
<1>1. CASE CloseNetwork(Announce(w, n), n, TRUE)
  BY <1>1, AnnounceIsGood, CloseIsGood
<1>2. CASE KeepOpen(w, n, "farewell")
  BY <1>2, KeepIsGood DEF Live
<1> QED BY <1>1, <1>2 DEF Farewell

LEMMA EndTickIsGood ==
  ASSUME IInv, NEW n \in Node, NEW w, GoodView(w, n), KeepsOwn(session[n], w.s, n),
         NEW late, EndTick(w, n, late)
  PROVE  /\ SharedInv' /\ SessionInv' /\ ModeInv' /\ SavedInv' /\ OwnKept
         /\ turn' = NoNode /\ UNCHANGED logged
<1>1. turn' = NoNode /\ UNCHANGED logged
  BY DEF EndTick
<1>2. CASE mode[n] = "online"
  <2>1. CheckNetwork(w, n)
    BY <1>2 DEF EndTick
  <2> QED BY <1>1, <2>1, CheckNetworkIsGood
<1>3. CASE mode[n] # "online"
  <2>1. Farewell(w, n, late) /\ UNCHANGED saved
    BY <1>3 DEF EndTick
  <2> QED BY <1>1, <2>1, FarewellIsGood, SavedStays
<1> QED BY <1>2, <1>3

-----------------------------------------------------------------------------
\* The actions, one by one.
Step == IInv' /\ OwnKept

LEMMA ReceiveStep == ASSUME IInv, NEW n \in Node, Receive(n) PROVE Step
<1> PICK from \in Node : 
      /\ chan[from][n] # <<>>
      /\ \E taken \in {[View(n) EXCEPT !.chan[from][n] = Tail(@)]} :
             \E w \in {Handle(taken, n, from, Head(chan[from][n]))} :
             Show(w) /\ session' = [session EXCEPT ![n] = w.s]
  BY DEF Receive
<1> DEFINE taken == [View(n) EXCEPT !.chan[from][n] = Tail(@)]
           msg == Head(chan[from][n])
           w == Handle(taken, n, from, msg)
<1>1. chan[from][n] \in Seq(Fit(from, n)) /\ chan \in Channels
  BY DEF IInv, SharedInv, GoodChannels
<1>2. msg \in Fit(from, n) /\ Tail(chan[from][n]) \in Seq(Fit(from, n))
  BY <1>1, HeadTailProperties
<1>3. GoodView(taken, n) /\ taken.s = session[n]
  <2> DEFINE row == [chan[from] EXCEPT ![n] = Tail(chan[from][n])]
             c == [chan EXCEPT ![from] = row]
  <2>1. Tail(chan[from][n]) \in Seq(Message)
    BY <1>1 DEF Channels
  <2>2. row \in [Node -> Seq(Message)] /\ \A m \in Node : row[m] \in Seq(Fit(from, m))
    BY <1>1, <1>2, <2>1 DEF Channels, IInv, SharedInv, GoodChannels
  <2> HIDE DEF row
  <2>3. GoodChannels(c)
    BY <2>2 DEF Channels, IInv, SharedInv, GoodChannels
  <2>4. taken = [View(n) EXCEPT !.chan = c]
    BY DEF View, row
  <2> HIDE DEF c, taken
  <2>5. GoodView(View(n), n) /\ View(n).s = session[n]
    BY ViewIsGood DEF View
  <2>6. [View(n) EXCEPT !.chan = c].s = View(n).s
    BY <2>5 DEF View
  <2> QED BY <2>3, <2>4, <2>5, <2>6 DEF GoodView, WorldView, GoodChannels
<1> HIDE DEF taken, msg
<1>4. GoodView(w, n) /\ KeepsOwn(session[n], w.s, n)
  BY <1>2, <1>3, HandleIsGood
<1>5. Show(w) /\ session' = [session EXCEPT ![n] = w.s]
  BY DEF taken, msg
<1> HIDE DEF w
<1>6. SharedInv'
  BY <1>4, <1>5 DEF Show, SharedInv, GoodView, WorldView
<1>7. SessionInv'
  BY <1>4, <1>5 DEF IInv, SessionInv, GoodView, GoodSession
<1>8. UNCHANGED <<mode, saved, logged, used>> /\ turn' \in {NoNode, n}
  BY DEF Receive
<1>9. ModeInv' /\ SavedInv' /\ RestInv'
  BY <1>8, SavedStays DEF IInv, ModeInv, RestInv
<1>10. OwnKept
  BY <1>4, <1>5 DEF OwnKept, KeepsOwn, IInv, SessionInv
<1> QED BY <1>6, <1>7, <1>9, <1>10 DEF Step, IInv

LEMMA TickEnds ==
  ASSUME IInv, NEW n \in Node, NEW w, GoodView(w, n), KeepsOwn(session[n], w.s, n),
         NEW late, EndTick(w, n, late), used' \in [Kinds -> [Node -> Nat]]
  PROVE  Step
<1>1. RestInv'
  BY EndTickIsGood DEF RestInv, IInv
<1> QED BY <1>1, EndTickIsGood DEF Step, IInv

\* Every tick starts with what the lobby says now.
LEMMA SyncView ==
  ASSUME IInv, NEW n \in Node
  PROVE  GoodView(Sync(View(n), n), n) /\ KeepsOwn(session[n], Sync(View(n), n).s, n)
<1>1. GoodView(View(n), n) /\ View(n).s = session[n]
  BY ViewIsGood DEF View
<1> QED BY <1>1, SyncIsGood

LEMMA CoordinatorTickStep == ASSUME IInv, NEW n \in Node, CoordinatorTick(n) PROVE Step
<1> DEFINE w == Sync(View(n), n)
<1>1. PICK silent : Timeout(silent # {}, n) /\ EndTick(Coordinate(w, n, silent), n, FALSE)
  BY DEF CoordinatorTick
<1>2. GoodView(w, n) /\ KeepsOwn(session[n], w.s, n)
  BY SyncView
<1> HIDE DEF w
<1>3. GoodView(Coordinate(w, n, silent), n) /\ KeepsOwn(w.s, Coordinate(w, n, silent).s, n)
  BY <1>2, CoordinateIsGood
<1>4. KeepsOwn(session[n], Coordinate(w, n, silent).s, n)
  BY <1>2, <1>3 DEF KeepsOwn, Joined
<1>5. used' \in [Kinds -> [Node -> Nat]]
  BY <1>1, TimeoutIsFine DEF IInv
<1> QED BY <1>1, <1>3, <1>4, <1>5, TickEnds

LEMMA HandOffTickStep == ASSUME IInv, NEW n \in Node, HandOffTick(n) PROVE Step
<1> DEFINE w == Sync(View(n), n)
<1>1. EndTick(HandOff(w, n), n, FALSE) /\ UNCHANGED used
  BY DEF HandOffTick
<1>2. GoodView(w, n) /\ KeepsOwn(session[n], w.s, n)
  BY SyncView
<1> HIDE DEF w
<1>3. GoodView(HandOff(w, n), n) /\ HandOff(w, n).s.roster = w.s.roster
  BY <1>2, HandOffIsGood
<1>4. KeepsOwn(session[n], HandOff(w, n).s, n)
  BY <1>2, <1>3 DEF KeepsOwn
<1>5. used' \in [Kinds -> [Node -> Nat]]
  BY <1>1 DEF IInv, RestInv
<1> QED BY <1>1, <1>3, <1>4, <1>5, TickEnds

LEMMA MemberTickStep ==
  ASSUME IInv, NEW n \in Node, NEW late \in BOOLEAN, MemberTick(n, late) PROVE Step
<1> DEFINE w == Sync(View(n), n)
<1>1. Timeout(late, n) /\ EndTick(MemberChecks(w, n, late), n, late)
  BY DEF MemberTick
<1>2. GoodView(w, n) /\ KeepsOwn(session[n], w.s, n)
  BY SyncView
<1> HIDE DEF w
<1>3. GoodView(MemberChecks(w, n, late), n) /\ MemberChecks(w, n, late).s.roster = w.s.roster
  BY <1>2, MemberChecksIsGood
<1>4. KeepsOwn(session[n], MemberChecks(w, n, late).s, n)
  BY <1>2, <1>3 DEF KeepsOwn
<1>5. used' \in [Kinds -> [Node -> Nat]]
  BY <1>1, TimeoutIsFine DEF IInv
<1> QED BY <1>1, <1>3, <1>4, <1>5, TickEnds

-----------------------------------------------------------------------------
\* Events that leave every session alone.
LEMMA SessionsStay == ASSUME IInv, UNCHANGED session PROVE SessionInv' /\ OwnKept
BY DEF IInv, SessionInv, OwnKept

LEMMA EnterIsGood == ASSUME IInv, NEW n \in Node, EnterLobby(n) PROVE GoodLobby(lobby')
BY DEF IInv, SharedInv, EnterLobby, GoodLobby, Lobby

LEMMA JoinLobbyStep == ASSUME IInv, NEW n \in Node, JoinLobby(n) PROVE Step
<1>1. SharedInv'
  BY EnterIsGood DEF JoinLobby, IInv, SharedInv
<1>2. ModeInv'
  BY DEF JoinLobby, IInv, ModeInv, SavedInv, Mode, Pending
<1>3. RestInv'
  BY SpendIsFine DEF JoinLobby, IInv, RestInv, Kinds
<1>4. SavedInv' /\ SessionInv' /\ OwnKept
  BY SavedStays, SessionsStay DEF JoinLobby
<1> QED BY <1>1, <1>2, <1>3, <1>4 DEF Step, IInv

LEMMA WaitForSteamStep == ASSUME IInv, NEW n \in Node, WaitForSteam(n) PROVE Step
<1>1. SharedInv'
  BY DEF WaitForSteam, IInv, SharedInv
<1>2. ModeInv'
  BY DEF WaitForSteam, IInv, ModeInv, SavedInv, Mode
<1>3. RestInv'
  BY SpendIsFine DEF WaitForSteam, IInv, RestInv, Kinds
<1>4. SavedInv' /\ SessionInv' /\ OwnKept
  BY SavedStays, SessionsStay DEF WaitForSteam
<1> QED BY <1>1, <1>2, <1>3, <1>4 DEF Step, IInv

LEMMA LeaveUnheardStep == ASSUME IInv, NEW n \in Node, LeaveUnheard(n) PROVE Step
<1>1. SharedInv' /\ ModeInv' /\ RestInv'
  BY DEF LeaveUnheard, IInv, SharedInv, ModeInv, RestInv
<1>2. SavedInv' /\ SessionInv' /\ OwnKept
  BY ForgetIsGood, SessionsStay DEF LeaveUnheard
<1> QED BY <1>1, <1>2 DEF Step, IInv

LEMMA LogStep == ASSUME IInv, NEW n \in Node, LogOff(n) \/ LogOn(n) PROVE Step
<1>1. SharedInv' /\ ModeInv'
  BY DEF LogOff, LogOn, IInv, SharedInv, ModeInv
<1>2. RestInv'
  BY SpendIsFine DEF LogOff, LogOn, IInv, RestInv, Kinds
<1>3. SavedInv' /\ SessionInv' /\ OwnKept
  BY SavedStays, SessionsStay DEF LogOff, LogOn
<1> QED BY <1>1, <1>2, <1>3 DEF Step, IInv

LEMMA LoseConnectionStep == ASSUME IInv, NEW n \in Node, LoseConnection(n) PROVE Step
<1>1. SharedInv' /\ ModeInv' /\ RestInv'
  BY DEF LoseConnection, IInv, SharedInv, ModeInv, RestInv, Mode, Live
<1>2. SavedInv' /\ SessionInv' /\ OwnKept
  BY SavedStays, SessionsStay DEF LoseConnection
<1> QED BY <1>1, <1>2 DEF Step, IInv

LEMMA RejoinLobbyStep == ASSUME IInv, NEW n \in Node, RejoinLobby(n) PROVE Step
<1>1. SharedInv'
  BY EnterIsGood DEF RejoinLobby, IInv, SharedInv
<1>2. ModeInv' /\ RestInv'
  BY DEF RejoinLobby, IInv, ModeInv, RestInv
<1>3. SavedInv' /\ SessionInv' /\ OwnKept
  BY SavedStays, SessionsStay DEF RejoinLobby
<1> QED BY <1>1, <1>2, <1>3 DEF Step, IInv

LEMMA ConnectStep == ASSUME IInv, NEW n \in Node, Connect(n) PROVE Step
<1> PICK m \in lobby.members : n < m /\ conn' = conn \cup {{n, m}}
  BY DEF Connect
<1>1. m \in Node
  BY DEF IInv, SharedInv, GoodLobby, Lobby
<1>2. n # m
  BY <1>1, NodeAssumption
<1>3. {n, m} \in Pairs
  BY <1>1, <1>2 DEF Pairs
<1>4. SharedInv' /\ ModeInv' /\ RestInv'
  BY <1>3 DEF Connect, IInv, SharedInv, ModeInv, RestInv
<1>5. SavedInv' /\ SessionInv' /\ OwnKept
  BY SavedStays, SessionsStay DEF Connect
<1> QED BY <1>4, <1>5 DEF Step, IInv

LEMMA EmptyChannelIsGood ==
  ASSUME NEW c, GoodChannels(c), NEW m \in Node, NEW n \in Node
  PROVE  GoodChannels([c EXCEPT ![m][n] = <<>>])
<1> DEFINE row == [c[m] EXCEPT ![n] = <<>>]
<1>1. row \in [Node -> Seq(Message)] /\ \A o \in Node : row[o] \in Seq(Fit(m, o))
  BY EmptySeq DEF GoodChannels, Channels
<1>2. [c EXCEPT ![m][n] = <<>>] = [c EXCEPT ![m] = row]
  OBVIOUS
<1> HIDE DEF row
<1> QED BY <1>1, <1>2 DEF GoodChannels, Channels

LEMMA LinkDropsStep == ASSUME IInv, NEW n \in Node, LinkDrops(n) PROVE Step
<1> PICK m \in Node :
      conn' = conn \ {{n, m}}
      /\ (chan' = chan \/ chan' = [chan EXCEPT ![n][m] = <<>>, ![m][n] = <<>>])
  BY DEF LinkDrops
<1>1. GoodChannels(chan')
  <2>1. GoodChannels([chan EXCEPT ![n][m] = <<>>])
    BY EmptyChannelIsGood DEF IInv, SharedInv
  <2>2. GoodChannels([[chan EXCEPT ![n][m] = <<>>] EXCEPT ![m][n] = <<>>])
    BY <2>1, EmptyChannelIsGood
  <2> QED BY <2>2 DEF IInv, SharedInv
<1>2. SharedInv' /\ ModeInv'
  BY <1>1 DEF LinkDrops, IInv, SharedInv, ModeInv
<1>3. RestInv'
  BY SpendIsFine DEF LinkDrops, IInv, RestInv, Kinds
<1>4. SavedInv' /\ SessionInv' /\ OwnKept
  BY SavedStays, SessionsStay DEF LinkDrops
<1> QED BY <1>2, <1>3, <1>4 DEF Step, IInv

-----------------------------------------------------------------------------
\* Events that start, carry on, or end a session.
LEMMA JoinResultStep == ASSUME IInv, NEW n \in Node, JoinResult(n) PROVE Step
<1> DEFINE new == CASE mode[n] = "join" -> NewSession(n, Empty, n \in Invited)
                    [] mode[n] \in {"rejoin", "retry"} -> NewSession(n, saved[n], TRUE)
                    [] mode[n] = "goodbye" -> NewSession(n, session[n].known, TRUE)
<1>1. mode[n] \in {"join", "rejoin", "retry", "goodbye"}
  BY DEF JoinResult, Pending
<1>2. GoodSession(new, n)
  <2>1. mode[n] = "join" => GoodSession(NewSession(n, Empty, n \in Invited), n)
    <3>1. \A code \in BOOLEAN : (code => n \in Invited) => GoodSession(NewSession(n, Empty, code), n)
      BY EmptyIsGood, NewSessionIsGood
    <3>2. (n \in Invited) \in BOOLEAN
      OBVIOUS
    <3> QED BY ONLY <3>1, <3>2, Zenon
  <2>2. mode[n] \in {"rejoin", "retry", "goodbye"} => n \in Invited
    BY DEF IInv, ModeInv
  <2>3. GoodRoster(saved[n]) /\ GoodRoster(session[n].known)
    BY DEF IInv, SavedInv, SessionInv, GoodSession
  <2>4. mode[n] \in {"rejoin", "retry"} => GoodSession(NewSession(n, saved[n], TRUE), n)
    BY <2>2, <2>3, NewSessionIsGood
  <2>5. mode[n] = "goodbye" => GoodSession(NewSession(n, session[n].known, TRUE), n)
    BY <2>2, <2>3, NewSessionIsGood
  <2> QED BY <1>1, <2>1, <2>4, <2>5
<1>3. session' = [session EXCEPT ![n] = Follow(new, n, lobby)]
  BY DEF JoinResult
<1> HIDE DEF new
<1>4. GoodSession(Follow(new, n, lobby), n)
  BY <1>2, FollowIsGood DEF IInv, SharedInv
<1>5. SessionInv'
  BY <1>3, <1>4 DEF IInv, SessionInv, GoodSession
<1>6. SharedInv' /\ ModeInv' /\ RestInv'
  BY DEF JoinResult, IInv, SharedInv, ModeInv, RestInv, Mode, Live
<1>7. SavedInv'
  BY SavedStays DEF JoinResult
<1>8. OwnKept
  BY <1>1, <1>3 DEF OwnKept, IInv, SessionInv
<1> QED BY <1>5, <1>6, <1>7, <1>8 DEF Step, IInv

\* A session that is given up without leaving the lobby.
LEMMA BlankIsStep ==
  ASSUME IInv, NEW n \in Node, session' = [session EXCEPT ![n] = Blank],
         mode' = [mode EXCEPT ![n] = "out"]
  PROVE  SessionInv' /\ ModeInv' /\ OwnKept
<1>1. SessionInv'
  BY BlankIsGood DEF IInv, SessionInv, GoodSession
<1>2. ModeInv'
  BY DEF IInv, ModeInv, Mode
<1>3. OwnKept
  BY DEF IInv, SessionInv, ModeInv, OwnKept
<1> QED BY <1>1, <1>2, <1>3

LEMMA JoinFailedStep == ASSUME IInv, NEW n \in Node, JoinFailed(n) PROVE Step
<1>1. SessionInv'
  BY BlankIsGood DEF JoinFailed, IInv, SessionInv, GoodSession
<1>2. ModeInv'
  BY DEF JoinFailed, IInv, ModeInv, Mode
<1>3. OwnKept
  BY DEF JoinFailed, IInv, SessionInv, ModeInv, OwnKept
<1>4. SharedInv' /\ RestInv' /\ SavedInv'
  BY SavedStays DEF JoinFailed, IInv, SharedInv, RestInv
<1> QED BY <1>1, <1>2, <1>3, <1>4 DEF Step, IInv

LEMMA CrashStep == ASSUME IInv, NEW n \in Node, Crash(n) PROVE Step
<1>1. SessionInv' /\ ModeInv' /\ OwnKept
  BY BlankIsStep DEF Crash
<1>2. PICK lost : Show(Cut(View(n), n, lost))
  BY DEF Crash
<1>3. GoodView(Cut(View(n), n, lost), n)
  BY ViewIsGood, CutIsGood
<1>4. SharedInv'
  BY <1>2, <1>3 DEF Show, SharedInv, GoodView, WorldView
<1>5. RestInv' /\ SavedInv'
  BY SavedStays, SpendIsFine DEF Crash, IInv, RestInv, Kinds
<1> QED BY <1>1, <1>4, <1>5 DEF Step, IInv

\* A session that ends while the PC may forget the network.
LEMMA GoOutStep ==
  ASSUME IInv, NEW n \in Node, GoOut(n), SavedInv', UNCHANGED <<logged, turn, used>>
  PROVE  Step
<1>1. RestInv'
  BY DEF IInv, RestInv
<1>2. CASE CloseNetwork(View(n), n, FALSE)
  <2>1. SharedInv' /\ SessionInv' /\ ModeInv' /\ OwnKept
    BY <1>2, ViewIsGood, CloseIsGood
  <2> QED BY <1>1, <2>1 DEF Step, IInv
<1>3. CASE Abandon(n)
  <2>1. SessionInv' /\ ModeInv' /\ OwnKept
    BY <1>3, BlankIsStep DEF Abandon
  <2>2. SharedInv'
    BY <1>3 DEF Abandon, IInv, SharedInv
  <2> QED BY <1>1, <2>1, <2>2 DEF Step, IInv
<1> QED BY <1>2, <1>3 DEF GoOut

LEMMA NetworkGoneStep == ASSUME IInv, NEW n \in Node, NetworkGone(n) PROVE Step
BY GoOutStep, ForgetIsGood DEF NetworkGone

LEMMA LeaveSuspendedStep == ASSUME IInv, NEW n \in Node, LeaveSuspended(n) PROVE Step
BY GoOutStep, ForgetIsGood DEF LeaveSuspended

LEMMA GiveUpStep == ASSUME IInv, NEW n \in Node, GiveUp(n) PROVE Step
BY GoOutStep, SavedStays DEF GiveUp

LEMMA GoOfflineStep == ASSUME IInv, NEW n \in Node, GoOffline(n) PROVE Step
<1>1. \/ Joined(session[n], n) /\ saved' = [saved EXCEPT ![n] = session[n].roster]
      \/ UNCHANGED saved
  BY DEF GoOffline
<1>2. GoodRoster(session[n].roster)
  BY DEF IInv, SessionInv, GoodSession
<1>3. SavedInv'
  BY <1>1, <1>2, SaveIsGood, SavedStays DEF Joined
<1> QED BY <1>3, GoOutStep DEF GoOffline

LEMMA LeaveOnlineStep == ASSUME IInv, NEW n \in Node, LeaveOnline(n) PROVE Step
<1>1. SharedInv' /\ SessionInv' /\ ModeInv' /\ OwnKept
  BY ViewIsGood, FarewellIsGood DEF LeaveOnline
<1>2. SavedInv'
  BY ForgetIsGood DEF LeaveOnline
<1>3. RestInv'
  BY DEF LeaveOnline, IInv, RestInv
<1> QED BY <1>1, <1>2, <1>3 DEF Step, IInv

LEMMA LeaveOfflineStep == ASSUME IInv, NEW n \in Node, LeaveOffline(n) PROVE Step
<1> DEFINE to == [Blank EXCEPT !.known = saved[n]]
<1>1. GoodRoster(saved[n]) /\ n \in Invited
  BY DEF LeaveOffline, IInv, SavedInv
<1>2. GoodSession(to, n)
  <2>1. GoodSession(Blank, n)
    BY BlankIsGood
  <2>2. to.known = saved[n] /\ to.roster = Blank.roster /\ to.code = FALSE /\ to \in Session
    BY <1>1, <2>1 DEF Blank, GoodSession, GoodRoster, Session
  <2> QED BY <1>1, <2>1, <2>2 DEF GoodSession
<1>3. session' = [session EXCEPT ![n] = to] /\ mode' = [mode EXCEPT ![n] = "goodbye"]
  BY DEF LeaveOffline
<1> HIDE DEF to
<1>4. SessionInv'
  BY <1>2, <1>3 DEF IInv, SessionInv, GoodSession
<1>5. ModeInv'
  BY <1>1, <1>3 DEF IInv, ModeInv, Mode, Pending
<1>6. OwnKept
  BY <1>3 DEF OwnKept, IInv, SessionInv, ModeInv
<1>7. SharedInv'
  BY EnterIsGood DEF LeaveOffline, IInv, SharedInv
<1>8. SavedInv'
  BY ForgetIsGood DEF LeaveOffline
<1>9. RestInv'
  BY SpendIsFine DEF LeaveOffline, IInv, RestInv, Kinds
<1> QED BY <1>4, <1>5, <1>6, <1>7, <1>8, <1>9 DEF Step, IInv

LEMMA SteamDropsStep == ASSUME IInv, NEW n \in Node, SteamDrops(n) PROVE Step
<1>1. PICK heir \in Heirs(n, lobby), lost \in {{}, IF logged[n] THEN {} ELSE Node} :
        /\ conn' = {p \in conn : n \notin p}
        /\ chan' = chan \/ chan' = Cut(View(n), n, lost).chan
        /\ lobby' = OutOf(lobby, n, heir)
  BY DEF SteamDrops
<1>2. GoodView(Cut(View(n), n, lost), n)
  BY ViewIsGood, CutIsGood
<1>3. GoodLobby(lobby')
  BY <1>1, OutOfIsGood DEF IInv, SharedInv
<1>4. SharedInv'
  BY <1>1, <1>2, <1>3 DEF IInv, SharedInv, GoodView
<1>5. session' = Unblock(session, n)
  BY DEF SteamDrops
<1>6. SessionInv' /\ OwnKept
  BY <1>5, UnblockIsGood DEF IInv, SessionInv, OwnKept
<1>7. ModeInv' /\ SavedInv' /\ RestInv'
  BY SavedStays DEF SteamDrops, IInv, ModeInv, RestInv
<1> QED BY <1>4, <1>6, <1>7 DEF Step, IInv

LEMMA AskAgainIsGood ==
  ASSUME NEW n \in Node, NEW s, GoodSession(s, n)
  PROVE  /\ GoodSession([s EXCEPT !.refused = "", !.authSent = NoNode], n)
         /\ [s EXCEPT !.refused = "", !.authSent = NoNode].roster = s.roster
<1>1. s \in Session
  BY DEF GoodSession
<1>2. [s EXCEPT !.refused = "", !.authSent = NoNode] \in Session
  BY <1>1 DEF Session
<1> QED BY <1>1, <1>2 DEF GoodSession, Session

LEMMA RestoredStep == ASSUME IInv, NEW n \in Node, Restored(n) PROVE Step
<1> DEFINE t == [session[n] EXCEPT !.refused = "", !.authSent = NoNode]
<1>1. GoodSession(t, n) /\ t.roster = session[n].roster
  <2>1. GoodSession(session[n], n)
    BY DEF IInv, SessionInv
  <2> QED BY <2>1, AskAgainIsGood
<1>2. session' = session \/ session' = [session EXCEPT ![n] = t]
  BY DEF Restored, IInv, SessionInv
<1> HIDE DEF t
<1>3. SessionInv' /\ OwnKept
  BY <1>1, <1>2 DEF IInv, SessionInv, OwnKept, GoodSession
<1>4. SharedInv' /\ ModeInv' /\ RestInv'
  BY DEF Restored, IInv, SharedInv, ModeInv, RestInv, Mode, Live
<1>5. SavedInv'
  BY SavedStays DEF Restored
<1> QED BY <1>3, <1>4, <1>5 DEF Step, IInv

-----------------------------------------------------------------------------
\* Whatever a PC does, the invariant stays and no session loses its address.
LEMMA NextInv == IInv /\ [Next]_vars => IInv' /\ [OwnKept]_vars
<1> SUFFICES ASSUME IInv, [Next]_vars PROVE IInv' /\ [OwnKept]_vars
  OBVIOUS
<1>1. CASE UNCHANGED vars
  BY <1>1 DEF vars, IInv, SharedInv, SessionInv, ModeInv, SavedInv, RestInv
<1>2. ASSUME NEW n \in Node, Tick(n) PROVE Step
  BY <1>2, ReceiveStep, CoordinatorTickStep, HandOffTickStep, MemberTickStep DEF Tick
<1>3. ASSUME NEW n \in Node, Event(n) PROVE Step
  BY <1>3, JoinLobbyStep, WaitForSteamStep, JoinResultStep, JoinFailedStep, NetworkGoneStep, GoOfflineStep,
     LeaveOnlineStep, LeaveSuspendedStep, LeaveOfflineStep, LeaveUnheardStep, LogStep,
     LoseConnectionStep,
     SteamDropsStep, RejoinLobbyStep, RestoredStep, GiveUpStep, CrashStep, ConnectStep,
     LinkDropsStep DEF Event
<1>4. CASE Next
  <2>1. PICK n \in Node : Tick(n) \/ Event(n)
    BY <1>4 DEF Next
  <2> QED BY <1>2, <1>3, <2>1 DEF Step
<1> QED BY <1>1, <1>4

LEMMA Invariance == Spec => []IInv
<1>1. Init => IInv
  BY InitInv
<1>2. IInv /\ [Next]_vars => IInv'
  BY NextInv
<1> QED BY <1>1, <1>2, PTL DEF Spec

\* Every variable has the type its component's code gives it.
THEOREM TypeCorrect == Spec => []TypeOK
BY Invariance, InvImplies, PTL

\* However PCs join, leave, crash, lose Steam and take the lobby over, no
\* roster anywhere ever has one address twice (roster.py, assign; network.py,
\* _take_roster).
THEOREM AddressesAreUnique == Spec => []UniqueAddresses
BY Invariance, InvImplies, PTL

\* A user without the access code is never in a roster, in the lobby, in a
\* session or in a state file, whoever coordinates (network.py, _admit).
THEOREM MembersAreInvited == Spec => []OnlyInvited
BY Invariance, InvImplies, PTL

\* While a session goes on, restored or not, no roster it takes changes the
\* address of its own PC (network.py, _take_roster and _sync).
THEOREM OwnAddressIsStable == Spec => OwnAddressStable
<1>1. IInv /\ [Next]_vars => [OwnKept]_vars
  BY NextInv
<1>2. Spec => [][OwnKept]_vars
  BY <1>1, Invariance, PTL DEF Spec
<1> QED BY <1>2 DEF OwnAddressStable, OwnKept
=============================================================================

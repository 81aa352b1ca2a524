---------------------------- MODULE PromiseProofs ----------------------------
(***************************************************************************)
(* No two PCs ever count on one address, and the network keeps the promise *)
(* of AddressBook, while Steam stays reachable, no app is killed and a     *)
(* user that left comes back only when the others have forgotten it.       *)
(***************************************************************************)
EXTENDS CoordinationProofs

-----------------------------------------------------------------------------
\* The invariant.  What a session holds that the argument is about.
SameCore(s, t) ==
  /\ t.coord = s.coord /\ t.roster = s.roster /\ t.known = s.known
  /\ t.trusted = s.trusted /\ t.left = s.left

Awake == {n \in Node : mode[n] \in {"online", "farewell"}}
Active == {n \in Awake : Joined(session[n], n)}

\* The addresses a PC has, came back with, or will come back with; and the
\* PCs that count on the lobby's roster: they have one, were just accepted, or
\* trust somebody to write a roster for them.
Addresses(n) == {session[n].roster[n], session[n].known[n], saved[n][n]} \ {NoAddr}
Counts(n) ==
  \/ Addresses(n) # {} \/ session[n].trusted # {}
  \/ \E m \in Node : Has(chan[m][n], Accepted(TRUE))

\* It coordinates, and knows it.
InCharge(n) == n \in Active /\ session[n].coord = n

\* A roster that is right about everybody who counts on the lobby's.
Knows(r) == \A x \in Node : Counts(x) => r[x] = lobby.data[x]

Places ==
  /\ \A n \in Node :
       /\ mode[n] \in {"out", "join", "rejoin", "goodbye", "online", "farewell"}
       /\ logged[n]
       /\ mode[n] # "out" => n \in lobby.members
  /\ lobby.members # {} => lobby.owner \in lobby.members
  /\ lobby.members = {} => lobby = GoneLobby

IdlePC(n) ==
  /\ \A m \in Node : {m, n} \notin conn /\ chan[m][n] = <<>>
  /\ session[n].coord = NoNode /\ session[n].roster = Empty
  /\ session[n].trusted = {} /\ session[n].left = {}
  /\ mode[n] # "goodbye" => session[n].known = Empty

Idle == \A n \in Node \ Awake : IdlePC(n)

KeptBy(n) ==
  /\ saved[n] # Empty => saved[n][n] # NoAddr
  /\ session[n].known # Empty => session[n].known[n] # NoAddr
  /\ Members(session[n].roster) \subseteq session[n].trusted
  /\ mode[n] \in {"join", "goodbye", "farewell"} => saved[n] = Empty
  /\ mode[n] = "rejoin" => saved[n] # Empty

Kept == \A n \in Node : KeptBy(n)

\* Who is still remembered as having left is out and has forgotten the network.
StayGone == \A n \in Node : Lingers(n) => mode[n] = "out" /\ saved[n] = Empty

\* The lobby's roster honours everybody who counts on it.
Honoured ==
  \A n \in Node : Counts(n) => lobby.data[n] # NoAddr /\ Addresses(n) \subseteq {lobby.data[n]}

\* Who thinks it is the only member is.
Alone(n, r) == Members(r) = {n} => Members(lobby.data) \subseteq {n}
SinglePC(n) ==
  /\ n \in Active => Alone(n, session[n].roster)
  /\ mode[n] \in {"out", "rejoin"} => Alone(n, saved[n])
  /\ mode[n] = "goodbye" => Alone(n, session[n].known)
  /\ mode[n] = "online" /\ ~Joined(session[n], n) => Members(saved[n]) # {n}
Singles == \A n \in Node : SinglePC(n)

\* The state file of a member that is online is of this network.
NotedPC(n) == n \in Active /\ mode[n] = "online" => saved[n] # Empty
Noted == \A n \in Node : NotedPC(n)

\* Whoever is in charge owns the lobby and knows its roster to the letter.
ChargePC(n) == InCharge(n) => lobby.owner = n /\ session[n].roster = lobby.data
Charge == \A n \in Node : ChargePC(n)

\* A member knows all that matters, or will take it from the one in charge.
CatchPC(n) ==
  \/ Knows(session[n].roster)
  \/ InCharge(lobby.owner) /\ lobby.owner \in session[n].trusted
Catch == \A n \in Active : CatchPC(n)

\* A PC that is in charge just to say goodbye does so at once.
ByePC(n) ==
  InCharge(n) /\ mode[n] = "farewell" =>
    /\ turn = n
    /\ \A m \in Node : chan[m][n] = <<>>
    /\ \A m \in Active : Knows(session[m].roster)
Bye == \A n \in Node : ByePC(n)

Running ==
  /\ lobby.members # {}
  /\ Honoured /\ Singles /\ Noted /\ Charge /\ Catch /\ Bye

\* The creator's first tick is due.
Founding ==
  /\ lobby = [members |-> {Creator}, owner |-> Creator, data |-> Empty]
  /\ turn = Creator
  /\ \A n \in Node : mode[n] = (IF n = Creator THEN "online" ELSE "out")
  /\ \A n \in Node : saved[n] = Empty
  /\ \A m, n \in Node : {m, n} \notin conn /\ chan[m][n] = <<>>
  /\ LET s == session[Creator] IN
       /\ s.coord = Creator /\ s.left = {} /\ s.roster = s.known
       /\ Members(s.roster) = {Creator}

\* No two state files have one address for their own PCs.
FilesApart ==
  \A m, n \in Node : saved[m][m] # NoAddr /\ saved[m][m] = saved[n][n] => m = n

Around == IInv /\ Places /\ Idle /\ Kept /\ StayGone /\ FilesApart
CalmInv == Around /\ (Founding \/ lobby.members = {} \/ Running)

-----------------------------------------------------------------------------
\* What is said and unread.
LEMMA HasEmpty == ASSUME NEW msg PROVE ~Has(<<>>, msg)
BY DEF Has

LEMMA HasTail ==
  ASSUME NEW S, NEW q \in Seq(S), q # <<>>, NEW msg
  PROVE  (Has(Tail(q), msg) => Has(q, msg)) /\ Has(q, Head(q))
<1>1. Len(q) \in Nat /\ Len(q) # 0 /\ Head(q) = q[1]
  BY EmptySeq
<1>2. Len(Tail(q)) = Len(q) - 1 /\ \A i \in 1 .. Len(Tail(q)) : Tail(q)[i] = q[i + 1]
  BY HeadTailProperties
<1>3. Has(q, Head(q))
  BY <1>1 DEF Has
<1>4. ASSUME NEW i \in 1 .. Len(Tail(q)), Tail(q)[i] = msg PROVE Has(q, msg)
  <2>1. i + 1 \in 1 .. Len(q) /\ q[i + 1] = msg
    BY <1>1, <1>2, <1>4
  <2> QED BY <2>1 DEF Has
<1> QED BY <1>3, <1>4 DEF Has

LEMMA HasAppend ==
  ASSUME NEW S, NEW q \in Seq(S), NEW e \in S, NEW msg, Has(Append(q, e), msg)
  PROVE  Has(q, msg) \/ e = msg
<1>1. Len(q) \in Nat /\ Len(Append(q, e)) = Len(q) + 1
  OBVIOUS
<1>2. PICK i \in 1 .. Len(q) + 1 : Append(q, e)[i] = msg
  BY <1>1 DEF Has
<1>3. CASE i = Len(q) + 1
  BY <1>2, <1>3, AppendProperties
<1>4. CASE i # Len(q) + 1
  <2>1. i \in 1 .. Len(q)
    BY <1>1, <1>4
  <2>2. q[i] = msg
    BY <1>2, <2>1, AppendProperties
  <2> QED BY <2>1, <2>2 DEF Has
<1> QED BY <1>3, <1>4

\* From view w to view v, PC n says no more than news, pairs of a word that
\* matters and a PC that is to hear it.
Word == {Leave, Accepted(TRUE)}
Speaks(w, v, n, news) ==
  /\ v.conn \subseteq w.conn
  /\ \A a, b \in Node : \A msg \in Word :
       Has(v.chan[a][b], msg) => Has(w.chan[a][b], msg) \/ (a = n /\ <<msg, b>> \in news)
  /\ \A a, b \in Node :
       w.chan[a][b] = <<>> /\ ~(a = n /\ {n, b} \in w.conn) => v.chan[a][b] = <<>>

LEMMA SpeaksNothing ==
  ASSUME NEW w, NEW v, v.conn = w.conn, v.chan = w.chan, NEW n, NEW news
  PROVE  Speaks(w, v, n, news)
BY DEF Speaks

LEMMA SpeaksOn ==
  ASSUME NEW w, NEW v, NEW u, NEW n, NEW old, NEW new, NEW all,
         Speaks(w, v, n, old), Speaks(v, u, n, new), old \subseteq all, new \subseteq all
  PROVE  Speaks(w, u, n, all)
BY DEF Speaks

LEMMA SendSpeaks ==
  ASSUME NEW n \in Node, NEW w, GoodView(w, n), NEW to, to \subseteq ConnectedPeers(w, n),
         NEW msg \in Message
  PROVE  LET u == Send(w, n, to, msg) IN
           /\ Speaks(w, u, n, {<<msg, b>> : b \in to})
           /\ u.s = w.s /\ u.lobby = w.lobby /\ u.on = w.on /\ u.conn = w.conn
           /\ u \in WorldView
<1> DEFINE u == Send(w, n, to, msg)
           row == [m \in Node |-> IF m \in to THEN Append(w.chan[n][m], msg) ELSE w.chan[n][m]]
           c == [w.chan EXCEPT ![n] = row]
<1>1. w \in WorldView /\ w.chan \in Channels /\ \A a, b \in Node : w.chan[a][b] \in Seq(Message)
  BY DEF GoodView, WorldView, Channels
<1>2. row \in [Node -> Seq(Message)]
  <2>1. \A m \in Node : Append(w.chan[n][m], msg) \in Seq(Message)
    BY <1>1, AppendProperties
  <2> QED BY <1>1, <2>1
<1>3. \A m \in Node : row[m] = IF m \in to THEN Append(w.chan[n][m], msg) ELSE w.chan[n][m]
  OBVIOUS
<1>4. u = [w EXCEPT !.chan = c]
  BY <1>1 DEF Send, Channels, WorldView
<1> HIDE DEF row
<1>5. c \in Channels /\ c[n] = row /\ \A a \in Node \ {n} : c[a] = w.chan[a]
  BY <1>1, <1>2 DEF Channels
<1> HIDE DEF c, u
<1>6. u.s = w.s /\ u.lobby = w.lobby /\ u.on = w.on /\ u.conn = w.conn /\ u.chan = c
      /\ u \in WorldView
  BY <1>1, <1>4, <1>5 DEF WorldView
<1>7. ASSUME NEW a \in Node, NEW b \in Node, NEW word \in Word, Has(u.chan[a][b], word)
      PROVE  Has(w.chan[a][b], word) \/ (a = n /\ <<word, b>> \in {<<msg, x>> : x \in to})
  <2>1. CASE a = n /\ b \in to
    <3>1. Has(Append(w.chan[n][b], msg), word)
      BY <1>3, <1>5, <1>6, <1>7, <2>1
    <3>2. Has(w.chan[n][b], word) \/ msg = word
      BY <1>1, <3>1, HasAppend
    <3> QED BY <2>1, <3>2
  <2>2. CASE ~(a = n /\ b \in to)
    BY <1>3, <1>5, <1>6, <1>7, <2>2
  <2> QED BY <2>1, <2>2
<1>8. ASSUME NEW a \in Node, NEW b \in Node, w.chan[a][b] = <<>>, ~(a = n /\ {n, b} \in w.conn)
      PROVE  u.chan[a][b] = <<>>
  <2>1. ~(a = n /\ b \in to)
    BY <1>8 DEF ConnectedPeers
  <2> QED BY <1>3, <1>5, <1>6, <1>8, <2>1
<1>9. Speaks(w, u, n, {<<msg, b>> : b \in to})
  BY <1>6, <1>7, <1>8 DEF Speaks
<1> QED BY <1>6, <1>9 DEF u

LEMMA SendQuietly ==
  ASSUME NEW n \in Node, NEW w, GoodView(w, n), NEW to, to \subseteq ConnectedPeers(w, n),
         NEW msg \in Message \ Word
  PROVE  LET u == Send(w, n, to, msg) IN
           /\ Speaks(w, u, n, {})
           /\ u.s = w.s /\ u.lobby = w.lobby /\ u.on = w.on /\ u.conn = w.conn
           /\ u \in WorldView
<1> DEFINE u == Send(w, n, to, msg)
<1>1. Speaks(w, u, n, {<<msg, b>> : b \in to})
      /\ u.s = w.s /\ u.lobby = w.lobby /\ u.on = w.on /\ u.conn = w.conn
      /\ u \in WorldView
  BY SendSpeaks
<1>2. \A word \in Word, b \in Node : <<word, b>> \notin {<<msg, x>> : x \in to}
  OBVIOUS
<1> HIDE DEF u
<1>3. Speaks(w, u, n, {})
  BY <1>1, <1>2 DEF Speaks
<1> QED BY <1>1, <1>3 DEF u

\* A reply that lingers, and a connection that is closed on purpose.
LEMMA DenySpeaks ==
  ASSUME NEW n \in Node, NEW w, GoodView(w, n), NEW guests
  PROVE  LET u == Deny(w, n, guests) IN
           /\ Speaks(w, u, n, {}) /\ SameCore(w.s, u.s)
           /\ u.lobby = w.lobby /\ u.on = w.on
           /\ u.s.refused = w.s.refused
<1> DEFINE sent == Send(w, n, guests \cap ConnectedPeers(w, n), Denied)
           up == {p \in sent.conn : ~ \E g \in guests : p = {n, g}}
           deaf == [sent.s EXCEPT !.blocked = @ \cup (guests \cap w.lobby.members)]
<1>1. Denied \in Message \ Word
  BY DEF Denied, Message, Word, Leave, Accepted
<1>2. guests \cap ConnectedPeers(w, n) \subseteq ConnectedPeers(w, n)
  OBVIOUS
<1>3. Speaks(w, sent, n, {}) /\ sent.s = w.s /\ sent.lobby = w.lobby /\ sent.on = w.on
      /\ sent \in WorldView
  BY <1>1, <1>2, SendQuietly
<1> HIDE DEF sent
<1>4. SameCore(w.s, deaf) /\ deaf.refused = w.s.refused
  BY <1>3 DEF SameCore, GoodView, GoodSession, Session
<1>5. Deny(w, n, guests) = [sent EXCEPT !.conn = up, !.s = deaf]
  BY <1>3 DEF Deny, sent, WorldView
<1> HIDE DEF deaf
<1> DEFINE u == [sent EXCEPT !.conn = up, !.s = deaf]
<1>6. u.conn = up /\ u.s = deaf /\ u.chan = sent.chan /\ u.lobby = sent.lobby /\ u.on = sent.on
  BY <1>3 DEF WorldView
<1>7. up \subseteq sent.conn
  OBVIOUS
<1> HIDE DEF up, u
<1>8. Speaks(w, u, n, {})
  BY <1>3, <1>6, <1>7 DEF Speaks
<1> QED BY <1>3, <1>4, <1>5, <1>6, <1>8 DEF u

LEMMA AcceptSpeaks ==
  ASSUME NEW n \in Node, NEW w, GoodView(w, n), NEW guest \in Node
  PROVE  LET u == Accept(w, n, guest) IN
           /\ Speaks(w, u, n, {<<Accepted(TRUE), guest>>})
           /\ {n, guest} \notin w.conn => Speaks(w, u, n, {})
           /\ u.s = w.s /\ u.lobby = w.lobby /\ u.on = w.on
<1> DEFINE to == {guest} \cap ConnectedPeers(w, n)
           msg == Accepted(w.s.code)
<1>1. msg \in Message /\ msg # Leave
  <2>1. w.s.code \in BOOLEAN
    BY DEF GoodView, GoodSession, Session
  <2> QED BY <2>1, Messages DEF Accepted, Leave
<1>2. to \subseteq ConnectedPeers(w, n)
  OBVIOUS
<1>3. Accept(w, n, guest) = Send(w, n, to, msg)
  BY DEF Accept
<1>4. {n, guest} \notin w.conn => to = {}
  BY DEF ConnectedPeers
<1> HIDE DEF msg, to
<1> DEFINE u == Send(w, n, to, msg)
<1>5. Speaks(w, u, n, {<<msg, b>> : b \in to})
      /\ u.s = w.s /\ u.lobby = w.lobby /\ u.on = w.on
  BY <1>1, <1>2, SendSpeaks
<1>6. \A word \in Word, b \in Node : <<word, b>> \in {<<msg, x>> : x \in to}
        => word = Accepted(TRUE) /\ b \in to
  BY <1>1 DEF Word
<1>7. \A b \in to : b = guest
  BY DEF to
<1> HIDE DEF u
<1>8. \A word \in Word, b \in Node : <<word, b>> \in {<<msg, x>> : x \in to}
        => <<word, b>> \in {<<Accepted(TRUE), guest>>}
  BY <1>6, <1>7
<1>9. Speaks(w, u, n, {<<Accepted(TRUE), guest>>})
  BY <1>5, <1>8 DEF Speaks
<1>10. to = {} => Speaks(w, u, n, {})
  BY <1>5, <1>6 DEF Speaks
<1> QED BY <1>3, <1>4, <1>5, <1>9, <1>10 DEF u

LEMMA PublishSpeaks ==
  ASSUME NEW n \in Node, NEW w, GoodView(w, n)
  PROVE  LET u == Publish(w, n) IN
           /\ Speaks(w, u, n, {}) /\ u.s = w.s /\ u.on = w.on
           /\ u.conn = w.conn /\ u.chan = w.chan
           /\ u.lobby.members = w.lobby.members /\ u.lobby.owner = w.lobby.owner
           /\ u.lobby.data = IF CanWrite(w, n) THEN w.s.roster ELSE w.lobby.data
<1> DEFINE t == [w EXCEPT !.lobby.data = w.s.roster]
<1>1. /\ t.s = w.s /\ t.on = w.on /\ t.conn = w.conn /\ t.chan = w.chan
      /\ t.lobby.members = w.lobby.members /\ t.lobby.owner = w.lobby.owner
      /\ t.lobby.data = w.s.roster
  BY DEF GoodView, WorldView, Lobby, GoodLobby
<1>2. Publish(w, n) = IF CanWrite(w, n) THEN t ELSE w
  BY DEF Publish
<1> HIDE DEF t
<1>3. Speaks(w, t, n, {}) /\ Speaks(w, w, n, {})
  BY <1>1, SpeaksNothing
<1> QED BY <1>1, <1>2, <1>3

LEMMA CutSpeaks ==
  ASSUME NEW n \in Node, NEW w, GoodView(w, n), NEW lost
  PROVE  LET u == Cut(w, n, lost) IN
           /\ Speaks(w, u, n, {}) /\ u.s = w.s /\ u.lobby = w.lobby /\ u.on = w.on
           /\ \A m \in Node : {m, n} \notin u.conn /\ u.chan[m][n] = <<>>
<1> DEFINE c == [a \in Node |-> [b \in Node |->
                   IF b = n \/ (a = n /\ b \in lost) THEN <<>> ELSE w.chan[a][b]]]
           up == {p \in w.conn : n \notin p}
           u == [w EXCEPT !.conn = up, !.chan = c]
<1>1. Cut(w, n, lost) = u
  BY DEF Cut, GoodView, WorldView
<1>2. u.conn = up /\ u.chan = c /\ u.s = w.s /\ u.lobby = w.lobby /\ u.on = w.on
  BY DEF GoodView, WorldView
<1>3. \A a, b \in Node : c[a][b] = <<>> \/ c[a][b] = w.chan[a][b]
  OBVIOUS
<1>4. \A m \in Node : c[m][n] = <<>> /\ {m, n} \notin up
  OBVIOUS
<1>5. up \subseteq w.conn
  OBVIOUS
<1> HIDE DEF c, up, u
<1>6. Speaks(w, u, n, {})
  BY <1>2, <1>3, <1>5, HasEmpty DEF Speaks
<1> QED BY <1>1, <1>2, <1>4, <1>6

LEMMA MemberChecksSpeaks ==
  ASSUME NEW n \in Node, NEW w, GoodView(w, n), NEW late
  PROVE  LET u == MemberChecks(w, n, late) IN
           /\ Speaks(w, u, n, {}) /\ SameCore(w.s, u.s)
           /\ u.lobby = w.lobby /\ u.on = w.on
<1> DEFINE msg == Auth(w.s.code, w.s.known[n])
           sent == Send(w, n, {w.s.coord}, msg)
           asked == [sent EXCEPT !.s.authSent = w.s.coord]
           refused == [w EXCEPT !.s.refused = "unavailable"]
           u == MemberChecks(w, n, late)
<1>1. w \in WorldView /\ w.s \in Session
  BY DEF GoodView, GoodSession
<1>2. u = w \/ u = refused \/ (u = asked /\ w.s.coord \in ConnectedPeers(w, n))
  BY DEF MemberChecks
<1>3. CASE u = w
  BY <1>3, SpeaksNothing DEF SameCore
<1>4. CASE u = refused
  <2>1. refused.conn = w.conn /\ refused.chan = w.chan /\ refused.lobby = w.lobby
        /\ refused.on = w.on /\ SameCore(w.s, refused.s)
    BY <1>1 DEF SameCore, Session, WorldView
  <2> QED BY <1>4, <2>1, SpeaksNothing
<1>5. CASE u = asked /\ w.s.coord \in ConnectedPeers(w, n)
  <2>1. msg \in Message \ Word
    <3>1. w.s.code \in BOOLEAN /\ w.s.known[n] \in Addr \cup {NoAddr}
      BY DEF GoodView, GoodSession, GoodRoster, Session, Roster
    <3> QED BY <3>1, Messages DEF Auth, Word, Leave, Accepted
  <2>2. {w.s.coord} \subseteq ConnectedPeers(w, n)
    BY <1>5
  <2>3. Speaks(w, sent, n, {}) /\ sent.s = w.s /\ sent.lobby = w.lobby /\ sent.on = w.on
        /\ sent \in WorldView
    BY <2>1, <2>2, SendQuietly
  <2> HIDE DEF sent
  <2>4. asked.conn = sent.conn /\ asked.chan = sent.chan /\ asked.lobby = sent.lobby
        /\ asked.on = sent.on /\ SameCore(sent.s, asked.s)
    BY <1>1, <2>3 DEF SameCore, Session, WorldView
  <2> HIDE DEF asked
  <2>5. Speaks(w, asked, n, {})
    BY <2>3, <2>4 DEF Speaks
  <2> QED BY <1>5, <2>3, <2>4, <2>5
<1> QED BY <1>2, <1>3, <1>4, <1>5

LEMMA HandOffSpeaks ==
  ASSUME NEW n \in Node, NEW w, GoodView(w, n)
  PROVE  LET u == HandOff(w, n) IN
           /\ Speaks(w, u, n, {}) /\ SameCore(w.s, u.s) /\ u.on = w.on
           /\ u.lobby.members = w.lobby.members /\ u.lobby.data = w.lobby.data
           /\ \/ u.lobby.owner = w.lobby.owner
              \/ w.lobby.owner = n /\ u.lobby.owner \in w.lobby.members
<1> DEFINE online == Members(w.lobby.data) \cap (w.lobby.members \ {n})
           given == [w EXCEPT !.lobby.owner = Lowest(online)]
           refused == [w EXCEPT !.s.refused = "unavailable"]
           u == HandOff(w, n)
<1>1. w \in WorldView /\ w.s \in Session /\ w.lobby \in Lobby
  BY DEF GoodView, GoodSession, GoodLobby
<1>2. u = w \/ u = refused \/ (u = given /\ online # {} /\ CanWrite(w, n))
  BY DEF HandOff
<1>3. CASE u = w
  BY <1>3, SpeaksNothing DEF SameCore
<1>4. CASE u = refused
  <2>1. refused.conn = w.conn /\ refused.chan = w.chan /\ refused.lobby = w.lobby
        /\ refused.on = w.on /\ SameCore(w.s, refused.s)
    BY <1>1 DEF SameCore, Session, WorldView
  <2> QED BY <1>4, <2>1, SpeaksNothing
<1>5. CASE u = given /\ online # {} /\ CanWrite(w, n)
  <2>1. online \in SUBSET Nat
    BY NodeAssumption DEF Members
  <2>2. Lowest(online) \in online
    BY <1>5, <2>1, LowestIsIn
  <2>3. given.conn = w.conn /\ given.chan = w.chan /\ given.s = w.s /\ given.on = w.on
        /\ given.lobby.members = w.lobby.members /\ given.lobby.data = w.lobby.data
        /\ given.lobby.owner = Lowest(online)
    BY <1>1 DEF Lobby, WorldView
  <2>4. Lowest(online) \in w.lobby.members
    BY <2>2
  <2> HIDE DEF given, online
  <2>5. w.lobby.owner = n
    BY <1>5 DEF CanWrite
  <2> QED BY <1>5, <2>3, <2>4, <2>5, SpeaksNothing DEF SameCore
<1> QED BY <1>2, <1>3, <1>4, <1>5

-----------------------------------------------------------------------------
\* Following the lobby: the roster is the lobby's, or stays what it was.
LEMMA TakeRosterCore ==
  ASSUME NEW n \in Node, NEW s \in Session, NEW writer, NEW text \in Roster
  PROVE  LET t == TakeRoster(s, n, writer, text) IN
           /\ t.coord = s.coord /\ t.known = s.known /\ t.left \subseteq s.left
           /\ \/ t = s
              \/ /\ t.roster = text /\ t.trusted = s.trusted \cup Members(text)
                 /\ writer \in s.trusted /\ t \in Session
           /\ writer \in s.trusted /\ text # Empty /\ WellFormed(text)
                /\ (Joined(s, n) => text[n] = s.roster[n])
              => t.roster = text
<1> DEFINE taken == [s EXCEPT !.left = (@ \ (Members(text) \ Members(s.roster))) \cap Members(text),
                              !.roster = text,
                              !.trusted = @ \cup Members(text)]
           fits == WellFormed(text) /\ (Joined(s, n) => text[n] = s.roster[n])
           takes == writer \in s.trusted /\ text # Empty /\ text # s.roster /\ fits
<1>1. Members(text) \in SUBSET Node
  BY DEF Members
<1>2. /\ taken.coord = s.coord /\ taken.known = s.known /\ taken.left \subseteq s.left
      /\ taken.roster = text /\ taken.trusted = s.trusted \cup Members(text)
      /\ taken \in Session
  BY <1>1 DEF Session
<1>3. TakeRoster(s, n, writer, text) = IF takes THEN taken ELSE s
  BY DEF TakeRoster
<1> HIDE DEF taken
<1> QED BY <1>2, <1>3

LEMMA FollowCore ==
  ASSUME NEW n \in Node, NEW s \in Session, NEW lob \in Lobby,
         s.known[n] # NoAddr => lob.data # Empty
  PROVE  LET t == Follow(s, n, lob) IN
           /\ t.coord = lob.owner /\ t.known = s.known /\ t.left \subseteq s.left
           /\ \/ t.roster = s.roster /\ t.trusted = s.trusted
              \/ /\ t.roster = lob.data /\ t.trusted = s.trusted \cup Members(lob.data)
                 /\ s.trusted # {}
<1> DEFINE now == [s EXCEPT !.coord = lob.owner]
           taken == TakeRoster(now, n, lob.owner, lob.data)
           over == TakeRoster(now, n, s.coord, lob.data)
<1>1. /\ now \in Session /\ now.coord = lob.owner /\ now.known = s.known /\ now.left = s.left
      /\ now.roster = s.roster /\ now.trusted = s.trusted
  BY DEF Session, Lobby
<1>2. lob.data \in Roster
  BY DEF Lobby
<1> HIDE DEF now
<1> DEFINE Core(t) ==
             /\ t.coord = lob.owner /\ t.known = s.known /\ t.left \subseteq s.left
             /\ \/ t.roster = s.roster /\ t.trusted = s.trusted
                \/ /\ t.roster = lob.data /\ t.trusted = s.trusted \cup Members(lob.data)
                   /\ s.trusted # {}
<1>3. Core(now)
  BY <1>1
<1>4. Core(taken)
  BY <1>1, <1>2, TakeRosterCore
<1>5. Core(over)
  BY <1>1, <1>2, TakeRosterCore
<1>6. Follow(s, n, lob) \in {now, taken, over}
  BY DEF Follow, Joined, now
<1> HIDE DEF taken, over, Core
<1>7. Core(Follow(s, n, lob))
  BY <1>3, <1>4, <1>5, <1>6
<1> QED BY <1>7 DEF Core

\* Who has nothing to catch up with, and trusts the owner, has its roster.
LEMMA FollowedAll ==
  ASSUME NEW n \in Node, NEW s \in Session, NEW lob \in Lobby,
         Follow(s, n, lob) = s, lob.owner # n, lob.owner \in s.trusted,
         lob.data # Empty, WellFormed(lob.data), lob.data[n] = s.roster[n]
  PROVE  s.roster = lob.data
<1> DEFINE now == [s EXCEPT !.coord = lob.owner]
<1>1. now \in Session /\ now.roster = s.roster /\ now.trusted = s.trusted
  BY DEF Session, Lobby
<1>2. lob.data \in Roster
  BY DEF Lobby
<1>3. Follow(s, n, lob) = TakeRoster(now, n, lob.owner, lob.data)
  BY DEF Follow
<1> HIDE DEF now
<1> QED BY <1>1, <1>2, <1>3, TakeRosterCore

\* The view of a PC that is in the lobby, and what its tick starts with.
LEMMA SyncCore ==
  ASSUME NEW n \in Node, NEW w, GoodView(w, n), w.on, n \in w.lobby.members
  PROVE  LET u == Sync(w, n) IN
           /\ u.s = Follow(w.s, n, w.lobby) /\ Speaks(w, u, n, {})
           /\ u.lobby = w.lobby /\ u.on = w.on /\ u.conn = w.conn /\ u.chan = w.chan
<1> DEFINE t == Follow(w.s, n, w.lobby)
           u == [w EXCEPT !.s = t]
<1>1. Sync(w, n) = u
  BY DEF Sync
<1>2. u.s = t /\ u.lobby = w.lobby /\ u.on = w.on /\ u.conn = w.conn /\ u.chan = w.chan
  BY DEF GoodView, WorldView
<1> HIDE DEF t, u
<1>3. Speaks(w, u, n, {})
  BY <1>2, SpeaksNothing
<1> QED BY <1>1, <1>2, <1>3 DEF t

-----------------------------------------------------------------------------
\* The coordinator's work: afterwards its roster is the lobby's.
Coordinates(w, u, n) ==
  /\ Speaks(w, u, n, {}) /\ u.on = w.on
  /\ u.lobby.members = w.lobby.members /\ u.lobby.owner = w.lobby.owner
  /\ u.lobby.data = Without(w.s.roster, w.s.left \ {n})
  /\ u.s.roster = u.lobby.data
  /\ u.s.coord = w.s.coord /\ u.s.known = w.s.known
  /\ u.s.trusted = w.s.trusted /\ u.s.left = w.s.left

LEMMA SetRoster ==
  ASSUME NEW n \in Node, NEW w, GoodView(w, n), NEW r, GoodRoster(r)
  PROVE  LET t == [w EXCEPT !.s.roster = r] IN
           /\ GoodView(t, n) /\ t.s.roster = r /\ t.lobby = w.lobby /\ t.on = w.on
           /\ t.conn = w.conn /\ t.chan = w.chan
           /\ t.s.coord = w.s.coord /\ t.s.known = w.s.known
           /\ t.s.trusted = w.s.trusted /\ t.s.left = w.s.left
<1> DEFINE t == [w EXCEPT !.s.roster = r]
<1>1. w \in WorldView /\ w.s \in Session /\ r \in Roster
  BY DEF GoodView, GoodSession, GoodRoster
<1>2. /\ t \in WorldView /\ t.s.roster = r /\ t.lobby = w.lobby /\ t.on = w.on
      /\ t.conn = w.conn /\ t.chan = w.chan
      /\ t.s.coord = w.s.coord /\ t.s.known = w.s.known /\ t.s.code = w.s.code
      /\ t.s.trusted = w.s.trusted /\ t.s.left = w.s.left /\ t.s \in Session
  BY <1>1 DEF WorldView, Session
<1> HIDE DEF t
<1>3. GoodView(t, n)
  BY <1>2 DEF GoodView, GoodSession
<1> QED BY <1>2, <1>3 DEF t

LEMMA CoordinateSpeaks ==
  ASSUME NEW n \in Node, NEW w, GoodView(w, n), CanWrite(w, n), NEW silent
  PROVE  Coordinates(w, Coordinate(w, n, silent), n)
<1> DEFINE r == Without(w.s.roster, w.s.left \ {n})
           t == [w EXCEPT !.s.roster = r]
           p == Publish(t, n)
<1>1. GoodRoster(r)
  BY WithoutKeepsApart DEF GoodView, GoodSession, GoodRoster
<1>2. Coordinate(w, n, silent) = Deny(p, n, silent)
  BY DEF Coordinate
<1> HIDE DEF r
<1>3. /\ GoodView(t, n) /\ t.s.roster = r /\ t.lobby = w.lobby /\ t.on = w.on
      /\ t.conn = w.conn /\ t.chan = w.chan
      /\ t.s.coord = w.s.coord /\ t.s.known = w.s.known
      /\ t.s.trusted = w.s.trusted /\ t.s.left = w.s.left
  BY <1>1, SetRoster
<1> HIDE DEF t
<1>4. CanWrite(t, n)
  BY <1>3 DEF CanWrite
<1>5. /\ Speaks(t, p, n, {}) /\ p.s = t.s /\ p.on = t.on
      /\ p.lobby.members = t.lobby.members /\ p.lobby.owner = t.lobby.owner
      /\ p.lobby.data = r
  BY <1>3, <1>4, PublishSpeaks
<1>6. GoodView(p, n)
  BY <1>3, PublishIsGood
<1> HIDE DEF p
<1> DEFINE u == Deny(p, n, silent)
<1>7. Speaks(p, u, n, {}) /\ SameCore(p.s, u.s) /\ u.lobby = p.lobby /\ u.on = p.on
  BY <1>6, DenySpeaks
<1> HIDE DEF u
<1>8. Speaks(w, t, n, {})
  BY <1>3, SpeaksNothing
<1>9. Speaks(w, p, n, {})
  BY <1>5, <1>8, SpeaksOn
<1>10. Speaks(w, u, n, {})
  BY <1>7, <1>9, SpeaksOn
<1> QED BY <1>2, <1>3, <1>5, <1>7, <1>10 DEF u, r, SameCore, Coordinates

\* A user that there is an address for gets one.
LEMMA AssignAdds ==
  ASSUME NEW r \in Roster, NEW m \in Node, NEW wanted, ~Full(r, m)
  PROVE  Assign(r, m, wanted)[m] # NoAddr
<1>1. CASE r[m] # NoAddr
  BY <1>1 DEF Assign
<1>2. CASE r[m] = NoAddr
  <2> DEFINE a == IF wanted \in Free(r) THEN wanted ELSE Lowest(Free(r))
  <2>1. a \in Free(r)
    <3>1. Free(r) \subseteq Nat /\ Free(r) # {}
      BY <1>2, AddrAssumption DEF Full, Free
    <3> QED BY <3>1, LowestIsIn
  <2>2. Assign(r, m, wanted) = [r EXCEPT ![m] = a]
    BY <1>2 DEF Assign
  <2>3. a # NoAddr
    BY <2>1, AddrAssumption DEF Free, NoAddr
  <2> HIDE DEF a
  <2> QED BY <2>2, <2>3 DEF Roster
<1> QED BY <1>1, <1>2

\* Those that hear that they are members, are in the lobby's roster.
Welcome(r) == {<<Accepted(TRUE), x>> : x \in Members(r)}

LEMMA AdmitSpeaks ==
  ASSUME NEW n \in Node, NEW w, GoodView(w, n), CanWrite(w, n), w.s.roster = w.lobby.data,
         NEW guest \in Node, NEW msg \in Fit(guest, n), msg.kind = "auth",
         Members(w.s.roster) \subseteq w.s.trusted
  PROVE  LET u == Admit(w, n, guest, msg) IN
           /\ Speaks(w, u, n, Welcome(u.lobby.data)) /\ u.on = w.on
           /\ u.lobby.members = w.lobby.members /\ u.lobby.owner = w.lobby.owner
           /\ u.s.roster = u.lobby.data
           /\ \A o \in Members(w.lobby.data) : u.lobby.data[o] = w.lobby.data[o]
           /\ u.s.coord = w.s.coord /\ u.s.known = w.s.known
           /\ u.s.left \subseteq w.s.left
           /\ Members(u.s.roster) \subseteq u.s.trusted
<1> DEFINE r == Assign(w.s.roster, guest, msg.addr)
           let == [w EXCEPT !.s.roster = r, !.s.left = @ \ {guest}, !.s.trusted = @ \cup {guest}]
           miss == [w EXCEPT !.s.failures[guest] = @ + 1]
           rightCode == w.s.code /\ msg.code
           u == Admit(w, n, guest, msg)
<1>1. w \in WorldView /\ w.s \in Session
  BY DEF GoodView, GoodSession
<1>2. CASE w.s.roster[guest] # NoAddr /\ u = Accept(w, n, guest)
  <2> DEFINE v == Accept(w, n, guest)
  <2>1. Speaks(w, v, n, {<<Accepted(TRUE), guest>>})
        /\ v.s = w.s /\ v.lobby = w.lobby /\ v.on = w.on
    BY AcceptSpeaks
  <2>2. {<<Accepted(TRUE), guest>>} \subseteq Welcome(v.lobby.data)
    BY <1>2, <2>1 DEF Welcome, Members
  <2> HIDE DEF v
  <2>3. Speaks(w, v, n, Welcome(v.lobby.data))
    BY <2>1, <2>2 DEF Speaks
  <2>4. u = v
    BY <1>2 DEF v
  <2> HIDE DEF u
  <2> QED BY <1>2, <2>1, <2>3, <2>4 DEF u
<1>3. CASE /\ w.s.roster[guest] = NoAddr /\ rightCode /\ ~Full(w.s.roster, guest)
           /\ u = Accept(Publish(let, n), n, guest)
  <2>1. guest \in Invited
    BY <1>3 DEF Fit
  <2>2. /\ GoodRoster(r) /\ r[guest] # NoAddr
        /\ Members(r) \subseteq Members(w.s.roster) \cup {guest}
        /\ \A o \in Members(w.s.roster) : r[o] = w.s.roster[o]
    BY <1>3, <2>1, AssignKeepsApart, AssignAdds DEF GoodView, GoodSession, GoodRoster
  <2> HIDE DEF r
  <2>3. /\ let \in WorldView /\ let.s \in Session /\ let.s.roster = r
        /\ let.s.coord = w.s.coord /\ let.s.known = w.s.known /\ let.s.code = w.s.code
        /\ let.s.left = w.s.left \ {guest} /\ let.s.trusted = w.s.trusted \cup {guest}
        /\ let.lobby = w.lobby /\ let.on = w.on /\ let.conn = w.conn /\ let.chan = w.chan
    BY <1>1, <2>2 DEF GoodRoster, WorldView, Session
  <2> HIDE DEF let
  <2>4. GoodView(let, n) /\ CanWrite(let, n)
    BY <2>2, <2>3 DEF GoodView, GoodSession, CanWrite
  <2> DEFINE p == Publish(let, n)
  <2>5. /\ Speaks(let, p, n, {}) /\ p.s = let.s /\ p.on = let.on
        /\ p.lobby.members = let.lobby.members /\ p.lobby.owner = let.lobby.owner
        /\ p.lobby.data = r
    BY <2>3, <2>4, PublishSpeaks
  <2>6. GoodView(p, n)
    BY <2>4, PublishIsGood
  <2> HIDE DEF p
  <2> DEFINE v == Accept(p, n, guest)
  <2>7. Speaks(p, v, n, {<<Accepted(TRUE), guest>>})
        /\ v.s = p.s /\ v.lobby = p.lobby /\ v.on = p.on
    BY <2>6, AcceptSpeaks
  <2> HIDE DEF v
  <2>8. Speaks(w, let, n, {})
    BY <2>3, SpeaksNothing
  <2>9. Speaks(w, p, n, {})
    BY <2>5, <2>8, SpeaksOn
  <2>10. {<<Accepted(TRUE), guest>>} \subseteq Welcome(v.lobby.data)
    BY <2>2, <2>5, <2>7 DEF Welcome, Members
  <2>11. Speaks(w, v, n, Welcome(v.lobby.data))
    <3> DEFINE news == {<<Accepted(TRUE), guest>>}
               all == Welcome(v.lobby.data)
    <3>1. Speaks(w, p, n, {}) /\ Speaks(p, v, n, news) /\ {} \subseteq all /\ news \subseteq all
      BY <2>7, <2>9, <2>10
    <3> HIDE DEF news, all
    <3> QED BY <3>1, SpeaksOn DEF all
  <2> HIDE DEF u
  <2>12. u = v
    BY <1>3 DEF p, v
  <2>13. Members(v.s.roster) \subseteq v.s.trusted
    BY <2>2, <2>3, <2>5, <2>7
  <2> QED BY <2>2, <2>3, <2>5, <2>7, <2>11, <2>12, <2>13 DEF u
<1>4. ASSUME NEW v, GoodView(v, n), v.lobby = w.lobby, v.on = w.on, v.conn = w.conn,
             v.chan = w.chan, SameCore(w.s, v.s), u = Deny(v, n, {guest})
      PROVE  /\ Speaks(w, u, n, Welcome(u.lobby.data)) /\ u.on = w.on
             /\ u.lobby = w.lobby /\ SameCore(w.s, u.s)
  <2> DEFINE d == Deny(v, n, {guest})
  <2>1. Speaks(v, d, n, {}) /\ SameCore(v.s, d.s) /\ d.lobby = v.lobby /\ d.on = v.on
    BY <1>4, DenySpeaks
  <2> HIDE DEF d
  <2>2. Speaks(w, v, n, {})
    BY <1>4, SpeaksNothing
  <2>3. Speaks(w, d, n, Welcome(d.lobby.data))
    BY <2>1, <2>2, SpeaksOn
  <2>4. u = d
    BY <1>4 DEF d
  <2> HIDE DEF u
  <2> QED BY <1>4, <2>1, <2>3, <2>4 DEF SameCore
<1>5. CASE u = Deny(w, n, {guest})
  <2>1. /\ Speaks(w, u, n, Welcome(u.lobby.data)) /\ u.on = w.on
        /\ u.lobby = w.lobby /\ SameCore(w.s, u.s)
    BY <1>4, <1>5 DEF SameCore
  <2> HIDE DEF u
  <2> QED BY <2>1 DEF SameCore, u
<1>6. CASE u = Deny(miss, n, {guest})
  <2> DEFINE f == [w.s.failures EXCEPT ![guest] = @ + 1]
  <2>1. w.s.failures \in [Node -> Nat]
    BY <1>1 DEF Session
  <2>2. w.s.failures[guest] + 1 \in Nat
    BY <2>1
  <2>3. f \in [Node -> Nat]
    BY <2>1, <2>2
  <2>4. miss = [w EXCEPT !.s = [w.s EXCEPT !.failures = f]]
    BY <1>1 DEF Session, WorldView
  <2> HIDE DEF f, miss, u
  <2>5. /\ SameCore(w.s, miss.s) /\ miss.s.code = w.s.code /\ miss.s \in Session
        /\ miss \in WorldView /\ miss.lobby = w.lobby /\ miss.on = w.on
        /\ miss.conn = w.conn /\ miss.chan = w.chan
    BY <1>1, <2>3, <2>4 DEF WorldView, Session, SameCore
  <2>6. GoodView(miss, n)
    BY <2>5 DEF GoodView, GoodSession, SameCore
  <2>7. /\ Speaks(w, u, n, Welcome(u.lobby.data)) /\ u.on = w.on
        /\ u.lobby = w.lobby /\ SameCore(w.s, u.s)
    BY <1>4, <1>6, <2>5, <2>6
  <2> QED BY <2>7 DEF SameCore, u
<1>7. \/ w.s.roster[guest] # NoAddr /\ u = Accept(w, n, guest)
      \/ /\ w.s.roster[guest] = NoAddr /\ rightCode /\ ~Full(w.s.roster, guest)
         /\ u = Accept(Publish(let, n), n, guest)
      \/ u = Deny(w, n, {guest})
      \/ u = Deny(miss, n, {guest})
  BY DEF Admit
<1> HIDE DEF u, let, miss
<1> QED BY <1>2, <1>3, <1>5, <1>6, <1>7 DEF u

-----------------------------------------------------------------------------
\* What a PC makes of a message.
Handles(w, u, n, from, msg) ==
  /\ u.on = w.on
  /\ u.lobby.members = w.lobby.members /\ u.lobby.owner = w.lobby.owner
  /\ u.s.coord = w.s.coord /\ u.s.known = w.s.known
  /\ u.s.left \subseteq w.s.left \cup (IF msg = Leave THEN {from} ELSE {})
  /\ Members(u.s.roster) \subseteq u.s.trusted
  /\ \/ /\ IsCoordinator(w.s, n)
        /\ Speaks(w, u, n, Welcome(u.lobby.data))
        /\ u.s.roster = u.lobby.data
        /\ \A o \in Members(w.lobby.data) : u.lobby.data[o] = w.lobby.data[o]
     \/ /\ Speaks(w, u, n, {}) /\ u.s.roster = w.s.roster
        /\ u.lobby = w.lobby
        /\ w.s.trusted \subseteq u.s.trusted
        /\ u.s.trusted # w.s.trusted => msg = Accepted(TRUE)

LEMMA HandleSpeaks ==
  ASSUME NEW n \in Node, NEW w, GoodView(w, n), NEW from \in Node, NEW msg \in Fit(from, n),
         IsCoordinator(w.s, n) => CanWrite(w, n) /\ w.s.roster = w.lobby.data,
         Members(w.s.roster) \subseteq w.s.trusted
  PROVE  Handles(w, Handle(w, n, from, msg), n, from, msg)
<1> DEFINE gone == [w EXCEPT !.s.left = @ \cup {from}]
           told == [w EXCEPT !.s.trusted = @ \cup {from}, !.s.code = TRUE]
           sent == [w EXCEPT !.s.refused = "denied"]
           u == Handle(w, n, from, msg)
<1>1. w \in WorldView /\ w.s \in Session /\ msg \in Message
  BY DEF GoodView, GoodSession, Fit
<1>2. CASE msg.kind = "auth" /\ IsCoordinator(w.s, n)
  <2> DEFINE a == Admit(w, n, from, msg)
  <2>1. u = a
    BY <1>2 DEF Handle
  <2>2. /\ Speaks(w, a, n, Welcome(a.lobby.data)) /\ a.on = w.on
        /\ a.lobby.members = w.lobby.members /\ a.lobby.owner = w.lobby.owner
        /\ a.s.roster = a.lobby.data
        /\ \A o \in Members(w.lobby.data) : a.lobby.data[o] = w.lobby.data[o]
        /\ a.s.coord = w.s.coord /\ a.s.known = w.s.known
        /\ a.s.left \subseteq w.s.left
        /\ Members(a.s.roster) \subseteq a.s.trusted
    BY <1>2, AdmitSpeaks
  <2> HIDE DEF a, u
  <2> QED BY <1>2, <2>1, <2>2 DEF u, Handles
<1> DEFINE Quiet(v) ==
             /\ v.on = w.on /\ v.lobby = w.lobby /\ v.conn = w.conn /\ v.chan = w.chan
             /\ v.s.coord = w.s.coord /\ v.s.known = w.s.known /\ v.s.roster = w.s.roster
             /\ v.s.left \subseteq w.s.left \cup (IF msg = Leave THEN {from} ELSE {})
             /\ w.s.trusted \subseteq v.s.trusted
             /\ v.s.trusted # w.s.trusted => msg = Accepted(TRUE)
<1>3. ASSUME Quiet(u)
      PROVE  /\ u.on = w.on /\ u.lobby = w.lobby
             /\ u.s.coord = w.s.coord /\ u.s.known = w.s.known
             /\ u.s.left \subseteq w.s.left \cup (IF msg = Leave THEN {from} ELSE {})
             /\ Members(u.s.roster) \subseteq u.s.trusted
             /\ Speaks(w, u, n, {}) /\ u.s.roster = w.s.roster
             /\ w.s.trusted \subseteq u.s.trusted
             /\ u.s.trusted # w.s.trusted => msg = Accepted(TRUE)
  <2> HIDE DEF u
  <2>1. Speaks(w, u, n, {})
    BY <1>3, SpeaksNothing
  <2> QED BY <1>3, <2>1
<1>4. Quiet(w)
  OBVIOUS
<1>5. msg.kind = "leave" => Quiet(u)
  <2>1. /\ gone.on = w.on /\ gone.lobby = w.lobby /\ gone.conn = w.conn /\ gone.chan = w.chan
        /\ gone.s.coord = w.s.coord /\ gone.s.known = w.s.known /\ gone.s.roster = w.s.roster
        /\ gone.s.left = w.s.left \cup {from} /\ gone.s.trusted = w.s.trusted
    BY <1>1 DEF WorldView, Session
  <2>2. msg.kind = "leave" => msg = Leave
    BY <1>1, MessageKinds
  <2>3. msg.kind = "leave" => u = gone \/ u = w
    BY DEF Handle
  <2> HIDE DEF gone, u
  <2> QED BY <1>4, <2>1, <2>2, <2>3
<1>6. msg.kind = "accepted" => Quiet(u)
  <2>1. /\ told.on = w.on /\ told.lobby = w.lobby /\ told.conn = w.conn /\ told.chan = w.chan
        /\ told.s.coord = w.s.coord /\ told.s.known = w.s.known /\ told.s.roster = w.s.roster
        /\ told.s.left = w.s.left /\ told.s.trusted = w.s.trusted \cup {from}
    BY <1>1 DEF WorldView, Session
  <2>2. msg.kind = "accepted" /\ msg.code => msg = Accepted(TRUE)
    BY <1>1, MessageKinds
  <2>3. msg.kind = "accepted" => (msg.code /\ u = told) \/ u = w
    BY DEF Handle
  <2> HIDE DEF told, u
  <2> QED BY <1>4, <2>1, <2>2, <2>3
<1>7. msg.kind = "denied" => Quiet(u)
  <2>1. /\ sent.on = w.on /\ sent.lobby = w.lobby /\ sent.conn = w.conn /\ sent.chan = w.chan
        /\ sent.s.coord = w.s.coord /\ sent.s.known = w.s.known /\ sent.s.roster = w.s.roster
        /\ sent.s.left = w.s.left /\ sent.s.trusted = w.s.trusted
    BY <1>1 DEF WorldView, Session
  <2>2. msg.kind = "denied" => u = sent \/ u = w
    BY DEF Handle
  <2> HIDE DEF sent, u
  <2> QED BY <1>4, <2>1, <2>2
<1>8. msg.kind = "auth" /\ ~IsCoordinator(w.s, n) => u = w
  BY DEF Handle
<1>9. msg.kind \in {"auth", "accepted", "denied", "leave"}
  BY <1>1, MessageKinds
<1>10. Quiet(u) \/ (msg.kind = "auth" /\ IsCoordinator(w.s, n))
  <2> HIDE DEF u, Quiet
  <2> QED BY <1>4, <1>5, <1>6, <1>7, <1>8, <1>9
<1> HIDE DEF u, Quiet
<1> QED BY <1>2, <1>3, <1>10 DEF u, Handles

-----------------------------------------------------------------------------
\* What a step of PC n may be, as far as the others see it.
Says(n, news) ==
  /\ \A a, b \in Node : {a, b} \in conn' => {a, b} \in conn \/ (a \in Awake /\ b \in Awake)'
  /\ \A a, b \in Node : \A msg \in Word :
       Has(chan'[a][b], msg) => Has(chan[a][b], msg) \/ (a = n /\ <<msg, b>> \in news)
  /\ \A a, b \in Node :
       chan[a][b] = <<>> /\ ~(a = n /\ {n, b} \in conn) => chan'[a][b] = <<>>

OthersRest(n) ==
  /\ turn \in {NoNode, n}
  /\ \A x \in Node \ {n} :
       mode'[x] = mode[x] /\ saved'[x] = saved[x] /\ SameCore(session[x], session'[x])

\* What it may not leave behind.
Tidy(n, news) ==
  /\ Places'
  /\ KeptBy(n)'
  /\ n \notin Awake' => IdlePC(n)'
  /\ \A x \in session'[n].left : Lingers(x)
  /\ Lingers(n) \/ (\E b \in Node : <<Leave, b>> \in news)
       => mode'[n] = "out" /\ saved'[n] = Empty

LEMMA OthersStay ==
  ASSUME NEW n \in Node, NEW news, Says(n, news), OthersRest(n), NEW x \in Node \ {n}
  PROVE  /\ x \in Awake' <=> x \in Awake
         /\ x \in Active' <=> x \in Active
         /\ InCharge(x)' <=> InCharge(x)
         /\ Addresses(x)' = Addresses(x)
         /\ Counts(x)' => Counts(x) \/ <<Accepted(TRUE), x>> \in news
<1>1. mode'[x] = mode[x] /\ saved'[x] = saved[x]
      /\ session'[x].coord = session[x].coord /\ session'[x].roster = session[x].roster
      /\ session'[x].known = session[x].known /\ session'[x].trusted = session[x].trusted
  BY DEF OthersRest, SameCore
<1>2. x \in Awake' <=> x \in Awake
  BY <1>1 DEF Awake
<1>3. x \in Active' <=> x \in Active
  BY <1>1, <1>2 DEF Active, Joined
<1>4. InCharge(x)' <=> InCharge(x)
  BY <1>1, <1>3 DEF InCharge
<1>5. Addresses(x)' = Addresses(x)
  BY <1>1 DEF Addresses
<1>6. \A m \in Node : Has(chan'[m][x], Accepted(TRUE)) =>
        Has(chan[m][x], Accepted(TRUE)) \/ <<Accepted(TRUE), x>> \in news
  BY DEF Says, Word
<1>7. Counts(x)' => Counts(x) \/ <<Accepted(TRUE), x>> \in news
  BY <1>1, <1>5, <1>6 DEF Counts
<1> QED BY <1>2, <1>3, <1>4, <1>5, <1>7

\* A tidy step leaves everybody where they should be.
LEMMA TidyKeeps ==
  ASSUME NEW n \in Node, NEW news, Says(n, news), OthersRest(n), Tidy(n, news),
         Places, Idle, Kept, StayGone
  PROVE  Places' /\ Idle' /\ Kept' /\ StayGone'
<1>1. ASSUME NEW x \in Node \ {n}
      PROVE  mode'[x] = mode[x] /\ saved'[x] = saved[x]
             /\ session'[x].coord = session[x].coord /\ session'[x].roster = session[x].roster
             /\ session'[x].known = session[x].known /\ session'[x].trusted = session[x].trusted
             /\ session'[x].left = session[x].left
  BY DEF OthersRest, SameCore
<1>2. ASSUME NEW x \in (Node \ Awake)' PROVE IdlePC(x)'
  <2>1. CASE x = n
    BY <1>2, <2>1 DEF Tidy
  <2>2. CASE x # n
    <3>1. x \in Node \ {n} /\ x \notin Awake /\ x \notin Awake'
      BY <1>2, <2>2, OthersStay
    <3>2. IdlePC(x)
      BY <3>1 DEF Idle
    <3>3. \A m \in Node : {m, x} \notin conn' /\ chan'[m][x] = <<>>
      <4> TAKE m \in Node
      <4>1. {m, x} \notin conn /\ chan[m][x] = <<>> /\ {n, x} \notin conn
        BY <3>2 DEF IdlePC
      <4> QED BY <3>1, <4>1 DEF Says
    <3> QED BY <1>1, <3>1, <3>2, <3>3 DEF IdlePC
  <2> QED BY <2>1, <2>2
<1>3. ASSUME NEW x \in Node PROVE KeptBy(x)'
  <2>1. CASE x = n
    BY <2>1 DEF Tidy
  <2>2. CASE x # n
    <3>1. KeptBy(x)
      BY DEF Kept
    <3> QED BY <1>1, <2>2, <3>1 DEF KeptBy, Members
  <2> QED BY <2>1, <2>2
<1>4. ASSUME NEW x \in Node, Lingers(x)' PROVE mode'[x] = "out" /\ saved'[x] = Empty
  <2>1. PICK m \in Node : x \in session'[m].left \/ Has(chan'[x][m], Leave)
    BY <1>4 DEF Lingers
  <2>2. Lingers(x) \/ (x = n /\ <<Leave, m>> \in news)
    <3>1. CASE x \in session'[m].left
      BY <1>1, <3>1 DEF Tidy, Lingers
    <3>2. CASE Has(chan'[x][m], Leave)
      <4>1. Has(chan[x][m], Leave) \/ (x = n /\ <<Leave, m>> \in news)
        BY <3>2 DEF Says, Word
      <4> QED BY <4>1 DEF Lingers
    <3> QED BY <2>1, <3>1, <3>2
  <2>3. CASE x = n
    BY <2>2, <2>3 DEF Tidy
  <2>4. CASE x # n
    BY <1>1, <2>2, <2>4 DEF StayGone
  <2> QED BY <2>3, <2>4
<1>5. Places'
  BY DEF Tidy
<1> QED BY <1>2, <1>3, <1>4, <1>5 DEF Idle, Kept, StayGone

-----------------------------------------------------------------------------
\* What a step of n does to the network, while it lasts.
Goes(n) ==
  /\ \A x \in Node \ {n} :
       Counts(x)' => Counts(x) \/ (InCharge(n) /\ InCharge(n)' /\ lobby'.data[x] # NoAddr)
  /\ Counts(n)' => Counts(n) /\ Addresses(n)' \subseteq {lobby'.data[n]}
  /\ \A x \in Node : Counts(x) /\ Counts(x)' => lobby'.data[x] = lobby.data[x]
  /\ lobby.owner = n \/ lobby'.owner = lobby.owner
  /\ lobby'.data = lobby.data \/ (lobby.owner = n /\ lobby.data[n] # NoAddr)
  /\ InCharge(n) => \/ InCharge(n)' /\ lobby'.owner = n
                    \/ \A m \in Active \ {n} : Knows(session[m].roster)
  /\ n \in Active' =>
       \/ session'[n].roster = lobby'.data
       \/ /\ n \in Active /\ session'[n].roster = session[n].roster
          /\ lobby'.data = lobby.data /\ session[n].trusted \subseteq session'[n].trusted
          /\ ~InCharge(n)'
  /\ ChargePC(n)' /\ SinglePC(n)' /\ NotedPC(n)'
  /\ InCharge(n)' /\ mode'[n] = "farewell" =>
       /\ ~InCharge(n) /\ lobby.owner = n /\ turn' = n
       /\ \A m \in Node : chan'[m][n] = <<>>

\* A step that goes on as it should keeps the network running.
LEMMA GoesOn ==
  ASSUME IInv, Kept, Running, lobby'.members # {},
         NEW n \in Node, NEW news, Says(n, news), OthersRest(n), Goes(n)
  PROVE  Running'
<1>1. ASSUME NEW x \in Node \ {n}
      PROVE  /\ mode'[x] = mode[x] /\ saved'[x] = saved[x]
             /\ session'[x].coord = session[x].coord /\ session'[x].roster = session[x].roster
             /\ session'[x].known = session[x].known /\ session'[x].trusted = session[x].trusted
             /\ x \in Active' <=> x \in Active
             /\ InCharge(x)' <=> InCharge(x)
             /\ Addresses(x)' = Addresses(x)
  BY OthersStay DEF OthersRest, SameCore
<1>2. ASSUME NEW x \in Node, Counts(x)'
      PROVE  \/ Counts(x) /\ lobby'.data[x] = lobby.data[x]
             \/ ~Counts(x) /\ x # n /\ InCharge(n) /\ InCharge(n)' /\ lobby'.data[x] # NoAddr
  BY <1>2 DEF Goes
<1>3. Honoured'
  <2> SUFFICES ASSUME NEW x \in Node, Counts(x)'
               PROVE  lobby'.data[x] # NoAddr /\ Addresses(x)' \subseteq {lobby'.data[x]}
    BY DEF Honoured
  <2>1. CASE Counts(x)
    <3>1. lobby.data[x] # NoAddr /\ Addresses(x) \subseteq {lobby.data[x]}
      BY <2>1 DEF Running, Honoured
    <3> QED BY <1>1, <1>2, <2>1, <3>1 DEF Goes
  <2>2. CASE ~Counts(x)
    BY <1>1, <1>2, <2>2 DEF Counts
  <2> QED BY <2>1, <2>2
<1>4. ASSUME NEW x \in Node PROVE SinglePC(x)' /\ NotedPC(x)' /\ ChargePC(x)'
  <2>1. CASE x = n
    BY <2>1 DEF Goes
  <2>2. CASE x # n
    <3>1. SinglePC(x) /\ NotedPC(x) /\ ChargePC(x)
      BY DEF Running, Singles, Noted, Charge
    <3>2. \A r : Alone(x, r) => Alone(x, r)'
      <4>1. CASE lobby'.data = lobby.data
        BY <4>1 DEF Alone, Members
      <4>2. CASE lobby.data[n] # NoAddr
        BY <2>2, <4>2 DEF Alone, Members
      <4> QED BY <4>1, <4>2 DEF Goes
    <3>3. SinglePC(x)'
      BY <1>1, <2>2, <3>1, <3>2 DEF SinglePC, Joined
    <3>4. NotedPC(x)' /\ ChargePC(x)'
      BY <1>1, <2>2, <3>1 DEF NotedPC, ChargePC, Goes
    <3> QED BY <3>3, <3>4
  <2> QED BY <2>1, <2>2
<1>5. ASSUME NEW m \in Active', ~ (InCharge(n) /\ InCharge(n)'), Knows(session[m].roster),
             session'[m].roster = session[m].roster
      PROVE  Knows(session[m].roster)'
  BY <1>2, <1>5 DEF Knows
<1>6. n \in Active => Counts(n)
  BY DEF Active, Joined, Counts, Addresses
<1>7. ASSUME NEW m \in Active' PROVE CatchPC(m)'
  <2>1. m \in Node
    BY DEF Active, Awake
  <2>2. CASE m # n
    <3>1. m \in Active /\ m \in Node \ {n}
      BY <1>1, <2>1, <2>2
    <3>2. CASE Knows(session[m].roster)
      <4>1. CASE InCharge(n) /\ InCharge(n)'
        <5>1. lobby.data[n] # NoAddr /\ Counts(n)
          BY <1>6, <4>1 DEF InCharge, Running, Honoured
        <5>2. session[m].roster[n] # NoAddr
          BY <3>2, <5>1 DEF Knows
        <5>3. n \in session[m].trusted
          BY <2>1, <5>2 DEF Kept, KeptBy, Members
        <5>4. lobby'.owner = n
          BY <1>4, <4>1 DEF ChargePC
        <5> QED BY <1>1, <3>1, <4>1, <5>3, <5>4 DEF CatchPC
      <4>2. CASE ~ (InCharge(n) /\ InCharge(n)')
        BY <1>1, <1>5, <3>1, <3>2, <4>2 DEF CatchPC
      <4> QED BY <4>1, <4>2
    <3>3. CASE ~Knows(session[m].roster)
      <4>1. InCharge(lobby.owner) /\ lobby.owner \in session[m].trusted
        BY <3>1, <3>3 DEF Running, Catch, CatchPC
      <4>2. lobby.owner \in Node
        BY <4>1 DEF InCharge, Active, Awake
      <4>3. PICK o \in Node : o = lobby.owner
        BY <4>2
      <4>4. InCharge(o)' /\ lobby'.owner = o
        BY <1>1, <3>1, <3>3, <4>1, <4>3 DEF Goes
      <4> QED BY <1>1, <3>1, <4>1, <4>3, <4>4 DEF CatchPC
    <3> QED BY <3>2, <3>3
  <2>3. CASE m = n /\ session'[n].roster = lobby'.data
    BY <2>3 DEF CatchPC, Knows
  <2>4. CASE /\ m = n /\ n \in Active /\ session'[n].roster = session[n].roster
             /\ lobby'.data = lobby.data /\ session[n].trusted \subseteq session'[n].trusted
             /\ ~InCharge(n)'
    <3>1. CASE Knows(session[n].roster)
      BY <1>5, <2>4, <3>1 DEF CatchPC
    <3>2. CASE ~Knows(session[n].roster)
      <4>1. InCharge(lobby.owner) /\ lobby.owner \in session[n].trusted
        BY <2>4, <3>2 DEF Running, Catch, CatchPC
      <4>2. lobby.owner # n
        BY <3>2, <4>1 DEF Running, Charge, ChargePC, Knows
      <4>3. lobby'.owner = lobby.owner /\ lobby.owner \in Node
        BY <4>1, <4>2 DEF Goes, InCharge, Active, Awake
      <4>4. PICK o \in Node \ {n} : o = lobby.owner
        BY <4>2, <4>3
      <4>5. InCharge(o)'
        BY <1>1, <4>1, <4>4
      <4> QED BY <2>4, <4>1, <4>3, <4>4, <4>5 DEF CatchPC
    <3> QED BY <3>1, <3>2
  <2> QED BY <2>2, <2>3, <2>4 DEF Goes
<1>8. ASSUME NEW x \in Node PROVE ByePC(x)'
  <2> SUFFICES ASSUME InCharge(x)', mode'[x] = "farewell"
               PROVE  /\ turn' = x
                      /\ \A m \in Node : chan'[m][x] = <<>>
                      /\ \A m \in Active' : Knows(session[m].roster)'
    BY DEF ByePC
  <2>1. x = n
    <3> SUFFICES ASSUME x # n PROVE FALSE
      OBVIOUS
    <3>1. InCharge(x) /\ mode[x] = "farewell" /\ ByePC(x)
      BY <1>1 DEF Running, Bye
    <3>2. turn = x /\ x # NoNode
      BY <3>1, NodeAssumption DEF ByePC, NoNode
    <3> QED BY <3>2 DEF OthersRest
  <2>2. ~InCharge(n) /\ lobby.owner = n /\ turn' = n /\ \A m \in Node : chan'[m][n] = <<>>
    BY <2>1 DEF Goes
  <2>3. ASSUME NEW m \in Active' PROVE Knows(session[m].roster)'
    <3>1. CASE m = n
      <4>1. session'[n].roster = lobby'.data
        BY <1>4, <2>1 DEF ChargePC
      <4> QED BY <3>1, <4>1 DEF Knows
    <3>2. CASE m # n
      <4>1. m \in Node \ {n} /\ m \in Active
        BY <1>1, <3>2 DEF Active, Awake
      <4>2. Knows(session[m].roster)
        BY <2>2, <4>1 DEF Running, Catch, CatchPC
      <4> QED BY <1>1, <1>5, <2>2, <4>1, <4>2
    <3> QED BY <3>1, <3>2
  <2> QED BY <2>1, <2>2, <2>3
<1> QED BY <1>3, <1>4, <1>7, <1>8 DEF Running, Singles, Noted, Charge, Catch, Bye

-----------------------------------------------------------------------------
\* A step keeps the invariant if it is tidy, and Goes while the network lasts.
LEMMA StepKeeps ==
  ASSUME Around, Running, IInv',
         NEW n \in Node, NEW news, Says(n, news), OthersRest(n), Tidy(n, news),
         saved'[n][n] \in Addresses(n) \cup {NoAddr} \/ lobby'.members # {},
         lobby'.members # {} => Goes(n)
  PROVE  CalmInv'
<1>1. Places' /\ Idle' /\ Kept' /\ StayGone'
  BY TidyKeeps DEF Around
<1>2. lobby'.members # {} => Running'
  BY GoesOn DEF Around
<1>3. FilesApart'
  <2>1. CASE lobby'.members # {}
    <3>1. \A x \in Node : saved'[x][x] # NoAddr => saved'[x][x] = lobby'.data[x]
      <4> SUFFICES ASSUME NEW x \in Node, saved'[x][x] # NoAddr
                   PROVE  saved'[x][x] = lobby'.data[x]
        OBVIOUS
      <4>1. saved'[x][x] \in Addresses(x)'
        BY DEF Addresses
      <4>2. Counts(x)'
        BY <4>1 DEF Counts
      <4> QED BY <1>2, <2>1, <4>1, <4>2 DEF Running, Honoured
    <3>2. WellFormed(lobby'.data)
      BY DEF IInv, SharedInv, GoodLobby, GoodRoster
    <3> QED BY <3>1, <3>2 DEF FilesApart, WellFormed, Members
  <2>2. CASE lobby'.members = {}
    <3>1. \A x \in Node : saved'[x][x] # NoAddr => saved'[x][x] = lobby.data[x]
      <4> SUFFICES ASSUME NEW x \in Node, saved'[x][x] # NoAddr
                   PROVE  saved'[x][x] = lobby.data[x]
        OBVIOUS
      <4>1. saved'[x][x] \in Addresses(x)
        BY <2>2 DEF OthersRest, Addresses
      <4>2. Counts(x)
        BY <4>1 DEF Counts
      <4> QED BY <4>1, <4>2 DEF Running, Honoured
    <3>2. WellFormed(lobby.data)
      BY DEF Around, IInv, SharedInv, GoodLobby, GoodRoster
    <3> QED BY <3>1, <3>2 DEF FilesApart, WellFormed, Members
  <2> QED BY <2>1, <2>2
<1> QED BY <1>1, <1>2, <1>3 DEF CalmInv, Around

-----------------------------------------------------------------------------
\* Nothing is said, nothing is connected.
LEMMA SaysNothing ==
  ASSUME NEW n \in Node, UNCHANGED chan, conn' \subseteq conn
  PROVE  Says(n, {})
BY DEF Says

\* A PC without a session before and after.
LEMMA AwayGoes ==
  ASSUME IInv, Places, NEW n \in Node, Says(n, {}), OthersRest(n), n \notin Awake, n \notin Awake',
         Running, Addresses(n)' \subseteq Addresses(n), session'[n].trusted = {},
         lobby'.data = lobby.data, lobby.owner = n \/ lobby'.owner = lobby.owner,
         SinglePC(n)'
  PROVE  Goes(n)
<1>1. ~InCharge(n) /\ ~InCharge(n)' /\ n \notin Active /\ n \notin Active'
  BY DEF InCharge, Active
<1>2. \A x \in Node \ {n} : Counts(x)' => Counts(x)
  BY OthersStay
<1>3. Counts(n)' => Counts(n)
  <2>1. \A m \in Node : Has(chan'[m][n], Accepted(TRUE)) => Has(chan[m][n], Accepted(TRUE))
    BY DEF Says, Word
  <2> QED BY <2>1 DEF Counts
<1>4. Counts(n)' => Addresses(n)' \subseteq {lobby'.data[n]}
  BY <1>3 DEF Running, Honoured
<1>5. ChargePC(n)' /\ NotedPC(n)'
  BY <1>1 DEF ChargePC, NotedPC
<1> QED BY <1>1, <1>2, <1>3, <1>4, <1>5 DEF Goes

LEMMA UnblockCore ==
  ASSUME NEW ses \in [Node -> Session], NEW n \in Node, NEW m \in Node
  PROVE  SameCore(ses[m], Unblock(ses, n)[m])
<1>1. Unblock(ses, n)[m] = [ses[m] EXCEPT !.blocked = @ \ {n}] /\ ses[m] \in Session
  BY DEF Unblock
<1> QED BY <1>1 DEF SameCore, Session

LEMMA EmptyMembers == \A n \in Node : Empty[n] = NoAddr /\ Members(Empty) # {n}
BY DEF Empty, Members

LEMMA JoinLobbyCalm ==
  ASSUME Around, Running, IInv', OrderlyStep, NEW n \in Node, JoinLobby(n)
  PROVE  CalmInv'
<1>1. /\ turn = NoNode /\ mode[n] = "out" /\ UNCHANGED <<conn, chan, session, saved, logged, turn>>
      /\ mode' = [mode EXCEPT ![n] = IF saved[n] = Empty THEN "join" ELSE "rejoin"]
      /\ lobby' = [lobby EXCEPT !.members = @ \cup {n}]
  BY DEF JoinLobby, EnterLobby
<1>2. mode'[n] = (IF saved[n] = Empty THEN "join" ELSE "rejoin")
      /\ \A x \in Node \ {n} : mode'[x] = mode[x]
  BY <1>1 DEF Around, IInv, ModeInv
<1>3. lobby'.members = lobby.members \cup {n} /\ lobby'.owner = lobby.owner
      /\ lobby'.data = lobby.data
  BY <1>1 DEF Around, IInv, SharedInv, GoodLobby, Lobby
<1>4. Says(n, {}) /\ OthersRest(n)
  BY <1>1, <1>2, SaysNothing DEF OthersRest, SameCore
<1>5. n \notin Awake /\ n \notin Awake'
  BY <1>1, <1>2 DEF Awake
<1>6. IdlePC(n) /\ KeptBy(n) /\ SinglePC(n)
  BY <1>5 DEF Around, Idle, Kept, Running, Singles
<1>7. Tidy(n, {})
  <2>1. Places'
    <3>1. lobby.owner \in lobby.members
      BY DEF Around, Places, Running
    <3> QED BY <1>1, <1>2, <1>3, <3>1 DEF Around, Places
  <2>2. KeptBy(n)' /\ IdlePC(n)'
    <3>1. IdlePC(n)'
      BY <1>1, <1>2, <1>6 DEF IdlePC
    <3>2. KeptBy(n)'
      BY <1>1, <1>2, <1>6 DEF KeptBy, Members
    <3> QED BY <3>1, <3>2
  <2>3. ~Lingers(n)
    <3> SUFFICES ASSUME Lingers(n) PROVE FALSE
      OBVIOUS
    <3>1. mode'[n] = "join"
      BY <1>2 DEF Around, StayGone
    <3> QED BY <1>1, <3>1 DEF OrderlyStep
  <2> QED BY <1>1, <1>6, <2>1, <2>2, <2>3 DEF Tidy, IdlePC
<1>8. Goes(n)
  <2>1. SinglePC(n)'
    BY <1>1, <1>2, <1>3, <1>5, <1>6 DEF SinglePC, Active, Alone, Members
  <2>2. Addresses(n)' \subseteq Addresses(n) /\ session'[n].trusted = {}
    BY <1>1, <1>6 DEF Addresses, IdlePC
  <2> QED BY <1>3, <1>4, <1>5, <2>1, <2>2, AwayGoes DEF Around
<1> QED BY <1>3, <1>4, <1>7, <1>8, StepKeeps

LEMMA LeaveOfflineCalm ==
  ASSUME Around, Running, IInv', NEW n \in Node, LeaveOffline(n)
  PROVE  CalmInv'
<1> DEFINE to == [Blank EXCEPT !.known = saved[n]]
<1>1. /\ turn = NoNode /\ mode[n] \in {"out", "rejoin"} /\ saved[n] # Empty
      /\ UNCHANGED <<conn, chan, logged, turn>>
      /\ mode' = [mode EXCEPT ![n] = "goodbye"]
      /\ session' = [session EXCEPT ![n] = to]
      /\ saved' = [saved EXCEPT ![n] = Empty]
      /\ \/ mode[n] = "rejoin" /\ lobby' = lobby
         \/ lobby' = [lobby EXCEPT !.members = @ \cup {n}]
  BY DEF LeaveOffline, EnterLobby
<1>2. mode'[n] = "goodbye" /\ saved'[n] = Empty /\ session'[n] = to
      /\ \A x \in Node \ {n} :
           mode'[x] = mode[x] /\ saved'[x] = saved[x] /\ session'[x] = session[x]
  BY <1>1 DEF Around, IInv, ModeInv, SavedInv, SessionInv
<1>3. lobby'.members = lobby.members \cup {n} /\ lobby'.owner = lobby.owner
      /\ lobby'.data = lobby.data
  BY <1>1 DEF Around, IInv, SharedInv, GoodLobby, Lobby, Places
<1>4. to.coord = NoNode /\ to.roster = Empty /\ to.known = saved[n] /\ to.trusted = {} /\ to.left = {}
  BY DEF Blank
<1> HIDE DEF to
<1>5. Says(n, {}) /\ OthersRest(n)
  BY <1>1, <1>2, SaysNothing DEF OthersRest, SameCore
<1>6. n \notin Awake /\ n \notin Awake'
  BY <1>1, <1>2 DEF Awake
<1>7. IdlePC(n) /\ KeptBy(n) /\ SinglePC(n)
  BY <1>6 DEF Around, Idle, Kept, Running, Singles
<1>8. Tidy(n, {})
  <2>1. Places'
    <3>1. lobby.owner \in lobby.members
      BY DEF Around, Places, Running
    <3> QED BY <1>1, <1>2, <1>3, <3>1 DEF Around, Places
  <2>2. KeptBy(n)' /\ IdlePC(n)'
    BY <1>1, <1>2, <1>4, <1>7, EmptyRoster DEF KeptBy, IdlePC
  <2>3. ~Lingers(n)
    BY <1>1 DEF Around, StayGone
  <2> QED BY <1>2, <1>4, <2>1, <2>2, <2>3 DEF Tidy
<1>9. Goes(n)
  <2>1. SinglePC(n)'
    BY <1>1, <1>2, <1>3, <1>4, <1>6, <1>7 DEF SinglePC, Active, Alone, Members
  <2>2. Addresses(n)' \subseteq Addresses(n) /\ session'[n].trusted = {}
    BY <1>2, <1>4, EmptyMembers DEF Addresses
  <2> QED BY <1>3, <1>5, <1>6, <2>1, <2>2, AwayGoes DEF Around
<1> QED BY <1>3, <1>5, <1>8, <1>9, StepKeeps

LEMMA SteamDropsCalm ==
  ASSUME Around, Running, IInv', NEW n \in Node, SteamDrops(n)
  PROVE  CalmInv'
<1>1. /\ turn = NoNode /\ n \in lobby.members /\ mode[n] = "out" /\ logged[n]
      /\ UNCHANGED <<mode, saved, logged, turn>>
      /\ session' = Unblock(session, n)
  BY DEF SteamDrops, Around, Places
<1>2. PICK heir \in Heirs(n, lobby) :
        conn' = {p \in conn : n \notin p} /\ chan' = chan /\ lobby' = OutOf(lobby, n, heir)
  BY <1>1 DEF SteamDrops
<1>3. \A x \in Node : SameCore(session[x], session'[x])
  BY <1>1, UnblockCore DEF Around, IInv, SessionInv
<1>4. Says(n, {}) /\ OthersRest(n)
  BY <1>1, <1>2, <1>3, SaysNothing DEF OthersRest
<1>5. n \notin Awake /\ n \notin Awake'
  BY <1>1 DEF Awake
<1>6. IdlePC(n) /\ KeptBy(n) /\ SinglePC(n)
  BY <1>5 DEF Around, Idle, Kept, Running, Singles
<1>7. \/ lobby.members = {n} /\ lobby' = GoneLobby
      \/ /\ lobby'.members = lobby.members \ {n} /\ lobby'.members # {} /\ lobby'.data = lobby.data
         /\ lobby'.owner \in lobby'.members /\ (lobby.owner = n \/ lobby'.owner = lobby.owner)
  <2>1. lobby.owner \in lobby.members
    BY <1>1 DEF Around, Places
  <2>2. CASE lobby.members = {n}
    BY <1>1, <1>2, <2>2 DEF OutOf
  <2>3. CASE lobby.members # {n}
    <3>1. lobby' = [lobby EXCEPT !.members = @ \ {n}, !.owner = heir]
      BY <1>1, <1>2, <2>3 DEF OutOf
    <3>2. lobby'.members = lobby.members \ {n} /\ lobby'.data = lobby.data /\ lobby'.owner = heir
      BY <3>1 DEF Around, IInv, SharedInv, GoodLobby, Lobby
    <3>3. heir \in lobby.members \ {n} /\ (lobby.owner = n \/ heir = lobby.owner)
      BY <1>2, <2>1, <2>3 DEF Heirs
    <3> QED BY <3>2, <3>3
  <2> QED BY <2>2, <2>3
<1>8. session'[n].coord = session[n].coord /\ session'[n].roster = session[n].roster
      /\ session'[n].known = session[n].known /\ session'[n].trusted = session[n].trusted
      /\ session'[n].left = session[n].left
  BY <1>3 DEF SameCore
<1>9. Tidy(n, {})
  <2>1. Places'
    <3>1. \A x \in Node : mode'[x] # "out" => x \in lobby'.members
      BY <1>1, <1>7 DEF Around, Places
    <3>2. lobby'.members # {} => lobby'.owner \in lobby'.members
      BY <1>7 DEF GoneLobby
    <3>3. lobby'.members = {} => lobby' = GoneLobby
      BY <1>7
    <3> QED BY <1>1, <3>1, <3>2, <3>3 DEF Around, Places
  <2>2. KeptBy(n)' /\ IdlePC(n)'
    BY <1>1, <1>2, <1>6, <1>8 DEF KeptBy, IdlePC, Members
  <2>3. Lingers(n) => mode'[n] = "out" /\ saved'[n] = Empty
    BY <1>1 DEF Around, StayGone
  <2> QED BY <1>6, <1>8, <2>1, <2>2, <2>3 DEF Tidy, IdlePC
<1>10. lobby'.members # {} => Goes(n)
  <2> SUFFICES ASSUME lobby'.members # {} PROVE Goes(n)
    OBVIOUS
  <2>1. lobby'.data = lobby.data /\ (lobby.owner = n \/ lobby'.owner = lobby.owner)
    BY <1>7 DEF GoneLobby
  <2>2. SinglePC(n)'
    BY <1>1, <1>5, <1>6, <2>1 DEF SinglePC, Active, Alone, Members
  <2>3. Addresses(n)' \subseteq Addresses(n) /\ session'[n].trusted = {}
    BY <1>1, <1>6, <1>8 DEF Addresses, IdlePC
  <2> QED BY <1>4, <1>5, <2>1, <2>2, <2>3, AwayGoes DEF Around
<1>11. saved'[n][n] \in Addresses(n) \cup {NoAddr}
  BY <1>1 DEF Addresses
<1> QED BY <1>4, <1>9, <1>10, <1>11, StepKeeps

\* A JoinLobby call is not waited for any longer.
LEMMA AbandonCalm ==
  ASSUME Around, Running, IInv', NEW n \in Node, GoOffline(n), mode[n] \notin Live
  PROVE  CalmInv'
<1>1. /\ turn = NoNode /\ mode[n] # "out" /\ UNCHANGED <<lobby, conn, chan, logged, turn>>
      /\ mode' = [mode EXCEPT ![n] = "out"] /\ session' = [session EXCEPT ![n] = Blank]
      /\ ~Joined(session[n], n) => saved' = saved
  BY DEF GoOffline, GoOut, Abandon
<1>2. mode[n] \in {"join", "rejoin", "goodbye"}
  BY <1>1 DEF Around, Places, Live
<1>3. n \notin Awake
  BY <1>2 DEF Awake
<1>4. IdlePC(n) /\ KeptBy(n) /\ SinglePC(n)
  BY <1>3 DEF Around, Idle, Kept, Running, Singles
<1>5. saved' = saved
  BY <1>1, <1>4, EmptyMembers DEF IdlePC, Joined
<1>6. mode'[n] = "out" /\ session'[n] = Blank
      /\ \A x \in Node \ {n} : mode'[x] = mode[x] /\ session'[x] = session[x]
  BY <1>1 DEF Around, IInv, ModeInv, SessionInv
<1>7. n \notin Awake'
  BY <1>6 DEF Awake
<1>8. Blank.coord = NoNode /\ Blank.roster = Empty /\ Blank.known = Empty
      /\ Blank.trusted = {} /\ Blank.left = {}
  BY DEF Blank
<1>9. Says(n, {}) /\ OthersRest(n)
  BY <1>1, <1>5, <1>6, SaysNothing DEF OthersRest, SameCore
<1>10. Tidy(n, {})
  <2>1. Places'
    BY <1>1, <1>6 DEF Around, Places
  <2>2. KeptBy(n)' /\ IdlePC(n)'
    BY <1>1, <1>4, <1>5, <1>6, <1>8, EmptyRoster DEF KeptBy, IdlePC
  <2>3. ~Lingers(n)
    BY <1>1 DEF Around, StayGone
  <2> QED BY <1>6, <1>8, <2>1, <2>2, <2>3 DEF Tidy
<1>11. Goes(n)
  <2>1. Alone(n, saved[n])
    BY <1>2, <1>4, EmptyMembers DEF SinglePC, KeptBy, Alone
  <2>2. SinglePC(n)'
    BY <1>1, <1>5, <1>6, <1>7, <2>1 DEF SinglePC, Active, Alone, Members
  <2>3. Addresses(n)' \subseteq Addresses(n) /\ session'[n].trusted = {}
    BY <1>5, <1>6, <1>8, EmptyMembers DEF Addresses
  <2> QED BY <1>1, <1>3, <1>7, <1>9, <2>2, <2>3, AwayGoes DEF Around
<1>12. lobby'.members # {}
  BY <1>1 DEF Running
<1> QED BY <1>9, <1>10, <1>11, <1>12, StepKeeps

-----------------------------------------------------------------------------
\* Who is not told that it is a member counts on the lobby's roster no more
\* than before.
LEMMA OthersCount ==
  ASSUME NEW n \in Node, NEW news, Says(n, news), OthersRest(n),
         \A x \in Node : <<Accepted(TRUE), x>> \notin news
  PROVE  \A x \in Node \ {n} : Counts(x)' => Counts(x)
<1> SUFFICES ASSUME NEW x \in Node \ {n}, Counts(x)' PROVE Counts(x)
  OBVIOUS
<1>1. Counts(x)' => Counts(x) \/ <<Accepted(TRUE), x>> \in news
  BY OthersStay
<1> QED BY <1>1

LEMMA OthersCountNoMore ==
  ASSUME NEW n \in Node, Says(n, {}), OthersRest(n)
  PROVE  \A x \in Node \ {n} : Counts(x)' => Counts(x)
<1> DEFINE nothing == {}
<1>1. Says(n, nothing) /\ \A x \in Node : <<Accepted(TRUE), x>> \notin nothing
  OBVIOUS
<1> HIDE DEF nothing
<1> QED BY <1>1, OthersCount

\* Connections come and go; the PCs do nothing.
LEMMA LinksKeep ==
  ASSUME Around, Running, IInv', NEW n \in Node, Says(n, {}), turn = NoNode,
         UNCHANGED <<lobby, mode, session, saved, logged, turn>>
  PROVE  CalmInv'
<1>1. OthersRest(n)
  BY DEF OthersRest, SameCore
<1>2. Awake' = Awake /\ Active' = Active /\ (InCharge(n)' <=> InCharge(n))
      /\ Addresses(n)' = Addresses(n)
  BY DEF Awake, Active, InCharge, Addresses
<1>3. KeptBy(n) /\ SinglePC(n) /\ NotedPC(n) /\ ChargePC(n) /\ (n \notin Awake => IdlePC(n))
  BY DEF Around, Idle, Kept, Running, Singles, Noted, Charge
<1>4. Tidy(n, {})
  <2>1. Places'
    BY DEF Around, Places
  <2>2. KeptBy(n)'
    BY <1>3 DEF KeptBy
  <2>3. n \notin Awake' => IdlePC(n)'
    <3> SUFFICES ASSUME n \notin Awake' PROVE IdlePC(n)'
      OBVIOUS
    <3>1. IdlePC(n)
      BY <1>2, <1>3
    <3>2. \A m \in Node : {m, n} \notin conn' /\ chan'[m][n] = <<>>
      <4> TAKE m \in Node
      <4>1. {m, n} \notin conn /\ chan[m][n] = <<>> /\ {n, n} \notin conn
        BY <3>1 DEF IdlePC
      <4> QED BY <4>1 DEF Says
    <3> QED BY <3>1, <3>2 DEF IdlePC
  <2>4. Lingers(n) => mode'[n] = "out" /\ saved'[n] = Empty
    BY DEF Around, StayGone
  <2> QED BY <2>1, <2>2, <2>3, <2>4 DEF Tidy, Lingers
<1>5. Goes(n)
  <2>1. \A x \in Node \ {n} : Counts(x)' => Counts(x)
    BY <1>1, OthersCountNoMore
  <2>2. Counts(n)' => Counts(n)
    <3>1. \A m \in Node : Has(chan'[m][n], Accepted(TRUE)) => Has(chan[m][n], Accepted(TRUE))
      BY DEF Says, Word
    <3> QED BY <3>1, <1>2 DEF Counts
  <2>3. Counts(n)' => Addresses(n)' \subseteq {lobby'.data[n]}
    BY <1>2, <2>2 DEF Running, Honoured
  <2>4. ChargePC(n)' /\ SinglePC(n)' /\ NotedPC(n)'
    BY <1>2, <1>3 DEF ChargePC, SinglePC, NotedPC, Alone, Members
  <2>5. ~ (InCharge(n)' /\ mode'[n] = "farewell")
    <3>1. ByePC(n) /\ n # NoNode
      BY NodeAssumption DEF Running, Bye, NoNode
    <3> QED BY <1>2, <3>1 DEF ByePC
  <2>6. n \in Active' =>
       \/ session'[n].roster = lobby'.data
       \/ /\ n \in Active /\ session'[n].roster = session[n].roster
          /\ lobby'.data = lobby.data /\ session[n].trusted \subseteq session'[n].trusted
          /\ ~InCharge(n)'
    BY <1>2, <1>3 DEF ChargePC
  <2>7. InCharge(n) => InCharge(n)' /\ lobby'.owner = n
    BY <1>2, <1>3 DEF ChargePC
  <2> QED BY <2>1, <2>2, <2>3, <2>4, <2>5, <2>6, <2>7 DEF Goes
<1>6. lobby'.members # {}
  BY DEF Running
<1> QED BY <1>1, <1>4, <1>5, <1>6, StepKeeps

LEMMA ConnectCalm ==
  ASSUME Around, Running, IInv', NEW n \in Node, Connect(n)
  PROVE  CalmInv'
<1>1. PICK m \in lobby.members :
        /\ turn = NoNode /\ mode[n] \in Live \ {"suspended"} /\ mode[m] \in Live
        /\ conn' = conn \cup {{n, m}}
        /\ UNCHANGED <<lobby, chan, mode, session, saved, logged, turn>>
  BY DEF Connect
<1>2. m \in Node
  BY DEF Around, IInv, SharedInv, GoodLobby, Lobby
<1>3. n \in Awake' /\ m \in Awake'
  BY <1>1, <1>2 DEF Around, Places, Awake, Live
<1>4. Says(n, {})
  <2>1. \A a, b \in Node : {a, b} \in conn' => {a, b} \in conn \/ (a \in Awake /\ b \in Awake)'
    BY <1>1, <1>2, <1>3
  <2> QED BY <1>1, <2>1 DEF Says
<1> QED BY <1>1, <1>4, LinksKeep

LEMMA LinkDropsCalm ==
  ASSUME Around, Running, IInv', NEW n \in Node, LinkDrops(n)
  PROVE  CalmInv'
<1>1. PICK m \in Node :
        /\ turn = NoNode
        /\ conn' = conn \ {{n, m}}
        /\ chan' = chan \/ chan' = [chan EXCEPT ![n][m] = <<>>, ![m][n] = <<>>]
        /\ UNCHANGED <<lobby, mode, session, saved, logged, turn>>
  BY DEF LinkDrops
<1>2. \A a, b \in Node : chan'[a][b] = chan[a][b] \/ chan'[a][b] = <<>>
  <2> DEFINE once == [chan EXCEPT ![n][m] = <<>>]
             twice == [once EXCEPT ![m][n] = <<>>]
  <2>1. chan \in [Node -> [Node -> Seq(Message)]]
    BY DEF Around, IInv, SharedInv, GoodChannels, Channels
  <2>2. once \in [Node -> [Node -> Seq(Message)]]
        /\ \A a, b \in Node : once[a][b] = chan[a][b] \/ once[a][b] = <<>>
    BY <2>1, EmptySeq
  <2> HIDE DEF once
  <2>3. \A a, b \in Node : twice[a][b] = once[a][b] \/ twice[a][b] = <<>>
    BY <2>2
  <2>4. chan' = chan \/ chan' = twice
    BY <1>1 DEF once
  <2> HIDE DEF twice
  <2> QED BY <2>2, <2>3, <2>4
<1>3. Says(n, {})
  BY <1>1, <1>2, HasEmpty DEF Says
<1> QED BY <1>1, <1>3, LinksKeep

-----------------------------------------------------------------------------
\* What a PC that is in the lobby sees.
LEMMA InLobby ==
  ASSUME Around, Running, NEW n \in Node, mode[n] # "out"
  PROVE  /\ GoodView(View(n), n)
         /\ View(n).on /\ View(n).lobby = lobby /\ View(n).s = session[n]
         /\ View(n).conn = conn /\ View(n).chan = chan
         /\ n \in lobby.members /\ lobby.owner \in lobby.members
         /\ session[n] \in Session /\ lobby \in Lobby
         /\ ~Lingers(n)
<1>1. GoodView(View(n), n)
  BY ViewIsGood DEF Around
<1>2. logged[n] /\ n \in lobby.members
  BY DEF Around, Places
<1>3. lobby.owner \in lobby.members
  BY <1>2 DEF Around, Places
<1>4. session[n] \in Session /\ lobby \in Lobby
  BY DEF Around, IInv, SessionInv, SharedInv, GoodLobby
<1>5. ~Lingers(n)
  BY DEF Around, StayGone
<1> QED BY <1>1, <1>2, <1>3, <1>4, <1>5 DEF View

LEMMA Spoken ==
  ASSUME NEW n \in Node, NEW u, NEW news, Speaks(View(n), u, n, news),
         conn' = u.conn, chan' = u.chan
  PROVE  Says(n, news)
<1>1. View(n).conn = conn /\ View(n).chan = chan
  BY DEF View
<1> QED BY <1>1 DEF Speaks, Says

LEMMA CloseCore ==
  ASSUME Around, NEW n \in Node, NEW u, GoodView(u, n), NEW news, Speaks(View(n), u, n, news),
         u.on, n \in u.lobby.members, u.lobby.owner \in u.lobby.members,
         NEW linger, CloseNetwork(u, n, linger)
  PROVE  /\ Says(n, news)
         /\ \A m \in Node : {m, n} \notin conn' /\ chan'[m][n] = <<>>
         /\ mode'[n] = "out" /\ SameCore(Blank, session'[n])
         /\ \A x \in Node \ {n} : mode'[x] = mode[x] /\ SameCore(session[x], session'[x])
         /\ \/ u.lobby.members = {n} /\ lobby' = GoneLobby
            \/ /\ lobby'.members = u.lobby.members \ {n} /\ lobby'.members # {}
               /\ lobby'.data = u.lobby.data
               /\ lobby'.owner \in lobby'.members
               /\ u.lobby.owner = n \/ lobby'.owner = u.lobby.owner
<1> DEFINE CutSo(v) == /\ Speaks(u, v, n, {}) /\ v.s = u.s /\ v.lobby = u.lobby /\ v.on = u.on
                       /\ \A m \in Node : {m, n} \notin v.conn /\ v.chan[m][n] = <<>>
<1>0. ASSUME NEW gone PROVE CutSo(Cut(u, n, gone)) /\ GoodView(Cut(u, n, gone), n)
  <2> DEFINE c == Cut(u, n, gone)
  <2>1. Speaks(u, c, n, {}) /\ c.s = u.s /\ c.lobby = u.lobby /\ c.on = u.on
    BY CutSpeaks
  <2>3. \A m \in Node : {m, n} \notin c.conn /\ c.chan[m][n] = <<>>
    BY CutSpeaks
  <2>2. GoodView(Cut(u, n, gone), n)
    BY CutIsGood
  <2> HIDE DEF c
  <2> QED BY <2>1, <2>2, <2>3 DEF c
<1> PICK heir \in Heirs(n, u.lobby),
         lost \in {{}, IF linger THEN {} ELSE ConnectedPeers(u, n)} :
      /\ Show([Cut(u, n, lost) EXCEPT !.lobby = OutOf(@, n, heir)])
      /\ session' = Unblock([session EXCEPT ![n] = Blank], n)
      /\ mode' = [mode EXCEPT ![n] = "out"]
  BY DEF CloseNetwork
<1> DEFINE cut == Cut(u, n, lost)
           ses == [session EXCEPT ![n] = Blank]
<1>2. CutSo(cut) /\ GoodView(cut, n)
  <2> HIDE DEF CutSo
  <2> QED BY <1>0
<1> HIDE DEF cut
<1>1. /\ Speaks(u, cut, n, {}) /\ cut.lobby = u.lobby
      /\ \A m \in Node : {m, n} \notin cut.conn /\ cut.chan[m][n] = <<>>
  BY <1>2
<1>3. conn' = cut.conn /\ chan' = cut.chan /\ lobby' = OutOf(u.lobby, n, heir)
  BY <1>1, <1>2 DEF Show, cut, GoodView, WorldView
<1>4. Speaks(View(n), cut, n, news)
  BY <1>1, SpeaksOn
<1>5. Says(n, news)
  BY <1>3, <1>4, Spoken
<1>6. ses \in [Node -> Session] /\ ses[n] = Blank /\ \A x \in Node \ {n} : ses[x] = session[x]
  BY BlankIsGood DEF Around, IInv, SessionInv, GoodSession
<1> HIDE DEF ses
<1>7. \A x \in Node : SameCore(ses[x], session'[x])
  BY <1>6, UnblockCore DEF ses
<1>8. mode'[n] = "out" /\ \A x \in Node \ {n} : mode'[x] = mode[x]
  BY DEF Around, IInv, ModeInv
<1>9. \/ u.lobby.members = {n} /\ lobby' = GoneLobby
      \/ /\ lobby'.members = u.lobby.members \ {n} /\ lobby'.members # {}
         /\ lobby'.data = u.lobby.data
         /\ lobby'.owner \in lobby'.members
         /\ u.lobby.owner = n \/ lobby'.owner = u.lobby.owner
  <2>1. CASE u.lobby.members = {n}
    BY <1>3, <2>1 DEF OutOf
  <2>2. CASE u.lobby.members # {n}
    <3>1. lobby' = [u.lobby EXCEPT !.members = @ \ {n}, !.owner = heir]
      BY <1>3, <2>2 DEF OutOf
    <3>2. lobby'.members = u.lobby.members \ {n} /\ lobby'.data = u.lobby.data /\ lobby'.owner = heir
      BY <3>1 DEF GoodView, GoodLobby, Lobby
    <3>3. heir \in u.lobby.members \ {n} /\ (u.lobby.owner = n \/ heir = u.lobby.owner)
      BY <2>2 DEF Heirs
    <3> QED BY <3>2, <3>3
  <2> QED BY <2>1, <2>2
<1> QED BY <1>1, <1>3, <1>5, <1>6, <1>7, <1>8, <1>9

\* A session ends: what has to be so for the others to carry on.
LEMMA LeaverKeeps ==
  ASSUME Around, Running, IInv', NEW n \in Node, n \in Awake, turn \in {NoNode, n},
         UNCHANGED logged,
         NEW u, GoodView(u, n), u.on,
         u.lobby.members = lobby.members, u.lobby.owner \in lobby.members,
         NEW news, Speaks(View(n), u, n, news), \A x \in Node : <<Accepted(TRUE), x>> \notin news,
         NEW linger, CloseNetwork(u, n, linger),
         lobby.owner = n \/ u.lobby.owner = lobby.owner,
         \/ u.lobby.data = lobby.data
         \/ lobby.owner = n /\ Counts(n)
              /\ \A x \in Node \ {n} : Counts(x) => u.lobby.data[x] = lobby.data[x],
         InCharge(n) /\ lobby'.members # {} => \A m \in Active \ {n} : Knows(session[m].roster),
         \A x \in Node \ {n} : saved'[x] = saved[x],
         \/ saved'[n] = Empty
         \/ /\ u.lobby.data = lobby.data /\ Alone(n, saved'[n]) /\ news = {}
            /\ saved'[n][n] \in Addresses(n)
  PROVE  CalmInv'
<1>1. /\ Says(n, news)
      /\ \A m \in Node : {m, n} \notin conn' /\ chan'[m][n] = <<>>
      /\ mode'[n] = "out" /\ SameCore(Blank, session'[n])
      /\ \A x \in Node \ {n} : mode'[x] = mode[x] /\ SameCore(session[x], session'[x])
      /\ \/ lobby.members = {n} /\ lobby' = GoneLobby
         \/ /\ lobby'.members = lobby.members \ {n} /\ lobby'.members # {}
            /\ lobby'.data = u.lobby.data
            /\ lobby'.owner \in lobby'.members
            /\ u.lobby.owner = n \/ lobby'.owner = u.lobby.owner
  <2>1. n \in u.lobby.members /\ u.lobby.owner \in u.lobby.members
    BY InLobby DEF Awake
  <2>2. /\ Says(n, news)
        /\ \A m \in Node : {m, n} \notin conn' /\ chan'[m][n] = <<>>
        /\ mode'[n] = "out" /\ SameCore(Blank, session'[n])
        /\ \A x \in Node \ {n} : mode'[x] = mode[x] /\ SameCore(session[x], session'[x])
        /\ \/ u.lobby.members = {n} /\ lobby' = GoneLobby
           \/ /\ lobby'.members = u.lobby.members \ {n} /\ lobby'.members # {}
              /\ lobby'.data = u.lobby.data
              /\ lobby'.owner \in lobby'.members
              /\ u.lobby.owner = n \/ lobby'.owner = u.lobby.owner
    BY <2>1, CloseCore
  <2> QED BY <2>2
<1>2. OthersRest(n)
  BY <1>1 DEF OthersRest
<1>3. session'[n].coord = NoNode /\ session'[n].roster = Empty /\ session'[n].known = Empty
      /\ session'[n].trusted = {} /\ session'[n].left = {}
  BY <1>1 DEF SameCore, Blank
<1>4. ~Lingers(n)
  BY InLobby DEF Awake
<1>5. Tidy(n, news)
  <2>1. Places'
    <3>1. \A x \in Node : mode'[x] # "out" => x \in lobby'.members
      <4> SUFFICES ASSUME NEW x \in Node, mode'[x] # "out" PROVE x \in lobby'.members
        OBVIOUS
      <4>1. x # n /\ mode[x] # "out"
        BY <1>1
      <4>2. x \in lobby.members
        BY <4>1 DEF Around, Places
      <4> QED BY <1>1, <4>1, <4>2
    <3>2. lobby'.members # {} => lobby'.owner \in lobby'.members
      BY <1>1 DEF GoneLobby
    <3>3. lobby'.members = {} => lobby' = GoneLobby
      BY <1>1
    <3>4. \A x \in Node : logged'[x]
            /\ mode'[x] \in {"out", "join", "rejoin", "goodbye", "online", "farewell"}
      BY <1>1 DEF Around, Places
    <3> QED BY <3>1, <3>2, <3>3, <3>4 DEF Places
  <2>2. KeptBy(n)'
    BY <1>1, <1>3, EmptyRoster DEF KeptBy, Addresses
  <2>3. IdlePC(n)'
    BY <1>1, <1>3 DEF IdlePC
  <2>4. (\E b \in Node : <<Leave, b>> \in news) => mode'[n] = "out" /\ saved'[n] = Empty
    BY <1>1
  <2> QED BY <1>3, <1>4, <2>1, <2>2, <2>3, <2>4 DEF Tidy
<1>6. saved'[n][n] \in Addresses(n) \cup {NoAddr}
  BY EmptyMembers
<1>7. ASSUME lobby'.members # {} PROVE Goes(n)
  <2>1. lobby'.data = u.lobby.data
        /\ (lobby.owner = n \/ lobby'.owner = lobby.owner)
    BY <1>1, <1>7 DEF GoneLobby
  <2>2. n \notin Awake' /\ n \notin Active' /\ ~InCharge(n)'
    BY <1>1 DEF Awake, Active, InCharge
  <2>3. \A x \in Node \ {n} : Counts(x)' => Counts(x)
    BY <1>1, <1>2, OthersCount
  <2>4. Counts(n)' => saved'[n] # Empty
    <3> SUFFICES ASSUME saved'[n] = Empty PROVE ~Counts(n)'
      OBVIOUS
    <3>1. \A m \in Node : ~Has(chan'[m][n], Accepted(TRUE))
      BY <1>1, HasEmpty
    <3>2. Addresses(n)' = {}
      BY <1>3, EmptyMembers DEF Addresses
    <3> QED BY <1>3, <3>1, <3>2 DEF Counts
  <2>5. Counts(n)' => /\ u.lobby.data = lobby.data /\ saved'[n][n] \in Addresses(n)
                      /\ Alone(n, saved'[n])
    BY <2>4
  <2>6. Counts(n)' => Counts(n)
    BY <2>5 DEF Counts
  <2>7. Counts(n)' => Addresses(n)' \subseteq {lobby'.data[n]}
    <3>1. Addresses(n)' \subseteq {saved'[n][n]}
      BY <1>3, EmptyMembers DEF Addresses
    <3>2. Counts(n) => Addresses(n) \subseteq {lobby.data[n]}
      BY DEF Running, Honoured
    <3> QED BY <2>1, <2>5, <2>6, <3>1, <3>2
  <2>8. \A x \in Node : Counts(x) /\ Counts(x)' => lobby'.data[x] = lobby.data[x]
    BY <2>1, <2>5
  <2>9. lobby'.data = lobby.data \/ (lobby.owner = n /\ lobby.data[n] # NoAddr)
    BY <2>1 DEF Running, Honoured
  <2>10. ChargePC(n)' /\ NotedPC(n)'
    BY <2>2 DEF ChargePC, NotedPC
  <2>11. Alone(n, saved[n])'
    <3>1. CASE saved'[n] = Empty
      BY <3>1, EmptyMembers DEF Alone
    <3>2. CASE saved'[n] # Empty
      <4>1. lobby'.data = lobby.data /\ Alone(n, saved'[n])
        BY <2>1, <3>2
      <4> QED BY <4>1 DEF Alone
    <3> QED BY <3>1, <3>2
  <2>12. SinglePC(n)'
    BY <1>1, <2>2, <2>11 DEF SinglePC
  <2> QED BY <1>7, <2>1, <2>2, <2>3, <2>6, <2>7, <2>8, <2>9, <2>10, <2>12 DEF Goes
<1> QED BY <1>1, <1>2, <1>5, <1>6, <1>7, StepKeeps

-----------------------------------------------------------------------------
\* What a PC says when it leaves.
Farewells == {<<Leave, b>> : b \in Node}

LEMMA FarewellsAreLeave ==
  /\ \A x \in Node : <<Accepted(TRUE), x>> \notin Farewells
  /\ {<<Leave, b>> : b \in Node} \subseteq Farewells
<1>1. Leave # Accepted(TRUE)
  BY Messages DEF Leave, Accepted
<1> QED BY <1>1 DEF Farewells

LEMMA SayGoodbye ==
  ASSUME NEW n \in Node, NEW w, GoodView(w, n)
  PROVE  LET u == Send(w, n, ConnectedPeers(w, n), Leave) IN
           /\ Speaks(w, u, n, Farewells)
           /\ u.s = w.s /\ u.lobby = w.lobby /\ u.on = w.on
<1> DEFINE to == ConnectedPeers(w, n)
           u == Send(w, n, to, Leave)
           news == {<<Leave, b>> : b \in to}
<1>1. Leave \in Message
  BY Messages
<1>2. Speaks(w, u, n, news) /\ u.s = w.s /\ u.lobby = w.lobby /\ u.on = w.on
  BY <1>1, SendSpeaks
<1>3. news \subseteq Farewells
  BY DEF ConnectedPeers, Farewells
<1> HIDE DEF u, news
<1>4. Speaks(w, u, n, Farewells)
  BY <1>2, <1>3 DEF Speaks
<1> QED BY <1>2, <1>4 DEF u

LEMMA AnnounceSpeaks ==
  ASSUME NEW n \in Node, NEW w, GoodView(w, n)
  PROVE  LET u == Announce(w, n) IN
           /\ Speaks(w, u, n, Farewells) /\ u.on = w.on
           /\ u.lobby.members = w.lobby.members /\ u.lobby.owner = w.lobby.owner
           /\ u.lobby.data = IF IsCoordinator(w.s, n) /\ CanWrite(w, n)
                             THEN Without(w.s.roster, {n}) ELSE w.lobby.data
           /\ w.s.coord = n /\ ~Joined(w.s, n) => u = w
<1> DEFINE r == Without(w.s.roster, {n})
           t == [w EXCEPT !.s.roster = r]
           p == Publish(t, n)
           told == Send(p, n, ConnectedPeers(p, n), Leave)
           just == Send(w, n, ConnectedPeers(w, n), Leave)
           u == Announce(w, n)
<1>1. GoodRoster(r)
  BY WithoutKeepsApart DEF GoodView, GoodSession, GoodRoster
<1> HIDE DEF r
<1>2. /\ GoodView(t, n) /\ t.s.roster = r /\ t.lobby = w.lobby /\ t.on = w.on
      /\ t.conn = w.conn /\ t.chan = w.chan
  BY <1>1, SetRoster
<1>3. CanWrite(t, n) <=> CanWrite(w, n)
  <2> HIDE DEF t
  <2> QED BY <1>2 DEF CanWrite
<1>4. CASE IsCoordinator(w.s, n)
  <2>1. u = Send(p, n, ConnectedPeers(w, n), Leave)
    BY <1>4 DEF Announce, r
  <2> HIDE DEF t, u
  <2>2. /\ Speaks(t, p, n, {}) /\ p.on = t.on /\ p.conn = t.conn
        /\ p.lobby.members = t.lobby.members /\ p.lobby.owner = t.lobby.owner
        /\ p.lobby.data = IF CanWrite(t, n) THEN r ELSE t.lobby.data
    BY <1>2, PublishSpeaks
  <2>3. GoodView(p, n)
    BY <1>2, PublishIsGood
  <2> HIDE DEF p
  <2>4. ConnectedPeers(p, n) = ConnectedPeers(w, n)
    BY <1>2, <2>2 DEF ConnectedPeers
  <2>5. Speaks(p, told, n, Farewells) /\ told.lobby = p.lobby /\ told.on = p.on
    BY <2>3, SayGoodbye
  <2> HIDE DEF told
  <2>6. u = told
    BY <2>1, <2>4 DEF told
  <2>7. Speaks(w, t, n, {})
    BY <1>2, SpeaksNothing
  <2>8. Speaks(w, p, n, {})
    BY <2>2, <2>7, SpeaksOn
  <2>9. Speaks(w, told, n, Farewells)
    BY <2>5, <2>8, SpeaksOn
  <2> QED BY <1>2, <1>3, <1>4, <2>2, <2>5, <2>6, <2>9 DEF u, r, IsCoordinator
<1>5. CASE ~IsCoordinator(w.s, n) /\ w.s.coord # n /\ u = just
  <2>1. Speaks(w, just, n, Farewells) /\ just.lobby = w.lobby /\ just.on = w.on
    BY SayGoodbye
  <2> HIDE DEF just, u
  <2> QED BY <1>5, <2>1 DEF u
<1>6. CASE ~IsCoordinator(w.s, n) /\ u = w
  <2>1. Speaks(w, w, n, Farewells)
    BY SpeaksNothing
  <2> HIDE DEF u
  <2> QED BY <1>6, <2>1 DEF u
<1>7. ~IsCoordinator(w.s, n) => (w.s.coord # n /\ u = just) \/ u = w
  BY DEF Announce
<1> HIDE DEF u, just
<1> QED BY <1>4, <1>5, <1>6, <1>7 DEF u

-----------------------------------------------------------------------------
\* A session goes on.
LEMMA StayCore ==
  ASSUME Around, NEW n \in Node, turn \in {NoNode, n},
         NEW u, NEW news, Speaks(View(n), u, n, news),
         NEW as, KeepOpen(u, n, as), \A x \in Node \ {n} : saved'[x] = saved[x]
  PROVE  /\ Says(n, news) /\ OthersRest(n)
         /\ mode'[n] = as /\ session'[n] = u.s /\ lobby' = u.lobby
         /\ \A x \in Node \ {n} : mode'[x] = mode[x]
<1>1. conn' = u.conn /\ chan' = u.chan /\ lobby' = u.lobby
      /\ session' = [session EXCEPT ![n] = u.s] /\ mode' = [mode EXCEPT ![n] = as]
  BY DEF KeepOpen, Show
<1>2. session'[n] = u.s /\ mode'[n] = as
      /\ \A x \in Node \ {n} : mode'[x] = mode[x] /\ session'[x] = session[x]
  BY <1>1 DEF Around, IInv, ModeInv, SessionInv
<1>3. Says(n, news)
  BY <1>1, Spoken
<1>4. OthersRest(n)
  BY <1>2 DEF OthersRest, SameCore
<1> QED BY <1>1, <1>2, <1>3, <1>4

LEMMA StayerKeeps ==
  ASSUME Around, Running, IInv', NEW n \in Node, n \in Awake, turn \in {NoNode, n},
         UNCHANGED logged,
         NEW u, NEW news, Speaks(View(n), u, n, news), \A b \in Node : <<Leave, b>> \notin news,
         u.lobby.members = lobby.members, u.lobby.owner \in lobby.members,
         Members(u.s.roster) \subseteq u.s.trusted, u.s.known = session[n].known,
         \A x \in u.s.left : Lingers(x),
         NEW as \in {"online", "farewell"}, KeepOpen(u, n, as),
         \A x \in Node \ {n} : saved'[x] = saved[x],
         saved'[n] # Empty => saved'[n][n] # NoAddr, as = "farewell" => saved'[n] = Empty,
         Goes(n)
  PROVE  CalmInv'
<1>1. /\ Says(n, news) /\ OthersRest(n)
      /\ mode'[n] = as /\ session'[n] = u.s /\ lobby' = u.lobby
      /\ \A x \in Node \ {n} : mode'[x] = mode[x]
  BY StayCore
<1>2. mode[n] # "out"
  BY DEF Awake
<1>3. ~Lingers(n) /\ n \in lobby.members /\ lobby.members # {}
  BY <1>2, InLobby
<1>4. Tidy(n, news)
  <2>1. Places'
    <3>1. \A x \in Node : mode'[x] # "out" => mode[x] # "out"
      BY <1>1, <1>2
    <3>2. \A x \in Node : logged'[x]
            /\ mode'[x] \in {"out", "join", "rejoin", "goodbye", "online", "farewell"}
      BY <1>1 DEF Around, Places
    <3>3. \A x \in Node : mode'[x] # "out" => x \in lobby'.members
      BY <1>1, <3>1 DEF Around, Places
    <3>4. lobby'.members # {} /\ lobby'.owner \in lobby'.members
      BY <1>1, <1>3
    <3> QED BY <3>2, <3>3, <3>4 DEF Places
  <2>2. KeptBy(n)'
    <3>1. session[n].known # Empty => session[n].known[n] # NoAddr
      BY DEF Around, Kept, KeptBy
    <3> QED BY <1>1, <3>1 DEF KeptBy
  <2>3. n \in Awake'
    BY <1>1 DEF Awake
  <2> QED BY <1>1, <1>3, <2>1, <2>2, <2>3 DEF Tidy
<1>5. lobby'.members # {}
  BY <1>1, <1>3
<1> QED BY <1>1, <1>4, <1>5, StepKeeps

\* Who left, and is remembered for it, does not count on anything any more.
LEMMA LingerersDoNotCount ==
  ASSUME Around, NEW x \in Node, Lingers(x)
  PROVE  ~Counts(x)
<1>1. mode[x] = "out" /\ saved[x] = Empty
  BY DEF Around, StayGone
<1>2. IdlePC(x)
  BY <1>1 DEF Around, Idle, Awake
<1>3. Addresses(x) = {}
  BY <1>1, <1>2, EmptyMembers DEF IdlePC, Addresses
<1>4. \A m \in Node : ~Has(chan[m][x], Accepted(TRUE))
  BY <1>2, HasEmpty DEF IdlePC
<1> QED BY <1>2, <1>3, <1>4 DEF IdlePC, Counts

\* How a tick starts.
Started(n, w) ==
  /\ GoodView(w, n) /\ Speaks(View(n), w, n, {}) /\ w.lobby = lobby /\ w.on
  /\ w.s.coord = lobby.owner /\ w.s.known = session[n].known
  /\ w.s.left \subseteq session[n].left
  /\ Members(w.s.roster) \subseteq w.s.trusted
  /\ \/ w.s.roster = session[n].roster /\ w.s.trusted = session[n].trusted
     \/ w.s.roster = lobby.data
  /\ Joined(session[n], n) => Joined(w.s, n)
  /\ Joined(w.s, n) => w.s.roster[n] = lobby.data[n] /\ Counts(n)
  /\ w.s.trusted # {} => Counts(n)
  /\ lobby.owner = n /\ Joined(w.s, n) => Knows(w.s.roster)

LEMMA TickStart ==
  ASSUME Around, Running, NEW n \in Node, n \in Awake
  PROVE  Started(n, Sync(View(n), n))
<1> DEFINE w == Sync(View(n), n)
           s == session[n]
<1>1. mode[n] # "out"
  BY DEF Awake
<1>2. /\ GoodView(View(n), n) /\ View(n).on /\ View(n).lobby = lobby /\ View(n).s = s
      /\ n \in lobby.members /\ s \in Session /\ lobby \in Lobby
  BY <1>1, InLobby
<1>3. GoodView(w, n) /\ KeepsOwn(s, w.s, n)
  BY <1>2, SyncIsGood
<1>4. w.s = Follow(s, n, lobby) /\ Speaks(View(n), w, n, {}) /\ w.lobby = lobby /\ w.on
  BY <1>2, SyncCore
<1> HIDE DEF w
<1>5. Counts(n) => lobby.data[n] # NoAddr /\ Addresses(n) \subseteq {lobby.data[n]}
  BY DEF Running, Honoured
<1>6. s.known[n] # NoAddr => lobby.data # Empty
  BY <1>5, EmptyMembers DEF Counts, Addresses
<1>7. /\ w.s.coord = lobby.owner /\ w.s.known = s.known /\ w.s.left \subseteq s.left
      /\ \/ w.s.roster = s.roster /\ w.s.trusted = s.trusted
         \/ /\ w.s.roster = lobby.data /\ w.s.trusted = s.trusted \cup Members(lobby.data)
            /\ s.trusted # {}
  BY <1>2, <1>4, <1>6, FollowCore
<1>8. Members(s.roster) \subseteq s.trusted
  BY DEF Around, Kept, KeptBy
<1>9. Joined(s, n) => Joined(w.s, n)
  BY <1>3 DEF KeepsOwn, Joined
<1>10. Joined(s, n) => Counts(n) /\ s.roster[n] = lobby.data[n]
  BY <1>5 DEF Counts, Addresses, Joined
<1>11. s.trusted # {} => Counts(n)
  BY DEF Counts
<1>12. Joined(w.s, n) => w.s.roster[n] = lobby.data[n] /\ Counts(n)
  BY <1>7, <1>10, <1>11 DEF Joined
<1>13. ASSUME lobby.owner = n, Joined(w.s, n) PROVE Knows(w.s.roster)
  <2>1. CASE w.s.roster = lobby.data
    BY <2>1 DEF Knows
  <2>2. CASE w.s.roster = s.roster
    <3>1. n \in Active
      BY <1>13, <2>2 DEF Active, Joined
    <3>2. CASE Knows(s.roster)
      BY <2>2, <3>2
    <3>3. CASE InCharge(n)
      <4>1. s.roster = lobby.data
        BY <3>3 DEF Running, Charge, ChargePC
      <4> QED BY <2>2, <4>1 DEF Knows
    <3> QED BY <1>13, <3>1, <3>2, <3>3 DEF Running, Catch, CatchPC
  <2> QED BY <1>7, <2>1, <2>2
<1>14. Members(w.s.roster) \subseteq w.s.trusted
  BY <1>7, <1>8
<1> QED BY <1>3, <1>4, <1>7, <1>9, <1>11, <1>12, <1>13, <1>14 DEF Started, w

-----------------------------------------------------------------------------
\* The end of a tick of the PC that coordinates.
LEMMA CoordinatorStays ==
  ASSUME Around, Running, IInv', NEW n \in Node, n \in Awake, turn \in {NoNode, n},
         UNCHANGED logged, lobby.owner = n, Counts(n),
         NEW u, Speaks(View(n), u, n, {}),
         u.lobby.members = lobby.members, u.lobby.owner = n, u.s.roster = u.lobby.data,
         Joined(u.s, n), u.s.coord = n,
         \A x \in Node : Counts(x) => u.lobby.data[x] = lobby.data[x],
         Members(u.s.roster) \subseteq u.s.trusted, u.s.known = session[n].known,
         \A x \in u.s.left : Lingers(x),
         KeepOpen(u, n, "online"), saved' = [saved EXCEPT ![n] = u.s.roster]
  PROVE  CalmInv'
<1>1. saved'[n] = u.s.roster /\ \A x \in Node \ {n} : saved'[x] = saved[x]
  BY DEF Around, IInv, SavedInv
<1>2. /\ Says(n, {}) /\ OthersRest(n)
      /\ mode'[n] = "online" /\ session'[n] = u.s /\ lobby' = u.lobby
      /\ \A x \in Node \ {n} : mode'[x] = mode[x]
  BY <1>1, StayCore
<1>3. lobby.owner \in lobby.members
  BY DEF Around, Places, Running
<1>4. u.s.roster[n] = lobby.data[n] /\ lobby.data[n] # NoAddr
      /\ Addresses(n) \subseteq {lobby.data[n]}
  BY DEF Running, Honoured
<1>5. u.s.roster # Empty
  BY <1>4, EmptyMembers
<1>6. n \in Awake' /\ n \in Active' /\ InCharge(n)'
  BY <1>2 DEF Awake, Active, InCharge
<1>7. Goes(n)
  <2>1. \A x \in Node \ {n} : Counts(x)' => Counts(x)
    BY <1>2, OthersCountNoMore
  <2>2. Addresses(n)' \subseteq {lobby'.data[n]}
    BY <1>1, <1>2, <1>4 DEF Addresses
  <2>3. SinglePC(n)'
    BY <1>2, <1>6 DEF SinglePC, Alone, Active
  <2>4. NotedPC(n)' /\ ChargePC(n)'
    BY <1>1, <1>2, <1>5 DEF NotedPC, ChargePC
  <2> QED BY <1>2, <1>4, <1>6, <2>1, <2>2, <2>3, <2>4 DEF Goes
<1>8. \A b \in Node : <<Leave, b>> \notin {}
  OBVIOUS
<1>9. saved'[n] # Empty => saved'[n][n] # NoAddr
  BY <1>1, <1>4
<1> QED BY <1>1, <1>3, <1>7, <1>8, <1>9, StayerKeeps

\* A tick of the coordinator: its roster, the newcomers, its farewell.
LEMMA CoordinatorTickCalm ==
  ASSUME Around, Running, IInv', NEW n \in Node, CoordinatorTick(n)
  PROVE  CalmInv'
<1> DEFINE w == Sync(View(n), n)
<1>1. PICK silent : /\ Ticks(n) /\ IsCoordinator(w.s, n)
                    /\ EndTick(Coordinate(w, n, silent), n, FALSE)
  BY DEF CoordinatorTick
<1>2. n \in Awake /\ turn \in {NoNode, n}
  BY <1>1 DEF Ticks, Awake
<1>3. Started(n, w)
  BY <1>2, TickStart
<1> DEFINE u == Coordinate(w, n, silent)
<1>4. /\ IF mode[n] = "online" THEN CheckNetwork(u, n)
         ELSE Farewell(u, n, FALSE) /\ UNCHANGED saved
      /\ UNCHANGED logged
  BY <1>1 DEF EndTick
<1> HIDE DEF w
<1>5. /\ GoodView(w, n) /\ w.on /\ w.lobby = lobby /\ lobby.owner = n /\ w.s.coord = n
      /\ n \in lobby.members /\ Counts(n) /\ Joined(w.s, n) /\ Knows(w.s.roster)
  BY <1>1, <1>2, <1>3, InLobby DEF Started, IsCoordinator, Awake
<1>6. CanWrite(w, n)
  BY <1>5 DEF CanWrite
<1>7. /\ Speaks(w, u, n, {}) /\ u.on = w.on
      /\ u.lobby.members = w.lobby.members /\ u.lobby.owner = w.lobby.owner
      /\ u.lobby.data = Without(w.s.roster, w.s.left \ {n})
      /\ u.s.roster = u.lobby.data
      /\ u.s.coord = w.s.coord /\ u.s.known = w.s.known
      /\ u.s.trusted = w.s.trusted /\ u.s.left = w.s.left
  <2>1. GoodView(w, n) /\ CanWrite(w, n)
    BY <1>5, <1>6
  <2>2. Coordinates(w, u, n)
    BY <2>1, CoordinateSpeaks
  <2> HIDE DEF u
  <2> QED BY <2>2 DEF Coordinates
<1>8. GoodView(u, n)
  BY <1>5, CoordinateIsGood
<1> HIDE DEF u
<1>9. Speaks(View(n), u, n, {})
  BY <1>3, <1>7, SpeaksOn DEF Started
<1>10. \A x \in w.s.left : x \in Node /\ Lingers(x) /\ ~Counts(x)
  <2>1. w.s.left \subseteq session[n].left /\ session[n].left \subseteq Node
    BY <1>3 DEF Started, Around, IInv, SessionInv, Session
  <2> QED BY <2>1, LingerersDoNotCount DEF Lingers
<1>11. /\ Members(u.s.roster) = Members(w.s.roster) \ (w.s.left \ {n})
       /\ \A x \in Node \ (w.s.left \ {n}) : u.lobby.data[x] = w.s.roster[x]
  BY <1>5, <1>7, WithoutKeepsApart DEF GoodView, GoodSession, GoodRoster
<1>12. \A x \in Node : Counts(x) => u.lobby.data[x] = lobby.data[x]
  BY <1>5, <1>10, <1>11 DEF Knows
<1>13. Joined(u.s, n)
  BY <1>5, <1>7, <1>11 DEF Joined
<1>14. CASE mode[n] = "online"
  <2>1. KeepOpen(u, n, "online") /\ saved' = [saved EXCEPT ![n] = u.s.roster]
    BY <1>4, <1>13, <1>14 DEF CheckNetwork
  <2>2. Members(u.s.roster) \subseteq u.s.trusted /\ u.s.known = session[n].known
    BY <1>3, <1>7, <1>11 DEF Started
  <2>3. u.lobby.members = lobby.members /\ u.lobby.owner = n /\ u.s.roster = u.lobby.data
        /\ u.s.coord = n /\ \A x \in u.s.left : Lingers(x)
    BY <1>5, <1>7, <1>10
  <2>4. UNCHANGED logged /\ lobby.owner = n /\ Counts(n)
    BY <1>4, <1>5
  <2> QED BY <1>2, <1>9, <1>12, <1>13, <2>1, <2>2, <2>3, <2>4, CoordinatorStays
<1>15. CASE mode[n] # "online"
  <2> DEFINE a == Announce(u, n)
  <2>1. mode[n] = "farewell" /\ saved[n] = Empty
    BY <1>2, <1>15 DEF Awake, Around, Kept, KeptBy
  <2>2. CloseNetwork(a, n, TRUE) /\ saved' = saved
    BY <1>4, <1>5, <1>7, <1>15 DEF Farewell, Told
  <2>3. /\ Speaks(u, a, n, Farewells) /\ a.on = u.on
        /\ a.lobby.members = u.lobby.members /\ a.lobby.owner = u.lobby.owner
        /\ a.lobby.data = IF IsCoordinator(u.s, n) /\ CanWrite(u, n)
                          THEN Without(u.s.roster, {n}) ELSE u.lobby.data
    BY <1>8, AnnounceSpeaks
  <2>4. GoodView(a, n)
    BY <1>8, AnnounceIsGood
  <2> HIDE DEF a
  <2>5. Speaks(View(n), a, n, Farewells)
    BY <1>9, <2>3, SpeaksOn
  <2>6. \A x \in Node \ {n} : a.lobby.data[x] = u.lobby.data[x]
    BY <1>7, <2>3 DEF Without
  <2>7. \A x \in Node \ {n} : Counts(x) => a.lobby.data[x] = lobby.data[x]
    BY <1>12, <2>6
  <2>8. InCharge(n) => \A m \in Active \ {n} : Knows(session[m].roster)
    BY <2>1 DEF Running, Bye, ByePC
  <2>9. a.on /\ a.lobby.members = lobby.members /\ a.lobby.owner \in lobby.members
    BY <1>5, <1>7, <2>3
  <2>10. saved'[n] = Empty /\ \A x \in Node \ {n} : saved'[x] = saved[x]
    BY <2>1, <2>2
  <2> QED BY <1>2, <1>4, <1>5, <2>2, <2>4, <2>5, <2>7, <2>8, <2>9, <2>10, FarewellsAreLeave,
             LeaverKeeps
<1> QED BY <1>14, <1>15

-----------------------------------------------------------------------------
\* The end of a tick of a PC that does not coordinate.
LEMMA MemberStays ==
  ASSUME Around, Running, IInv', NEW n \in Node, n \in Awake, turn \in {NoNode, n},
         UNCHANGED logged, ~InCharge(n),
         NEW w, Started(n, w), NEW u, Speaks(w, u, n, {}), SameCore(w.s, u.s),
         ~IsCoordinator(w.s, n),
         u.lobby.members = lobby.members, u.lobby.data = lobby.data,
         u.lobby.owner \in lobby.members, lobby.owner = n \/ u.lobby.owner = lobby.owner,
         KeepOpen(u, n, mode[n]), \A x \in Node \ {n} : saved'[x] = saved[x],
         saved'[n] = IF mode[n] = "online" /\ Joined(u.s, n) THEN u.s.roster ELSE saved[n]
  PROVE  CalmInv'
<1>1. Speaks(View(n), w, n, {})
  BY DEF Started
<1>2. Speaks(View(n), u, n, {})
  BY <1>1, SpeaksOn
<1>3. /\ Says(n, {}) /\ OthersRest(n)
      /\ mode'[n] = mode[n] /\ session'[n] = u.s /\ lobby' = u.lobby
  BY <1>2, StayCore
<1>4. /\ u.s.coord = lobby.owner /\ u.s.known = session[n].known
      /\ u.s.left \subseteq session[n].left /\ Members(u.s.roster) \subseteq u.s.trusted
      /\ \/ u.s.roster = session[n].roster /\ u.s.trusted = session[n].trusted
         \/ u.s.roster = lobby.data
      /\ Joined(session[n], n) => Joined(u.s, n)
      /\ Joined(u.s, n) => u.s.roster[n] = lobby.data[n] /\ Counts(n)
      /\ u.s.trusted # {} => Counts(n)
      /\ ~IsCoordinator(u.s, n)
  BY DEF Started, SameCore, Joined, IsCoordinator
<1>5. n \in Awake' /\ (n \in Active' <=> Joined(u.s, n)) /\ ~InCharge(n)'
  BY <1>3, <1>4 DEF Awake, Active, InCharge, IsCoordinator
<1>6. KeptBy(n) /\ SinglePC(n) /\ NotedPC(n)
  BY DEF Around, Kept, Running, Singles, Noted
<1>7. Counts(n) => lobby.data[n] # NoAddr /\ Addresses(n) \subseteq {lobby.data[n]}
  BY DEF Running, Honoured
<1>8. Addresses(n)' \subseteq Addresses(n) \cup ({u.s.roster[n]} \ {NoAddr})
  BY <1>3, <1>4 DEF Addresses
<1>9. Counts(n)' => Counts(n)
  <2> SUFFICES ASSUME Counts(n)', ~Counts(n) PROVE FALSE
    OBVIOUS
  <2>1. ~Joined(u.s, n) /\ u.s.trusted = {} /\ Addresses(n) = {}
    BY <1>4 DEF Counts
  <2>2. Addresses(n)' = {}
    BY <1>8, <2>1 DEF Joined
  <2>3. \E m \in Node : Has(chan'[m][n], Accepted(TRUE))
    BY <1>3, <2>1, <2>2 DEF Counts
  <2>4. \E m \in Node : Has(chan[m][n], Accepted(TRUE))
    BY <1>3, <2>3 DEF Says, Word
  <2> QED BY <2>4 DEF Counts
<1>10. Counts(n)' => Addresses(n)' \subseteq {lobby'.data[n]}
  BY <1>3, <1>4, <1>7, <1>8, <1>9 DEF Joined
<1>11. SinglePC(n)'
  <2>1. n \in Active' => Alone(n, u.s.roster)
    <3>1. CASE u.s.roster = lobby.data
      BY <3>1 DEF Alone
    <3>2. CASE u.s.roster = session[n].roster
      BY <1>5, <1>6, <3>2 DEF SinglePC, Active, Joined
    <3> QED BY <1>4, <3>1, <3>2
  <2>2. mode'[n] = "online" /\ ~Joined(u.s, n) => Members(saved'[n]) # {n}
    BY <1>3, <1>4, <1>6 DEF SinglePC
  <2>3. mode'[n] \notin {"out", "rejoin", "goodbye"}
    BY <1>3 DEF Awake
  <2> QED BY <1>3, <2>1, <2>2, <2>3 DEF SinglePC, Alone
<1>12. NotedPC(n)' /\ ChargePC(n)'
  <2>1. Joined(u.s, n) => u.s.roster # Empty
    BY EmptyMembers DEF Joined
  <2> QED BY <1>3, <1>5, <2>1 DEF NotedPC, ChargePC
<1>13. n \in Active' =>
       \/ session'[n].roster = lobby'.data
       \/ /\ n \in Active /\ session'[n].roster = session[n].roster
          /\ lobby'.data = lobby.data /\ session[n].trusted \subseteq session'[n].trusted
          /\ ~InCharge(n)'
  BY <1>3, <1>4, <1>5 DEF Active, Joined
<1>14. Goes(n)
  <2>1. \A x \in Node \ {n} : Counts(x)' => Counts(x)
    BY <1>3, OthersCountNoMore
  <2> QED BY <1>3, <1>5, <1>9, <1>10, <1>11, <1>12, <1>13, <2>1 DEF Goes
<1>15. /\ saved'[n] # Empty => saved'[n][n] # NoAddr
       /\ mode[n] = "farewell" => saved'[n] = Empty
  BY <1>6 DEF KeptBy, Joined
<1>16. mode[n] \in {"online", "farewell"} /\ (\A b \in Node : <<Leave, b>> \notin {})
       /\ \A x \in u.s.left : Lingers(x)
  BY <1>4 DEF Awake, Lingers
<1>17. u.s.known = session[n].known /\ Members(u.s.roster) \subseteq u.s.trusted
  BY <1>4
<1> QED BY <1>2, <1>14, <1>15, <1>16, <1>17, StayerKeeps

\* A session of a PC that does not coordinate ends in a tick.
LEMMA MemberCloses ==
  ASSUME Around, Running, IInv', NEW n \in Node, n \in Awake, turn \in {NoNode, n},
         UNCHANGED logged, ~InCharge(n),
         NEW u, GoodView(u, n), u.on,
         u.lobby.members = lobby.members, u.lobby.data = lobby.data,
         u.lobby.owner \in lobby.members, lobby.owner = n \/ u.lobby.owner = lobby.owner,
         NEW news, Speaks(View(n), u, n, news), \A x \in Node : <<Accepted(TRUE), x>> \notin news,
         NEW linger, CloseNetwork(u, n, linger),
         mode[n] = "online" => ~Joined(session[n], n) /\ news = {},
         \A x \in Node \ {n} : saved'[x] = saved[x], saved'[n] \in {saved[n], Empty}
  PROVE  CalmInv'
<1>1. KeptBy(n) /\ SinglePC(n)
  BY DEF Around, Kept, Running, Singles
<1>2. CASE saved'[n] = Empty
  BY <1>2, LeaverKeeps
<1>3. CASE saved'[n] # Empty
  <2>1. saved'[n] = saved[n] /\ saved[n][n] # NoAddr /\ mode[n] = "online"
    BY <1>1, <1>3 DEF KeptBy, Awake
  <2>2. Alone(n, saved'[n]) /\ news = {} /\ saved'[n][n] \in Addresses(n)
    BY <1>1, <2>1 DEF SinglePC, Alone, Addresses
  <2> QED BY <2>2, LeaverKeeps
<1> QED BY <1>2, <1>3

\* A tick of a PC that does not coordinate, once its work is done.
LEMMA MemberEnds ==
  ASSUME Around, Running, IInv', NEW n \in Node, n \in Awake, turn \in {NoNode, n}, ~InCharge(n),
         NEW w, Started(n, w), NEW u, GoodView(u, n), Speaks(w, u, n, {}), SameCore(w.s, u.s),
         ~IsCoordinator(w.s, n), u.on,
         u.lobby.members = lobby.members, u.lobby.data = lobby.data,
         u.lobby.owner \in lobby.members, lobby.owner = n \/ u.lobby.owner = lobby.owner,
         NEW late, EndTick(u, n, late)
  PROVE  CalmInv'
<1>1. /\ IF mode[n] = "online" THEN CheckNetwork(u, n)
         ELSE Farewell(u, n, late) /\ UNCHANGED saved
      /\ UNCHANGED logged
  BY DEF EndTick
<1>2. Speaks(View(n), w, n, {}) /\ (Joined(session[n], n) => Joined(u.s, n))
      /\ ~IsCoordinator(u.s, n)
  BY DEF Started, SameCore, Joined, IsCoordinator
<1>3. Speaks(View(n), u, n, {})
  BY <1>2, SpeaksOn
<1>4. n \in lobby.members /\ mode[n] \in {"online", "farewell"}
  BY InLobby DEF Awake
<1>5. CASE mode[n] = "online" /\ Joined(u.s, n)
  <2>1. KeepOpen(u, n, mode[n]) /\ saved' = [saved EXCEPT ![n] = u.s.roster]
    BY <1>1, <1>5 DEF CheckNetwork
  <2>2. saved'[n] = u.s.roster /\ \A x \in Node \ {n} : saved'[x] = saved[x]
    BY <2>1 DEF Around, IInv, SavedInv
  <2> QED BY <1>1, <1>5, <2>1, <2>2, MemberStays
<1>6. CASE mode[n] = "online" /\ ~Joined(u.s, n)
  <2>1. CASE u.s.refused = ""
    <3>1. KeepOpen(u, n, mode[n]) /\ saved' = saved
      BY <1>1, <1>6, <2>1 DEF CheckNetwork
    <3>2. saved'[n] = IF mode[n] = "online" /\ Joined(u.s, n) THEN u.s.roster ELSE saved[n]
      BY <1>6, <3>1
    <3>3. \A x \in Node \ {n} : saved'[x] = saved[x]
      BY <3>1
    <3> QED BY <1>1, <3>1, <3>2, <3>3, MemberStays
  <2>2. CASE u.s.refused # ""
    <3> DEFINE nothing == {}
    <3>1. CloseNetwork(u, n, FALSE)
          /\ saved' = IF u.s.refused = "denied" THEN [saved EXCEPT ![n] = Empty] ELSE saved
      BY <1>1, <1>6, <2>2 DEF CheckNetwork
    <3>2. saved'[n] \in {saved[n], Empty} /\ \A x \in Node \ {n} : saved'[x] = saved[x]
      BY <3>1 DEF Around, IInv, SavedInv
    <3>3. /\ Speaks(View(n), u, n, nothing) /\ \A x \in Node : <<Accepted(TRUE), x>> \notin nothing
          /\ ~Joined(session[n], n) /\ nothing = {}
      BY <1>2, <1>3, <1>6
    <3> HIDE DEF nothing
    <3> QED BY <1>1, <3>1, <3>2, <3>3, MemberCloses
  <2> QED BY <2>1, <2>2
<1>7. CASE mode[n] = "farewell"
  <2>1. saved' = saved
    BY <1>1, <1>7
  <2>2. CASE KeepOpen(u, n, "farewell")
    <3>1. saved'[n] = IF mode[n] = "online" /\ Joined(u.s, n) THEN u.s.roster ELSE saved[n]
      BY <1>7, <2>1
    <3>2. KeepOpen(u, n, mode[n]) /\ \A x \in Node \ {n} : saved'[x] = saved[x]
      BY <1>7, <2>1, <2>2
    <3> QED BY <1>1, <3>1, <3>2, MemberStays
  <2>3. CASE CloseNetwork(Announce(u, n), n, TRUE)
    <3> DEFINE a == Announce(u, n)
    <3>1. /\ Speaks(u, a, n, Farewells) /\ a.on = u.on
          /\ a.lobby.members = u.lobby.members /\ a.lobby.owner = u.lobby.owner
          /\ a.lobby.data = IF IsCoordinator(u.s, n) /\ CanWrite(u, n)
                            THEN Without(u.s.roster, {n}) ELSE u.lobby.data
      BY AnnounceSpeaks
    <3>2. GoodView(a, n)
      BY AnnounceIsGood
    <3>3. CloseNetwork(a, n, TRUE)
      BY <2>3
    <3> HIDE DEF a
    <3>4. Speaks(View(n), a, n, Farewells)
      BY <1>3, <3>1, SpeaksOn
    <3>5. /\ a.on /\ a.lobby.members = lobby.members /\ a.lobby.data = lobby.data
          /\ a.lobby.owner \in lobby.members /\ (lobby.owner = n \/ a.lobby.owner = lobby.owner)
      BY <1>2, <3>1
    <3>6. saved'[n] \in {saved[n], Empty} /\ \A x \in Node \ {n} : saved'[x] = saved[x]
      BY <2>1
    <3>7. mode[n] # "online"
      BY <1>7
    <3> QED BY <1>1, <3>2, <3>3, <3>4, <3>5, <3>6, <3>7, FarewellsAreLeave, MemberCloses
  <2> QED BY <1>1, <1>7, <2>2, <2>3 DEF Farewell
<1> QED BY <1>4, <1>5, <1>6, <1>7

\* A tick of an owner that is no member: it hands the lobby on.
LEMMA HandOffTickCalm ==
  ASSUME Around, Running, IInv', NEW n \in Node, HandOffTick(n)
  PROVE  CalmInv'
<1> DEFINE w == Sync(View(n), n)
           u == HandOff(w, n)
<1>1. /\ Ticks(n) /\ w.s.coord = n /\ ~Joined(w.s, n)
      /\ EndTick(u, n, FALSE)
  BY DEF HandOffTick
<1>2. n \in Awake /\ turn \in {NoNode, n}
  BY <1>1 DEF Ticks, Awake
<1>3. Started(n, w)
  BY <1>2, TickStart
<1> HIDE DEF w
<1>4. GoodView(w, n) /\ w.on /\ w.lobby = lobby /\ (Joined(session[n], n) => Joined(w.s, n))
  BY <1>3 DEF Started
<1>5. GoodView(u, n)
  BY <1>4, HandOffIsGood
<1>6. /\ Speaks(w, u, n, {}) /\ SameCore(w.s, u.s) /\ u.on = w.on
      /\ u.lobby.members = w.lobby.members /\ u.lobby.data = w.lobby.data
      /\ \/ u.lobby.owner = w.lobby.owner
         \/ w.lobby.owner = n /\ u.lobby.owner \in w.lobby.members
  BY <1>4, HandOffSpeaks
<1> HIDE DEF u
<1>7. ~IsCoordinator(w.s, n) /\ ~InCharge(n)
  BY <1>1, <1>4 DEF IsCoordinator, InCharge, Active
<1>8. lobby.owner \in lobby.members
  BY DEF Around, Places, Running
<1>9. /\ u.on /\ u.lobby.members = lobby.members /\ u.lobby.data = lobby.data
      /\ u.lobby.owner \in lobby.members /\ (lobby.owner = n \/ u.lobby.owner = lobby.owner)
  BY <1>4, <1>6, <1>8
<1> QED BY <1>1, <1>2, <1>3, <1>5, <1>6, <1>7, <1>9, MemberEnds

\* A tick of anybody else.
LEMMA MemberTickCalm ==
  ASSUME Around, Running, IInv', NEW n \in Node, NEW late, MemberTick(n, late)
  PROVE  CalmInv'
<1> DEFINE w == Sync(View(n), n)
           u == MemberChecks(w, n, late)
<1>1. /\ Ticks(n) /\ w.s.coord # n
      /\ EndTick(u, n, late)
  BY DEF MemberTick
<1>2. n \in Awake /\ turn \in {NoNode, n}
  BY <1>1 DEF Ticks, Awake
<1>3. Started(n, w)
  BY <1>2, TickStart
<1> HIDE DEF w
<1>4. GoodView(w, n) /\ w.on /\ w.lobby = lobby /\ lobby.owner # n
  BY <1>1, <1>3 DEF Started
<1>5. GoodView(u, n)
  BY <1>4, MemberChecksIsGood
<1>6. /\ Speaks(w, u, n, {}) /\ SameCore(w.s, u.s)
      /\ u.lobby = w.lobby /\ u.on = w.on
  BY <1>4, MemberChecksSpeaks
<1> HIDE DEF u
<1>7. ~IsCoordinator(w.s, n) /\ ~InCharge(n)
  BY <1>1, <1>4 DEF IsCoordinator, Running, Charge, ChargePC
<1>8. lobby.owner \in lobby.members
  BY DEF Around, Places, Running
<1>9. /\ u.on /\ u.lobby.members = lobby.members /\ u.lobby.data = lobby.data
      /\ u.lobby.owner \in lobby.members /\ (lobby.owner = n \/ u.lobby.owner = lobby.owner)
  BY <1>4, <1>6, <1>8
<1> QED BY <1>1, <1>2, <1>3, <1>5, <1>6, <1>7, <1>9, MemberEnds

-----------------------------------------------------------------------------
\* When the coordinator leaves, the others know all it knows.
LEMMA OthersKnow ==
  ASSUME Around, Running, NEW n \in Node, InCharge(n), \A m \in Node \ {n} : InStep(m)
  PROVE  \A m \in Active \ {n} : Knows(session[m].roster)
<1> SUFFICES ASSUME NEW m \in Active \ {n}, ~Knows(session[m].roster) PROVE FALSE
  OBVIOUS
<1>1. m \in Node \ {n} /\ mode[m] \in {"online", "farewell"} /\ Joined(session[m], m)
  BY DEF Active, Awake
<1>2. lobby.owner = n /\ n \in session[m].trusted
  BY DEF Running, Catch, CatchPC, Charge, ChargePC
<1>3. /\ View(m).on /\ View(m).lobby = lobby /\ View(m).s = session[m]
      /\ GoodView(View(m), m) /\ m \in lobby.members /\ session[m] \in Session /\ lobby \in Lobby
  BY <1>1, InLobby
<1>4. Sync(View(m), m) = View(m)
  BY <1>1 DEF InStep
<1>5. Follow(session[m], m, lobby) = session[m]
  <2>1. Sync(View(m), m).s = Follow(View(m).s, m, View(m).lobby)
    BY <1>1, <1>3, SyncCore
  <2> QED BY <1>3, <1>4, <2>1
<1>6. Counts(m) /\ session[m].roster[m] \in Addresses(m)
  BY <1>1 DEF Joined, Counts, Addresses
<1>7. lobby.data[m] = session[m].roster[m] /\ lobby.data # Empty
  <2>1. lobby.data[m] # NoAddr /\ lobby.data[m] = session[m].roster[m]
    BY <1>1, <1>6 DEF Running, Honoured
  <2> QED BY <1>1, <2>1, EmptyMembers
<1>8. WellFormed(lobby.data)
  BY DEF Around, IInv, SharedInv, GoodLobby, GoodRoster
<1>9. session[m].roster = lobby.data
  BY <1>1, <1>2, <1>3, <1>5, <1>7, <1>8, FollowedAll
<1> QED BY <1>9 DEF Knows

\* A step that takes the lobby away from its owner, or ends the network.
LEMMA InTime ==
  ASSUME Around, Running, NEW n \in Node, Timely(n), Prompt, turn = NoNode,
         InCharge(n), n \notin lobby'.members,
         lobby'.members # {} => lobby'.owner \in lobby'.members, lobby'.members # {}
  PROVE  \A m \in Active \ {n} : Knows(session[m].roster)
<1>1. lobby.owner = n
  BY DEF Running, Charge, ChargePC
<1>2. <<lobby.owner, lobby.data>>' # <<lobby.owner, lobby.data>>
  BY <1>1
<1>3. \A m \in Node \ {n} : InStep(m)
  BY <1>2 DEF Timely
<1> QED BY <1>3, OthersKnow

LEMMA ClosedInTime ==
  ASSUME Around, Running, NEW n \in Node, Timely(n), Prompt, turn = NoNode, InCharge(n),
         NEW u, GoodView(u, n), NEW news, Speaks(View(n), u, n, news),
         u.on, n \in u.lobby.members, u.lobby.owner \in u.lobby.members,
         NEW linger, CloseNetwork(u, n, linger), lobby'.members # {}
  PROVE  \A m \in Active \ {n} : Knows(session[m].roster)
<1>1. \/ u.lobby.members = {n} /\ lobby' = GoneLobby
      \/ /\ lobby'.members = u.lobby.members \ {n} /\ lobby'.members # {}
         /\ lobby'.data = u.lobby.data
         /\ lobby'.owner \in lobby'.members
         /\ u.lobby.owner = n \/ lobby'.owner = u.lobby.owner
  BY CloseCore
<1>2. lobby'.members = u.lobby.members \ {n} /\ lobby'.owner \in lobby'.members
  BY <1>1 DEF GoneLobby
<1> QED BY <1>2, InTime

\* The view a PC has outside a tick is its session's.
LEMMA ViewSpeaks ==
  ASSUME NEW n \in Node, NEW news
  PROVE  Speaks(View(n), View(n), n, news)
BY SpeaksNothing

\* A user goes offline, or the app is shut down.
LEMMA GoOfflineCalm ==
  ASSUME Around, Running, IInv', NEW n \in Node, GoOffline(n), Timely(n), Prompt
  PROVE  CalmInv'
<1>1. CASE mode[n] \notin Live
  BY <1>1, AbandonCalm
<1>2. CASE mode[n] \in Live
  <2> DEFINE u == View(n)
             nothing == {}
  <2>1. /\ turn = NoNode /\ CloseNetwork(u, n, FALSE) /\ UNCHANGED logged
        /\ saved' = IF Joined(session[n], n) /\ mode[n] # "farewell"
                    THEN [saved EXCEPT ![n] = session[n].roster] ELSE saved
    BY <1>2 DEF GoOffline, GoOut
  <2>2. n \in Awake /\ mode[n] # "out" /\ mode[n] \in {"online", "farewell"}
    BY <1>2 DEF Live, Around, Places, Awake
  <2>3. /\ GoodView(u, n) /\ u.on /\ u.lobby = lobby /\ n \in lobby.members
        /\ lobby.owner \in lobby.members
    BY <2>2, InLobby
  <2>4. Speaks(View(n), u, n, nothing) /\ nothing = {}
        /\ \A x \in Node : <<Accepted(TRUE), x>> \notin nothing
    BY ViewSpeaks
  <2> HIDE DEF u, nothing
  <2>5. InCharge(n) /\ lobby'.members # {} => \A m \in Active \ {n} : Knows(session[m].roster)
    BY <2>1, <2>3, <2>4, ClosedInTime
  <2>6. \A x \in Node \ {n} : saved'[x] = saved[x]
    BY <2>1 DEF Around, IInv, SavedInv
  <2>7. KeptBy(n) /\ SinglePC(n)
    BY DEF Around, Kept, Running, Singles
  <2>8. \/ saved'[n] = Empty
        \/ Alone(n, saved'[n]) /\ saved'[n][n] \in Addresses(n)
    <3>1. CASE Joined(session[n], n) /\ mode[n] # "farewell"
      <4>1. saved'[n] = session[n].roster
        BY <2>1, <3>1 DEF Around, IInv, SavedInv
      <4>2. n \in Active
        BY <2>2, <3>1 DEF Active
      <4> QED BY <2>7, <3>1, <4>1, <4>2 DEF SinglePC, Addresses, Joined
    <3>2. CASE ~(Joined(session[n], n) /\ mode[n] # "farewell")
      <4>1. saved'[n] = saved[n]
        BY <2>1, <3>2
      <4>2. CASE mode[n] = "farewell"
        BY <2>7, <4>1, <4>2 DEF KeptBy
      <4>3. CASE mode[n] = "online" /\ saved[n] # Empty
        <5>1. Alone(n, saved[n])
          BY <2>7, <3>2, <4>3 DEF SinglePC, Alone
        <5>2. saved[n][n] \in Addresses(n)
          BY <2>7, <4>3 DEF KeptBy, Addresses
        <5> QED BY <4>1, <5>1, <5>2
      <4> QED BY <2>2, <4>1, <4>2, <4>3
    <3> QED BY <3>1, <3>2
  <2>9. u.lobby.members = lobby.members /\ u.lobby.owner \in lobby.members
        /\ u.lobby.owner = lobby.owner /\ u.lobby.data = lobby.data
    BY <2>3
  <2>10. turn \in {NoNode, n} /\ UNCHANGED logged
    BY <2>1
  <2> QED BY <2>1, <2>2, <2>3, <2>4, <2>5, <2>6, <2>8, <2>9, <2>10, LeaverKeeps
<1> QED BY <1>1, <1>2

\* A user leaves the network while online.
LEMMA LeaveOnlineCalm ==
  ASSUME Around, Running, IInv', NEW n \in Node, LeaveOnline(n), Timely(n), Prompt
  PROVE  CalmInv'
<1> DEFINE w == View(n)
           a == Announce(w, n)
<1>1. /\ turn = NoNode /\ mode[n] = "online" /\ Farewell(w, n, FALSE) /\ UNCHANGED logged
      /\ saved' = [saved EXCEPT ![n] = Empty]
  BY DEF LeaveOnline
<1>2. saved'[n] = Empty /\ \A x \in Node \ {n} : saved'[x] = saved[x]
  BY <1>1 DEF Around, IInv, SavedInv
<1>3. n \in Awake
  BY <1>1 DEF Awake
<1>4. /\ GoodView(w, n) /\ w.on /\ w.lobby = lobby /\ w.s = session[n]
      /\ n \in lobby.members /\ lobby.owner \in lobby.members
  BY <1>1, InLobby
<1>5. Speaks(View(n), w, n, {})
  BY ViewSpeaks
<1>6. CASE Told(w, n)
  <2>1. CloseNetwork(a, n, TRUE)
    BY <1>1, <1>6 DEF Farewell
  <2>2. /\ Speaks(w, a, n, Farewells) /\ a.on = w.on
        /\ a.lobby.members = w.lobby.members /\ a.lobby.owner = w.lobby.owner
        /\ a.lobby.data = IF IsCoordinator(w.s, n) /\ CanWrite(w, n)
                          THEN Without(w.s.roster, {n}) ELSE w.lobby.data
    BY <1>4, AnnounceSpeaks
  <2>3. GoodView(a, n)
    BY <1>4, AnnounceIsGood
  <2>4. Speaks(View(n), a, n, Farewells)
    BY <2>2
  <2> HIDE DEF a, w
  <2>5. a.on /\ a.lobby.members = lobby.members /\ a.lobby.owner = lobby.owner
    BY <1>4, <2>2
  <2>6. \/ a.lobby.data = lobby.data
        \/ lobby.owner = n /\ Counts(n)
             /\ \A x \in Node \ {n} : Counts(x) => a.lobby.data[x] = lobby.data[x]
    <3> SUFFICES ASSUME a.lobby.data # lobby.data
                 PROVE  lobby.owner = n /\ Counts(n)
                          /\ \A x \in Node \ {n} : a.lobby.data[x] = lobby.data[x]
      OBVIOUS
    <3>1. IsCoordinator(session[n], n) /\ a.lobby.data = Without(session[n].roster, {n})
      BY <1>4, <2>2
    <3>2. InCharge(n)
      BY <1>3, <3>1 DEF IsCoordinator, InCharge, Active
    <3>3. lobby.owner = n /\ session[n].roster = lobby.data
      BY <3>2 DEF Running, Charge, ChargePC
    <3>4. Counts(n)
      BY <3>1 DEF IsCoordinator, Joined, Counts, Addresses
    <3> QED BY <3>1, <3>3, <3>4 DEF Without
  <2>7. InCharge(n) /\ lobby'.members # {} => \A m \in Active \ {n} : Knows(session[m].roster)
    BY <1>1, <1>4, <2>1, <2>3, <2>4, <2>5, ClosedInTime
  <2>8. turn \in {NoNode, n} /\ UNCHANGED logged
    BY <1>1
  <2> QED BY <1>2, <1>3, <1>4, <2>1, <2>3, <2>4, <2>5, <2>6, <2>7, <2>8, FarewellsAreLeave,
             LeaverKeeps
<1>7. CASE ~Told(w, n)
  <2>1. KeepOpen(w, n, "farewell")
    BY <1>1, <1>7 DEF Farewell
  <2>2. session[n].coord # n
    BY <1>4, <1>7 DEF Told
  <2> HIDE DEF w
  <2>3. /\ Says(n, {}) /\ OthersRest(n)
        /\ mode'[n] = "farewell" /\ session'[n] = session[n] /\ lobby' = lobby
    BY <1>1, <1>2, <1>4, <1>5, <2>1, StayCore
  <2>4. ~InCharge(n) /\ ~InCharge(n)' /\ (n \in Active' <=> n \in Active)
    BY <1>3, <2>2, <2>3 DEF InCharge, Active, Awake
  <2>5. KeptBy(n) /\ SinglePC(n)
    BY DEF Around, Kept, Running, Singles
  <2>6. Addresses(n)' \subseteq Addresses(n)
    BY <1>2, <2>3, EmptyMembers DEF Addresses
  <2>7. Counts(n)' => Counts(n)
    BY <2>3, <2>6 DEF Counts, Says, Word
  <2>8. Counts(n) => Addresses(n) \subseteq {lobby.data[n]}
    BY DEF Running, Honoured
  <2>9. \A x \in Node \ {n} : Counts(x)' => Counts(x)
    BY <2>3, OthersCountNoMore
  <2>10. ChargePC(n)' /\ NotedPC(n)' /\ SinglePC(n)'
    BY <2>3, <2>4, <2>5 DEF ChargePC, NotedPC, SinglePC, Alone
  <2>11. Goes(n)
    BY <2>3, <2>4, <2>6, <2>7, <2>8, <2>9, <2>10 DEF Goes
  <2>12. Members(w.s.roster) \subseteq w.s.trusted /\ w.s.known = session[n].known
         /\ \A x \in w.s.left : Lingers(x)
    BY <1>4, <2>5 DEF KeptBy, Lingers
  <2>13. \A b \in Node : <<Leave, b>> \notin {}
    OBVIOUS
  <2>14. turn \in {NoNode, n} /\ UNCHANGED logged /\ w.lobby.members = lobby.members
         /\ w.lobby.owner \in lobby.members
    BY <1>1, <1>4
  <2> QED BY <1>2, <1>3, <1>5, <2>1, <2>11, <2>12, <2>13, <2>14, StayerKeeps
<1> QED BY <1>6, <1>7

-----------------------------------------------------------------------------
\* A message is read.
LEMMA ReadSpeaks ==
  ASSUME Around, NEW n \in Node, NEW from \in Node, chan[from][n] # <<>>
  PROVE  LET taken == [View(n) EXCEPT !.chan[from][n] = Tail(@)] IN
           /\ GoodView(taken, n) /\ Speaks(View(n), taken, n, {})
           /\ taken.s = session[n] /\ taken.lobby = lobby /\ taken.on = logged[n]
           /\ Head(chan[from][n]) \in Fit(from, n)
           /\ Has(chan[from][n], Head(chan[from][n]))
<1> DEFINE taken == [View(n) EXCEPT !.chan[from][n] = Tail(@)]
           rest == Tail(chan[from][n])
           row == [chan[from] EXCEPT ![n] = rest]
           c == [chan EXCEPT ![from] = row]
<1>1. chan[from][n] \in Seq(Fit(from, n)) /\ chan \in Channels
  BY DEF Around, IInv, SharedInv, GoodChannels
<1>2. Head(chan[from][n]) \in Fit(from, n) /\ rest \in Seq(Fit(from, n))
  BY <1>1, HeadTailProperties
<1>3. /\ \A msg : Has(rest, msg) => Has(chan[from][n], msg)
      /\ Has(chan[from][n], Head(chan[from][n]))
  BY <1>1, HasTail
<1>4. rest \in Seq(Message)
  BY <1>2 DEF Fit
<1> HIDE DEF rest
<1>5. row \in [Node -> Seq(Message)] /\ row[n] = rest
      /\ (\A m \in Node : row[m] \in Seq(Fit(from, m)))
      /\ \A m \in Node \ {n} : row[m] = chan[from][m]
  BY <1>1, <1>2, <1>4 DEF Channels, Around, IInv, SharedInv, GoodChannels
<1> HIDE DEF row
<1>6. GoodChannels(c)
  BY <1>5 DEF Channels, Around, IInv, SharedInv, GoodChannels
<1>7. c[from] = row /\ \A a \in Node \ {from} : c[a] = chan[a]
  BY <1>1 DEF Channels
<1>8. taken = [View(n) EXCEPT !.chan = c]
  BY DEF View, row, rest
<1> HIDE DEF c
<1>9. GoodView(View(n), n)
  BY ViewIsGood DEF Around
<1>10. /\ taken.chan = c /\ taken.s = session[n] /\ taken.lobby = lobby /\ taken.on = logged[n]
       /\ taken.conn = conn /\ View(n).conn = conn /\ View(n).chan = chan
  BY <1>8 DEF View
<1> HIDE DEF taken
<1>11. GoodView(taken, n)
  BY <1>6, <1>8, <1>9 DEF GoodView, WorldView, GoodChannels
<1>12. \A a, b \in Node : \A msg : Has(c[a][b], msg) => Has(chan[a][b], msg)
  <2> TAKE a \in Node, b \in Node
  <2>1. CASE a = from /\ b = n
    BY <1>3, <1>5, <1>7, <2>1
  <2>2. CASE ~(a = from /\ b = n)
    BY <1>5, <1>7, <2>2
  <2> QED BY <2>1, <2>2
<1>13. \A a, b \in Node : chan[a][b] = <<>> => c[a][b] = <<>>
  <2> TAKE a \in Node, b \in Node
  <2>1. CASE a = from /\ b = n
    BY <2>1
  <2>2. CASE ~(a = from /\ b = n)
    BY <1>5, <1>7, <2>2
  <2> QED BY <2>1, <2>2
<1>14. Speaks(View(n), taken, n, {})
  BY <1>10, <1>12, <1>13 DEF Speaks
<1> QED BY <1>2, <1>3, <1>10, <1>11, <1>14 DEF taken

LEMMA WelcomeIsNoFarewell == \A r : \A b \in Node : <<Leave, b>> \notin Welcome(r)
BY Messages DEF Welcome, Leave, Accepted

\* A coordinator takes somebody in, or answers.
LEMMA AnswerKeeps ==
  ASSUME Around, Running, IInv', NEW n \in Node, InCharge(n), mode[n] = "online",
         turn \in {NoNode, n}, UNCHANGED <<logged, saved>>,
         NEW u, Speaks(View(n), u, n, Welcome(u.lobby.data)), KeepOpen(u, n, "online"),
         u.lobby.members = lobby.members, u.lobby.owner = lobby.owner,
         u.s.coord = session[n].coord, u.s.known = session[n].known,
         \A x \in u.s.left : Lingers(x),
         Members(u.s.roster) \subseteq u.s.trusted, u.s.roster = u.lobby.data,
         \A o \in Members(lobby.data) : u.lobby.data[o] = lobby.data[o]
  PROVE  CalmInv'
<1> DEFINE news == Welcome(u.lobby.data)
<1>1. n \in Awake /\ Joined(session[n], n) /\ session[n].coord = n
  BY DEF InCharge, Active
<1>2. lobby.owner = n /\ session[n].roster = lobby.data
  BY DEF Running, Charge, ChargePC
<1>3. Counts(n) /\ lobby.data[n] # NoAddr
  BY <1>1, <1>2 DEF Joined, Counts, Addresses
<1>4. Addresses(n) \subseteq {lobby.data[n]}
  BY <1>3 DEF Running, Honoured
<1>5. /\ Says(n, news) /\ OthersRest(n)
      /\ mode'[n] = "online" /\ session'[n] = u.s /\ lobby' = u.lobby
  BY StayCore
<1>6. u.lobby.data[n] = lobby.data[n]
  BY <1>3 DEF Members
<1>7. n \in Active' /\ InCharge(n)'
  BY <1>1, <1>3, <1>5, <1>6 DEF Active, Awake, Joined, InCharge
<1>8. ASSUME NEW x \in Node \ {n}, Counts(x)' PROVE Counts(x) \/ lobby'.data[x] # NoAddr
  <2>1. Counts(x) \/ <<Accepted(TRUE), x>> \in news
    BY <1>5, <1>8, OthersStay
  <2> QED BY <1>5, <2>1 DEF Welcome, Members
<1>9. \A x \in Node : Counts(x) => lobby'.data[x] = lobby.data[x]
  BY <1>5 DEF Running, Honoured, Members
<1>10. Addresses(n)' \subseteq {lobby'.data[n]}
  BY <1>4, <1>5, <1>6 DEF Addresses
<1>11. SinglePC(n)' /\ NotedPC(n)' /\ ChargePC(n)'
  <2>1. NotedPC(n) /\ n \in Active
    BY DEF Running, Noted, InCharge
  <2>2. SinglePC(n)'
    BY <1>5, <1>7 DEF SinglePC, Alone, Active
  <2> QED BY <1>2, <1>5, <2>1, <2>2 DEF NotedPC, ChargePC
<1>12. Goes(n)
  BY <1>2, <1>3, <1>5, <1>7, <1>8, <1>9, <1>10, <1>11 DEF Goes
<1>13. KeptBy(n) /\ lobby.owner \in lobby.members
  BY DEF Around, Kept, Places, Running
<1>14. \A b \in Node : <<Leave, b>> \notin news
  BY WelcomeIsNoFarewell
<1> HIDE DEF news
<1>15. Speaks(View(n), u, n, news)
  BY DEF news
<1>16. saved'[n] # Empty => saved'[n][n] # NoAddr
  BY <1>13 DEF KeptBy
<1>17. u.lobby.owner \in lobby.members /\ UNCHANGED logged /\ \A x \in Node \ {n} : saved'[x] = saved[x]
  BY <1>13
<1> QED BY <1>1, <1>12, <1>14, <1>15, <1>16, <1>17, StayerKeeps

\* Any other message.
LEMMA NoteKeeps ==
  ASSUME Around, Running, IInv', NEW n \in Node, n \in Awake, NEW from \in Node,
         turn \in {NoNode, n}, UNCHANGED <<logged, saved>>,
         NEW u, Speaks(View(n), u, n, {}), KeepOpen(u, n, mode[n]),
         u.lobby = lobby, u.s.roster = session[n].roster,
         u.s.coord = session[n].coord, u.s.known = session[n].known,
         \A x \in u.s.left : Lingers(x),
         session[n].trusted \subseteq u.s.trusted,
         u.s.trusted # session[n].trusted => Has(chan[from][n], Accepted(TRUE)),
         ~(InCharge(n) /\ mode[n] = "farewell")
  PROVE  CalmInv'
<1>1. /\ Says(n, {}) /\ OthersRest(n)
      /\ mode'[n] = mode[n] /\ session'[n] = u.s /\ lobby' = lobby
  BY StayCore
<1>2. (n \in Active' <=> n \in Active) /\ (InCharge(n)' <=> InCharge(n))
      /\ Addresses(n)' = Addresses(n)
  BY <1>1 DEF Active, Awake, InCharge, Joined, Addresses
<1>3. KeptBy(n) /\ SinglePC(n) /\ NotedPC(n) /\ ChargePC(n)
  BY DEF Around, Kept, Running, Singles, Noted, Charge
<1>4. Counts(n)' => Counts(n)
  <2>1. \A m \in Node : Has(chan'[m][n], Accepted(TRUE)) => Has(chan[m][n], Accepted(TRUE))
    BY <1>1 DEF Says, Word
  <2>2. u.s.trusted # {} => Counts(n)
    BY DEF Counts
  <2> QED BY <1>1, <1>2, <2>1, <2>2 DEF Counts
<1>5. Counts(n) => Addresses(n) \subseteq {lobby.data[n]}
  BY DEF Running, Honoured
<1>6. \A x \in Node \ {n} : Counts(x)' => Counts(x)
  BY <1>1, OthersCountNoMore
<1>7. SinglePC(n)' /\ NotedPC(n)' /\ ChargePC(n)'
  BY <1>1, <1>2, <1>3 DEF SinglePC, NotedPC, ChargePC, Alone, Joined
<1>8. n \in Active' =>
       \/ session'[n].roster = lobby'.data
       \/ /\ n \in Active /\ session'[n].roster = session[n].roster
          /\ lobby'.data = lobby.data /\ session[n].trusted \subseteq session'[n].trusted
          /\ ~InCharge(n)'
  BY <1>1, <1>2, <1>3 DEF ChargePC
<1>9. InCharge(n) => InCharge(n)' /\ lobby'.owner = n
  BY <1>1, <1>2, <1>3 DEF ChargePC
<1>10. Goes(n)
  BY <1>1, <1>2, <1>4, <1>5, <1>6, <1>7, <1>8, <1>9 DEF Goes
<1>11. \A b \in Node : <<Leave, b>> \notin {}
  OBVIOUS
<1>12. /\ mode[n] \in {"online", "farewell"} /\ (mode[n] = "farewell" => saved'[n] = Empty)
       /\ (saved'[n] # Empty => saved'[n][n] # NoAddr)
       /\ Members(u.s.roster) \subseteq u.s.trusted
  BY <1>3 DEF KeptBy, Awake
<1>13. u.lobby.members = lobby.members /\ u.lobby.owner \in lobby.members /\ UNCHANGED logged
       /\ \A x \in Node \ {n} : saved'[x] = saved[x]
  BY DEF Around, Places, Running
<1> QED BY <1>10, <1>11, <1>12, <1>13, StayerKeeps

\* Reading a message: being let in or denied, letting in, hearing of a leaver.
LEMMA ReceiveCalm ==
  ASSUME Around, Running, IInv', NEW n \in Node, Receive(n)
  PROVE  CalmInv'
<1> PICK from \in Node : 
      /\ chan[from][n] # <<>>
      /\ \E taken \in {[View(n) EXCEPT !.chan[from][n] = Tail(@)]} :
             \E u \in {Handle(taken, n, from, Head(chan[from][n]))} :
             Show(u) /\ session' = [session EXCEPT ![n] = u.s]
  BY DEF Receive
<1> DEFINE w == [View(n) EXCEPT !.chan[from][n] = Tail(@)]
           msg == Head(chan[from][n])
           u == Handle(w, n, from, msg)
<1>1. Ticks(n) /\ UNCHANGED <<mode, saved, logged>>
  BY DEF Receive, OnHold, Around, Places
<1>2. n \in Awake /\ turn \in {NoNode, n} /\ mode[n] \in {"online", "farewell"}
  BY <1>1 DEF Ticks, Awake
<1>3. Show(u) /\ session' = [session EXCEPT ![n] = u.s]
  OBVIOUS
<1>4. /\ GoodView(w, n) /\ Speaks(View(n), w, n, {})
      /\ w.s = session[n] /\ w.lobby = lobby /\ w.on = logged[n]
      /\ msg \in Fit(from, n) /\ Has(chan[from][n], msg)
  BY ReadSpeaks
<1> HIDE DEF w, msg
<1>5. logged[n] /\ n \in lobby.members /\ lobby.owner \in lobby.members
  BY <1>2, InLobby DEF Around, Places
<1>6. IsCoordinator(session[n], n) <=> InCharge(n)
  BY <1>2 DEF IsCoordinator, InCharge, Active
<1>7. InCharge(n) => lobby.owner = n /\ session[n].roster = lobby.data
  BY DEF Running, Charge, ChargePC
<1>8. ~(InCharge(n) /\ mode[n] = "farewell")
  <2>1. InCharge(n) /\ mode[n] = "farewell" => chan[from][n] = <<>>
    BY DEF Running, Bye, ByePC
  <2> QED BY <2>1
<1>9. Members(session[n].roster) \subseteq session[n].trusted
  BY DEF Around, Kept, KeptBy
<1>10. Handles(w, u, n, from, msg)
  <2>1. IsCoordinator(w.s, n) => CanWrite(w, n) /\ w.s.roster = w.lobby.data
    BY <1>4, <1>5, <1>6, <1>7 DEF CanWrite
  <2>2. Members(w.s.roster) \subseteq w.s.trusted
    BY <1>4, <1>9
  <2> QED BY <1>4, <2>1, <2>2, HandleSpeaks
<1> HIDE DEF u
<1>11. KeepOpen(u, n, mode[n])
  BY <1>1, <1>3 DEF KeepOpen, Around, IInv, ModeInv
<1>12. \A x \in u.s.left : Lingers(x)
  <2>1. u.s.left \subseteq session[n].left \cup (IF msg = Leave THEN {from} ELSE {})
    BY <1>4, <1>10 DEF Handles
  <2>2. \A x \in session[n].left : Lingers(x)
    BY DEF Lingers
  <2>3. msg = Leave => Lingers(from)
    BY <1>4 DEF Lingers
  <2> QED BY <2>1, <2>2, <2>3
<1>13. /\ u.lobby.members = lobby.members /\ u.lobby.owner = lobby.owner
       /\ u.s.coord = session[n].coord /\ u.s.known = session[n].known
       /\ Members(u.s.roster) \subseteq u.s.trusted
  BY <1>4, <1>10 DEF Handles
<1>14. UNCHANGED <<logged, saved>>
  BY <1>1
<1>15. CASE /\ IsCoordinator(w.s, n) /\ Speaks(w, u, n, Welcome(u.lobby.data))
            /\ u.s.roster = u.lobby.data
            /\ \A o \in Members(w.lobby.data) : u.lobby.data[o] = w.lobby.data[o]
  <2> DEFINE news == Welcome(u.lobby.data)
  <2>1. Speaks(View(n), w, n, {}) /\ Speaks(w, u, n, news) /\ {} \subseteq news /\ news \subseteq news
    BY <1>4, <1>15
  <2> HIDE DEF news
  <2>2. Speaks(View(n), u, n, news)
    BY <2>1, SpeaksOn
  <2>3. Speaks(View(n), u, n, Welcome(u.lobby.data))
    BY <2>2 DEF news
  <2>4. InCharge(n) /\ mode[n] = "online"
    BY <1>2, <1>4, <1>6, <1>8, <1>15
  <2>5. KeepOpen(u, n, "online")
    BY <1>11, <2>4
  <2>6. \A o \in Members(lobby.data) : u.lobby.data[o] = lobby.data[o]
    BY <1>4, <1>15
  <2> QED BY <1>2, <1>12, <1>13, <1>14, <1>15, <2>3, <2>4, <2>5, <2>6, AnswerKeeps
<1>16. CASE /\ Speaks(w, u, n, {}) /\ u.s.roster = w.s.roster
            /\ u.lobby = w.lobby
            /\ w.s.trusted \subseteq u.s.trusted
            /\ u.s.trusted # w.s.trusted => msg = Accepted(TRUE)
  <2>1. Speaks(View(n), u, n, {})
    BY <1>4, <1>16, SpeaksOn
  <2>2. u.lobby = lobby /\ u.s.roster = session[n].roster
        /\ session[n].trusted \subseteq u.s.trusted
        /\ (u.s.trusted # session[n].trusted => Has(chan[from][n], Accepted(TRUE)))
    BY <1>4, <1>16
  <2> QED BY <1>2, <1>8, <1>11, <1>12, <1>13, <1>14, <2>1, <2>2, NoteKeeps
<1> QED BY <1>10, <1>15, <1>16 DEF Handles

-----------------------------------------------------------------------------
\* What a session starts with.
LEMMA NewSessionCore ==
  ASSUME NEW n \in Node, NEW k, NEW code
  PROVE  LET s == NewSession(n, k, code) IN
           /\ s.known = k /\ s.trusted = Members(k) /\ s.left = {}
           /\ s.roster = IF Members(k) = {n} THEN k ELSE Empty
BY DEF NewSession, Blank

\* What a PC comes back with, if anything, is what the lobby's roster says.
LEMMA ComesBack ==
  ASSUME Around, Running, NEW n \in Node, NEW k \in Roster, k[n] \in Addresses(n), Alone(n, k)
  PROVE  /\ Counts(n) /\ k[n] = lobby.data[n] /\ lobby.data # Empty
         /\ Members(k) = {n} => k = lobby.data
<1>1. Counts(n)
  BY DEF Counts
<1>2. lobby.data[n] # NoAddr /\ k[n] = lobby.data[n]
  BY <1>1 DEF Running, Honoured
<1>3. lobby.data # Empty
  BY <1>2, EmptyMembers
<1>4. ASSUME Members(k) = {n} PROVE k = lobby.data
  <2>1. lobby.data \in Roster
    BY DEF Around, IInv, SharedInv, GoodLobby, GoodRoster
  <2>2. \A x \in Node \ {n} : k[x] = NoAddr /\ lobby.data[x] = NoAddr
    BY <1>4 DEF Alone, Members
  <2> QED BY <1>2, <2>1, <2>2 DEF Roster
<1> QED BY <1>1, <1>2, <1>3, <1>4

\* JoinLobby has been answered: the session starts.
LEMMA JoinResultCalm ==
  ASSUME Around, Running, IInv', NEW n \in Node, JoinResult(n)
  PROVE  CalmInv'
<1> DEFINE k == CASE mode[n] = "join" -> Empty
                  [] mode[n] \in {"rejoin", "retry"} -> saved[n]
                  [] mode[n] = "goodbye" -> session[n].known
           new == CASE mode[n] = "join" -> NewSession(n, Empty, n \in Invited)
                    [] mode[n] \in {"rejoin", "retry"} -> NewSession(n, saved[n], TRUE)
                    [] mode[n] = "goodbye" -> NewSession(n, session[n].known, TRUE)
           t == Follow(new, n, lobby)
<1>1. /\ turn = NoNode /\ mode[n] \in {"join", "rejoin", "goodbye"}
      /\ session' = [session EXCEPT ![n] = t]
      /\ mode' = [mode EXCEPT ![n] = IF @ = "goodbye" THEN "farewell" ELSE "online"]
      /\ turn' = n /\ UNCHANGED <<lobby, conn, chan, saved, logged, used>>
  BY DEF JoinResult, Pending, Around, Places
<1>2. n \notin Awake /\ n \in lobby.members
  BY <1>1 DEF Awake, Around, Places
<1>3. IdlePC(n) /\ KeptBy(n) /\ SinglePC(n)
  BY <1>2 DEF Around, Idle, Kept, Running, Singles
<1>4. /\ new.known = k /\ new.trusted = Members(k) /\ new.left = {}
      /\ new.roster = IF Members(k) = {n} THEN k ELSE Empty
  <2>1. mode[n] = "join" => k = Empty /\ \E code : new = NewSession(n, k, code)
    OBVIOUS
  <2>2. mode[n] = "rejoin" => k = saved[n] /\ new = NewSession(n, k, TRUE)
    OBVIOUS
  <2>3. mode[n] = "goodbye" => k = session[n].known /\ new = NewSession(n, k, TRUE)
    OBVIOUS
  <2> HIDE DEF k, new
  <2>4. PICK code : new = NewSession(n, k, code)
    BY <1>1, <2>1, <2>2, <2>3
  <2> QED BY <2>4, NewSessionCore
<1>5. /\ mode[n] = "join" => k = Empty
      /\ mode[n] = "rejoin" => k = saved[n]
      /\ mode[n] = "goodbye" => k = session[n].known
  OBVIOUS
<1>6. new \in Session
  <2>1. mode[n] = "join" => new = NewSession(n, Empty, n \in Invited)
    OBVIOUS
  <2>2. mode[n] = "rejoin" => new = NewSession(n, saved[n], TRUE)
    OBVIOUS
  <2>3. mode[n] = "goodbye" => new = NewSession(n, session[n].known, TRUE)
    OBVIOUS
  <2>4. mode[n] \in {"rejoin", "goodbye"} => n \in Invited
    BY DEF Around, IInv, ModeInv
  <2>5. GoodRoster(saved[n]) /\ GoodRoster(session[n].known)
    BY DEF Around, IInv, SavedInv, SessionInv, GoodSession
  <2> HIDE DEF new
  <2>6. CASE mode[n] = "join"
    <3>1. \A code \in BOOLEAN : (code => n \in Invited) => GoodSession(NewSession(n, Empty, code), n)
      BY EmptyIsGood, NewSessionIsGood
    <3>2. (n \in Invited) \in BOOLEAN
      OBVIOUS
    <3>3. GoodSession(NewSession(n, Empty, n \in Invited), n)
      BY ONLY <3>1, <3>2, Zenon
    <3> QED BY <2>1, <2>6, <3>3 DEF GoodSession
  <2>7. CASE mode[n] \in {"rejoin", "goodbye"}
    <3>1. TRUE \in BOOLEAN /\ (TRUE => n \in Invited)
      BY <2>4, <2>7
    <3>2. GoodSession(NewSession(n, saved[n], TRUE), n)
          /\ GoodSession(NewSession(n, session[n].known, TRUE), n)
      BY <2>5, <3>1, NewSessionIsGood
    <3> QED BY <2>2, <2>3, <2>7, <3>2 DEF GoodSession
  <2> QED BY <1>1, <2>6, <2>7
<1> HIDE DEF k, new
<1>7. k \in Roster
  BY <1>1, <1>5, EmptyRoster DEF Around, IInv, SavedInv, SessionInv, GoodSession, GoodRoster
<1>8. ASSUME k # Empty
      PROVE  /\ k[n] # NoAddr /\ Counts(n) /\ k[n] = lobby.data[n] /\ lobby.data # Empty
             /\ Members(k) = {n} => k = lobby.data
  <2>1. mode[n] \in {"rejoin", "goodbye"}
    BY <1>1, <1>5, <1>8
  <2>2. k[n] \in Addresses(n)
    BY <1>3, <1>5, <1>8, <2>1 DEF KeptBy, Addresses
  <2>3. Alone(n, k)
    BY <1>3, <1>5, <2>1 DEF SinglePC
  <2> QED BY <1>7, <2>2, <2>3, ComesBack DEF Addresses
<1>9. Members(Empty) = {} /\ Members(Empty) # {n} /\ Empty[n] = NoAddr
  BY EmptyRoster, EmptyMembers
<1>10. /\ t.coord = lobby.owner /\ t.known = k /\ t.left = {}
       /\ \/ t.roster = new.roster /\ t.trusted = Members(k)
          \/ /\ t.roster = lobby.data /\ t.trusted = Members(k) \cup Members(lobby.data)
             /\ Members(k) # {}
  <2>1. new.known[n] # NoAddr => lobby.data # Empty
    BY <1>4, <1>8, <1>9
  <2>2. lobby \in Lobby
    BY DEF Around, IInv, SharedInv, GoodLobby
  <2> QED BY <1>4, <1>6, <2>1, <2>2, FollowCore
<1> HIDE DEF t
<1>11. /\ Members(t.roster) \subseteq t.trusted
       /\ t.roster = lobby.data \/ t.roster = Empty
       /\ k = Empty => t.roster = Empty /\ t.trusted = {}
       /\ Members(k) = {n} => t.roster = lobby.data
  <2>1. new.roster = Empty \/ (k # Empty /\ Members(k) = {n} /\ new.roster = k)
    BY <1>4, <1>9
  <2>2. Members(new.roster) \subseteq Members(k)
    BY <1>9, <2>1
  <2>3. Members(k) = {n} => k # Empty /\ new.roster = k
    BY <1>4, <1>9
  <2> QED BY <1>8, <1>9, <1>10, <2>1, <2>2, <2>3
<1>12. /\ session'[n] = t /\ mode'[n] = (IF mode[n] = "goodbye" THEN "farewell" ELSE "online")
       /\ \A x \in Node \ {n} : mode'[x] = mode[x] /\ session'[x] = session[x]
  BY <1>1 DEF Around, IInv, ModeInv, SessionInv
<1>13. Says(n, {}) /\ OthersRest(n)
  BY <1>1, <1>12, SaysNothing DEF OthersRest, SameCore
<1>14. n \in Awake'
  BY <1>12 DEF Awake
<1>15. Tidy(n, {})
  <2>1. Places'
    BY <1>1, <1>2, <1>12 DEF Around, Places
  <2>2. k # Empty => k[n] # NoAddr
    BY <1>8
  <2>3. KeptBy(n)'
    BY <1>1, <1>3, <1>10, <1>11, <1>12, <2>2 DEF KeptBy, Members
  <2>4. ~Lingers(n)
    BY <1>1 DEF Around, StayGone
  <2> QED BY <1>10, <1>12, <1>14, <2>1, <2>3, <2>4 DEF Tidy
<1>16. Goes(n)
  <2>1. \A x \in Node \ {n} : Counts(x)' => Counts(x)
    BY <1>13, OthersCountNoMore
  <2>2. saved[n][n] \in Addresses(n) \cup {NoAddr}
    BY DEF Addresses
  <2>3. Counts(n) => Addresses(n) \subseteq {lobby.data[n]} /\ lobby.data[n] # NoAddr
    BY DEF Running, Honoured
  <2>4. CASE k = Empty
    <3>1. mode[n] \in {"join", "goodbye"} /\ saved[n] = Empty
      BY <1>1, <1>3, <1>5, <2>4 DEF KeptBy
    <3>2. Addresses(n)' = {} /\ session'[n].trusted = {}
      BY <1>1, <1>9, <1>10, <1>11, <1>12, <2>4, <3>1 DEF Addresses
    <3>3. ~Counts(n)'
      <4>1. \A m \in Node : ~Has(chan'[m][n], Accepted(TRUE))
        BY <1>1, <1>3, HasEmpty DEF IdlePC
      <4> QED BY <3>2, <4>1 DEF Counts
    <3> QED BY <1>1, <1>2, <1>3, <1>9, <1>10, <1>11, <1>12, <1>14, <2>1, <2>4, <3>1, <3>3
            DEF Goes, Active, InCharge, Joined, ChargePC, SinglePC, NotedPC
  <2>5. CASE k # Empty
    <3>1. Counts(n) /\ k[n] = lobby.data[n]
      BY <1>8, <2>5
    <3>2. Addresses(n)' \subseteq {lobby.data[n]}
      BY <1>1, <1>9, <1>10, <1>11, <1>12, <2>2, <2>3, <3>1 DEF Addresses
    <3>3. n \in Active' => t.roster = lobby.data
      BY <1>9, <1>11, <1>12 DEF Active, Joined
    <3>4. ~InCharge(n)
      BY <1>2 DEF InCharge, Active
    <3>5. ChargePC(n)'
      BY <1>1, <1>10, <1>12, <3>3 DEF ChargePC, InCharge
    <3>6. mode[n] \in {"rejoin", "goodbye"}
      BY <1>1, <1>5, <2>5
    <3>7. SinglePC(n)'
      <4>1. n \in Active' => Alone(n, session[n].roster)'
        BY <1>1, <1>12, <3>3 DEF Alone
      <4>2. mode'[n] = "online" /\ ~Joined(session[n], n)' => Members(saved'[n]) # {n}
        <5>1. mode'[n] = "online" => k = saved[n]
          BY <1>5, <1>12, <3>6
        <5>2. Members(k) = {n} => t.roster[n] # NoAddr
          BY <1>8, <1>11, <2>5
        <5> QED BY <1>1, <1>12, <5>1, <5>2 DEF Joined
      <4> QED BY <1>12, <4>1, <4>2 DEF SinglePC
    <3>8. NotedPC(n)'
      BY <1>1, <1>5, <1>12, <2>5, <3>6 DEF NotedPC
    <3>9. InCharge(n)' /\ mode'[n] = "farewell" =>
            lobby.owner = n /\ turn' = n /\ \A m \in Node : chan'[m][n] = <<>>
      BY <1>1, <1>3, <1>10, <1>12 DEF InCharge, IdlePC
    <3> QED BY <1>1, <1>12, <2>1, <3>1, <3>2, <3>3, <3>4, <3>5, <3>7, <3>8, <3>9 DEF Goes
  <2> QED BY <2>4, <2>5
<1>17. lobby'.members # {}
  BY <1>1 DEF Running
<1> QED BY <1>13, <1>15, <1>16, <1>17, StepKeeps

-----------------------------------------------------------------------------
\* What cannot happen while it is calm.
LEMMA NeverSpent ==
  ASSUME IInv, NEW n \in Node, NEW kind \in Kinds, Limit[kind][n] = 0
  PROVE  ~Spend(kind, n)
<1>1. used[kind] \in [Node -> Nat] /\ used[kind][n] \in Nat
  BY DEF IInv, RestInv
<1> QED BY <1>1 DEF Spend

LEMMA CalmOnly ==
  ASSUME Around, Calm, NEW n \in Node, Event(n)
  PROVE  \/ JoinLobby(n) \/ JoinResult(n) \/ NetworkGone(n)
         \/ GoOffline(n) \/ LeaveOnline(n) \/ LeaveOffline(n)
         \/ SteamDrops(n) \/ Connect(n) \/ LinkDrops(n)
<1>1. /\ mode[n] \notin {"suspended", "retry"} /\ logged[n]
      /\ mode[n] \in Pending => n \in lobby.members
  BY DEF Around, Places, Pending
<1>2. ~Spend("outage", n) /\ ~Spend("crash", n)
  BY NeverSpent DEF Calm, Around, Kinds
<1>3. ~WaitForSteam(n) /\ ~LeaveUnheard(n) /\ ~LogOn(n) /\ ~LoseConnection(n)
  BY <1>1 DEF WaitForSteam, LeaveUnheard, LogOn, LoseConnection
<1>4. ~JoinFailed(n) /\ ~LeaveSuspended(n) /\ ~RejoinLobby(n) /\ ~Restored(n) /\ ~GiveUp(n)
  BY <1>1 DEF JoinFailed, LeaveSuspended, RejoinLobby, Restored, GiveUp
<1>5. ~LogOff(n) /\ ~Crash(n)
  BY <1>2 DEF LogOff, Crash
<1> QED BY <1>3, <1>4, <1>5 DEF Event

\* The lobby is gone: all that is left is to forget it.
LEMMA GoneOnly ==
  ASSUME Around, Calm, lobby.members = {}, NEW n \in Node, Tick(n) \/ Event(n)
  PROVE  NetworkGone(n)
<1>1. mode[n] = "out"
  BY DEF Around, Places
<1>2. ~Tick(n)
  <2>1. ~Ticks(n) /\ ~OnHold(n)
    BY <1>1 DEF Ticks, OnHold
  <2> QED BY <2>1 DEF Tick, Receive, CoordinatorTick, HandOffTick, MemberTick
<1>3. ~EnterLobby(n)
  BY DEF EnterLobby
<1>4. ~JoinLobby(n) /\ ~LeaveOffline(n)
  BY <1>1, <1>3 DEF JoinLobby, LeaveOffline
<1>5. ~JoinResult(n) /\ ~GoOffline(n) /\ ~LeaveOnline(n) /\ ~SteamDrops(n) /\ ~Connect(n)
  BY <1>1 DEF JoinResult, Pending, GoOffline, LeaveOnline, SteamDrops, Connect
<1>6. ~LinkDrops(n)
  <2>1. \A m \in Node : m \notin Awake
    BY DEF Awake, Around, Places
  <2>2. \A m \in Node : {n, m} \notin conn
    BY <2>1 DEF Around, Idle, IdlePC
  <2> QED BY <2>2 DEF LinkDrops
<1> QED BY <1>2, <1>4, <1>5, <1>6, CalmOnly

\* When the lobby is gone, a PC that wants to enter it learns that, and forgets it.
LEMMA GoneCalm ==
  ASSUME Around, lobby.members = {}, IInv', NEW n \in Node, NetworkGone(n)
  PROVE  /\ CalmInv' /\ lobby' = lobby /\ saved'[n] = Empty
         /\ \A x \in Node \ {n} : saved'[x] = saved[x]
<1>1. mode[n] = "out" /\ n \notin Awake
  BY DEF Around, Places, Awake
<1>2. /\ turn = NoNode /\ saved' = [saved EXCEPT ![n] = Empty]
      /\ UNCHANGED <<lobby, conn, chan, logged, turn>>
      /\ mode' = [mode EXCEPT ![n] = "out"] /\ session' = [session EXCEPT ![n] = Blank]
  BY <1>1 DEF NetworkGone, GoOut, Live, Abandon
<1>3. mode'[n] = "out" /\ session'[n] = Blank /\ saved'[n] = Empty
      /\ \A x \in Node \ {n} :
           mode'[x] = mode[x] /\ session'[x] = session[x] /\ saved'[x] = saved[x]
  BY <1>2 DEF Around, IInv, ModeInv, SessionInv, SavedInv
<1>4. Blank.coord = NoNode /\ Blank.roster = Empty /\ Blank.known = Empty
      /\ Blank.trusted = {} /\ Blank.left = {}
  BY DEF Blank
<1>5. Says(n, {}) /\ OthersRest(n)
  BY <1>2, <1>3, SaysNothing DEF OthersRest, SameCore
<1>6. IdlePC(n)
  BY <1>1 DEF Around, Idle
<1>7. Tidy(n, {})
  <2>1. Places'
    BY <1>2, <1>3 DEF Around, Places
  <2>2. KeptBy(n)' /\ IdlePC(n)'
    BY <1>2, <1>3, <1>4, <1>6, EmptyRoster DEF KeptBy, IdlePC
  <2> QED BY <1>3, <1>4, <2>1, <2>2 DEF Tidy
<1>8. Places' /\ Idle' /\ Kept' /\ StayGone'
  BY <1>5, <1>7, TidyKeeps DEF Around
<1>9. FilesApart'
  <2>1. \A x \in Node : saved'[x][x] # NoAddr => saved'[x][x] = saved[x][x] /\ saved[x][x] # NoAddr
    BY <1>3, EmptyMembers
  <2> QED BY <2>1 DEF Around, FilesApart
<1> QED BY <1>2, <1>3, <1>8, <1>9 DEF CalmInv, Around

-----------------------------------------------------------------------------
\* The creator's first tick makes the network.
LEMMA FoundingOnly ==
  ASSUME Around, Founding, Calm, NEW n \in Node, Tick(n) \/ Event(n)
  PROVE  n = Creator /\ CoordinatorTick(n)
<1> DEFINE w == Sync(View(n), n)
<1>1. turn = Creator /\ Creator # NoNode
  BY CreatorAssumption, NodeAssumption DEF Founding, NoNode
<1>2. ~Event(n)
  <2>1. ~JoinLobby(n) /\ ~JoinResult(n) /\ ~NetworkGone(n) /\ ~GoOffline(n) /\ ~LeaveOnline(n)
    BY <1>1 DEF JoinLobby, JoinResult, NetworkGone, GoOffline, LeaveOnline
  <2>2. ~LeaveOffline(n) /\ ~SteamDrops(n) /\ ~Connect(n) /\ ~LinkDrops(n)
    BY <1>1 DEF LeaveOffline, SteamDrops, Connect, LinkDrops
  <2> QED BY <2>1, <2>2, CalmOnly
<1>3. ~Receive(n)
  BY DEF Receive, Founding
<1>4. n = Creator
  <2>1. Ticks(n)
    BY <1>2, <1>3 DEF Tick, CoordinatorTick, HandOffTick, MemberTick
  <2> QED BY <1>1, <2>1 DEF Ticks
<1>5. w.s.coord = n /\ Joined(w.s, n)
  <2>1. /\ GoodView(View(n), n) /\ View(n).on /\ View(n).s = session[n] /\ View(n).lobby = lobby
        /\ n \in lobby.members /\ lobby.owner = n
    BY <1>4, ViewIsGood DEF View, Around, Places, Founding
  <2>2. w.s = Follow(session[n], n, lobby)
    BY <2>1, SyncCore
  <2>3. Joined(session[n], n) /\ session[n].coord = n /\ session[n] \in Session
    BY <1>4 DEF Founding, Members, Joined, Around, IInv, SessionInv
  <2>4. w.s = [session[n] EXCEPT !.coord = n]
    BY <2>1, <2>2, <2>3 DEF Follow, Joined
  <2> QED BY <2>3, <2>4 DEF Session, Joined
<1>6. ~HandOffTick(n) /\ \A late \in BOOLEAN : ~MemberTick(n, late)
  BY <1>5 DEF HandOffTick, MemberTick
<1> QED BY <1>2, <1>3, <1>4, <1>6 DEF Tick

\* The founding of the network: the creator's first tick.
LEMMA FoundingCalm ==
  ASSUME Around, Founding, IInv', CoordinatorTick(Creator)
  PROVE  CalmInv' /\ Running' /\ \A x \in Node \ {Creator} : saved'[x] = saved[x]
<1> DEFINE n == Creator
           s == session[n]
           w == Sync(View(n), n)
<1>1. n \in Node
  BY CreatorAssumption
<1>2. PICK silent : EndTick(Coordinate(w, n, silent), n, FALSE)
  BY DEF CoordinatorTick
<1> DEFINE u == Coordinate(w, n, silent)
<1>3. /\ s \in Session /\ s.roster \in Roster /\ s.coord = n /\ s.left = {} /\ s.roster = s.known
      /\ s.roster[n] # NoAddr /\ s.roster # Empty
  <2>1. Members(s.roster) = {n}
    BY DEF Founding
  <2> QED BY <1>1, <2>1, EmptyMembers DEF Founding, Members, Around, IInv, SessionInv, Session
<1>4. /\ GoodView(View(n), n) /\ View(n).on /\ View(n).s = s /\ View(n).lobby = lobby
      /\ n \in lobby.members /\ lobby.owner = n
  BY <1>1, ViewIsGood DEF View, Around, Places, Founding
<1>5. w.s = [s EXCEPT !.coord = n]
  <2>1. w.s = Follow(s, n, lobby)
    BY <1>1, <1>4, SyncCore
  <2> HIDE DEF w
  <2> QED BY <1>3, <1>4, <2>1 DEF Follow, Joined
<1>6. GoodView(w, n) /\ Speaks(View(n), w, n, {}) /\ w.lobby = lobby /\ w.on
  BY <1>1, <1>4, SyncCore, SyncIsGood
<1> HIDE DEF w
<1>7. SameCore(s, w.s)
  BY <1>3, <1>5 DEF SameCore, Session
<1>8. CanWrite(w, n)
  BY <1>4, <1>6 DEF CanWrite
<1>9. Coordinates(w, u, n)
  <2> HIDE DEF n
  <2> QED BY <1>1, <1>6, <1>8, CoordinateSpeaks
<1>10. mode[n] = "online" /\ CheckNetwork(u, n) /\ UNCHANGED logged
  BY <1>1, <1>2 DEF EndTick, Founding
<1> HIDE DEF u
<1>11. /\ Speaks(w, u, n, {}) /\ u.lobby.members = lobby.members /\ u.lobby.owner = n
       /\ u.lobby.data = s.roster /\ u.s.roster = s.roster
       /\ u.s.coord = n /\ u.s.known = s.known /\ u.s.trusted = s.trusted /\ u.s.left = {}
  <2>1. Without(s.roster, {} \ {n}) = s.roster
    BY <1>3 DEF Without, Roster
  <2> QED BY <1>3, <1>4, <1>6, <1>7, <1>9, <2>1 DEF Coordinates, SameCore
<1>12. Speaks(View(n), u, n, {})
  BY <1>6, <1>11, SpeaksOn
<1>13. KeepOpen(u, n, "online") /\ saved' = [saved EXCEPT ![n] = u.s.roster]
  BY <1>3, <1>10, <1>11 DEF CheckNetwork, Joined
<1>14. saved'[n] = s.roster /\ \A x \in Node \ {n} : saved'[x] = saved[x]
  BY <1>1, <1>11, <1>13 DEF Around, IInv, SavedInv
<1>15. turn \in {NoNode, n}
  BY DEF Founding
<1>16. /\ Says(n, {}) /\ OthersRest(n)
       /\ mode'[n] = "online" /\ session'[n] = u.s /\ lobby' = u.lobby
       /\ \A x \in Node \ {n} : mode'[x] = mode[x]
  <2> HIDE DEF n
  <2> QED BY <1>1, <1>12, <1>13, <1>14, <1>15, StayCore
<1>17. /\ lobby'.members = {n} /\ lobby'.owner = n /\ lobby'.data = s.roster
       /\ \A x \in Node \ {n} : mode'[x] = "out" /\ saved'[x] = Empty
       /\ \A a, b \in Node : chan[a][b] = <<>>
  BY <1>1, <1>11, <1>14, <1>16 DEF Founding
<1>18. Tidy(n, {})
  <2>1. Places'
    <3>1. \A x \in Node : logged'[x]
      BY <1>10 DEF Around, Places
    <3> QED BY <1>16, <1>17, <3>1 DEF Places
  <2>2. KeptBy(n)
    BY <1>1 DEF Around, Kept
  <2>3. KeptBy(n)'
    BY <1>3, <1>11, <1>14, <1>16, <2>2 DEF KeptBy
  <2>4. ~Lingers(n)
    BY <1>1, <1>10 DEF Around, StayGone
  <2>5. n \in Awake'
    BY <1>1, <1>16 DEF Awake
  <2> QED BY <1>11, <1>16, <2>1, <2>3, <2>4, <2>5 DEF Tidy
<1>19. Places' /\ Idle' /\ Kept' /\ StayGone'
  <2> HIDE DEF n
  <2> QED BY <1>1, <1>16, <1>18, TidyKeeps DEF Around
<1>20. ASSUME NEW x \in Node \ {n} PROVE x \notin Awake' /\ x \notin Active' /\ ~Counts(x)'
  <2>1. x \notin Awake'
    BY <1>17 DEF Awake
  <2>2. IdlePC(x)'
    BY <1>19, <2>1 DEF Idle
  <2>3. session'[x].known = Empty /\ saved'[x] = Empty
    BY <1>17, <2>2 DEF IdlePC
  <2>4. Addresses(x)' = {} /\ session'[x].trusted = {}
    BY <2>2, <2>3, EmptyMembers DEF IdlePC, Addresses
  <2>5. \A m \in Node : ~Has(chan'[m][x], Accepted(TRUE))
    BY <2>2, HasEmpty DEF IdlePC
  <2> QED BY <2>1, <2>4, <2>5 DEF Active, Counts
<1>21. Running'
  <2>1. Honoured'
    <3>1. Addresses(n)' \subseteq {lobby'.data[n]} /\ lobby'.data[n] # NoAddr
      BY <1>3, <1>11, <1>14, <1>16, <1>17 DEF Addresses
    <3> QED BY <1>20, <3>1 DEF Honoured
  <2>2. Singles'
    <3>1. SinglePC(n)'
      BY <1>3, <1>11, <1>16, <1>17 DEF SinglePC, Alone, Joined, Members
    <3>2. \A x \in Node \ {n} : SinglePC(x)'
      BY <1>17, <1>20, EmptyMembers DEF SinglePC, Alone
    <3> QED BY <3>1, <3>2 DEF Singles
  <2>3. Noted'
    BY <1>3, <1>14, <1>20 DEF Noted, NotedPC
  <2>4. Charge'
    BY <1>11, <1>16, <1>17, <1>20 DEF Charge, ChargePC, InCharge
  <2>5. Catch'
    <3> SUFFICES ASSUME NEW m \in Active' PROVE CatchPC(m)'
      BY DEF Catch
    <3>1. m = n
      BY <1>20 DEF Active, Awake
    <3>2. session'[n].roster = lobby'.data
      BY <1>11, <1>16, <1>17
    <3> QED BY <3>1, <3>2 DEF CatchPC, Knows
  <2>6. Bye'
    BY <1>16, <1>20 DEF Bye, ByePC, InCharge
  <2> QED BY <1>17, <2>1, <2>2, <2>3, <2>4, <2>5, <2>6 DEF Running
<1>22. FilesApart'
  BY <1>17, EmptyMembers DEF FilesApart
<1> QED BY <1>14, <1>19, <1>21, <1>22 DEF CalmInv, Around

-----------------------------------------------------------------------------
\* The invariant holds at first and is kept.
LEMMA InitCalm == Init => CalmInv
<1> SUFFICES ASSUME Init PROVE CalmInv
  OBVIOUS
<1> DEFINE first == [Empty EXCEPT ![Creator] = Lowest(Addr)]
           new == NewSession(Creator, first, TRUE)
           started == [new EXCEPT !.coord = Creator]
<1>1. Creator \in Node
  BY CreatorAssumption
<1>2. first[Creator] # NoAddr /\ Members(first) = {Creator}
  <2>1. Lowest(Addr) \in Addr /\ Lowest(Addr) # NoAddr
    BY AddrAssumption, LowestIsIn DEF NoAddr
  <2> QED BY <1>1, <2>1 DEF Empty, Members
<1> HIDE DEF first
<1>3. started.coord = Creator /\ started.known = first /\ started.roster = first
      /\ started.trusted = Members(first) /\ started.left = {}
  BY <1>2 DEF NewSession, Blank
<1> HIDE DEF new, started
<1>4. session = [n \in Node |-> IF n = Creator THEN started ELSE Blank]
  BY DEF Init, started, new, first
<1>5. /\ session[Creator] = started
      /\ \A n \in Node \ {Creator} : session[n] = Blank
  BY <1>1, <1>4
<1>6. Blank.coord = NoNode /\ Blank.roster = Empty /\ Blank.known = Empty
      /\ Blank.trusted = {} /\ Blank.left = {}
  BY DEF Blank
<1>7. /\ \A n \in Node : mode[n] = IF n = Creator THEN "online" ELSE "out"
      /\ \A n \in Node : saved[n] = Empty /\ logged[n]
      /\ \A m, n \in Node : {m, n} \notin conn /\ chan[m][n] = <<>>
      /\ lobby = [members |-> {Creator}, owner |-> Creator, data |-> Empty]
      /\ turn = Creator
  BY DEF Init
<1>8. IInv
  BY InitInv
<1>9. Places
  BY <1>7 DEF Places
<1>10. Idle
  BY <1>1, <1>5, <1>6, <1>7 DEF Idle, IdlePC, Awake
<1>11. Kept
  <2>1. KeptBy(Creator)
    BY <1>1, <1>2, <1>3, <1>5, <1>7 DEF KeptBy
  <2>2. ASSUME NEW n \in Node \ {Creator} PROVE KeptBy(n)
    <3>1. session[n].known = Empty /\ Members(session[n].roster) = {}
      BY <1>5, <1>6, EmptyRoster
    <3> QED BY <1>7, <3>1 DEF KeptBy
  <2> QED BY <2>1, <2>2 DEF Kept
<1>12. StayGone
  BY <1>3, <1>5, <1>6, <1>7, HasEmpty DEF StayGone, Lingers
<1>13. FilesApart
  BY <1>7, EmptyMembers DEF FilesApart
<1>14. Founding
  BY <1>1, <1>2, <1>3, <1>5, <1>7 DEF Founding
<1> QED BY <1>8, <1>9, <1>10, <1>11, <1>12, <1>13, <1>14 DEF CalmInv, Around

\* Every step of a running network keeps the invariant.
LEMMA RunningCalm ==
  ASSUME Around, Running, Calm, OrderlyStep, IInv', NEW n \in Node,
         (Tick(n) /\ MayTick(n)) \/ (Event(n) /\ Allowed(n))
  PROVE  CalmInv'
<1>1. CASE Tick(n)
  BY <1>1, ReceiveCalm, CoordinatorTickCalm, HandOffTickCalm, MemberTickCalm DEF Tick
<1>2. CASE Event(n) /\ Allowed(n)
  <2>1. Timely(n) /\ Prompt
    BY <1>2 DEF Allowed, Calm
  <2>2. ~NetworkGone(n)
    BY DEF NetworkGone, Running
  <2>3. \/ JoinLobby(n) \/ JoinResult(n) \/ GoOffline(n) \/ LeaveOnline(n) \/ LeaveOffline(n)
        \/ SteamDrops(n) \/ Connect(n) \/ LinkDrops(n)
    BY <1>2, <2>2, CalmOnly
  <2> QED BY <2>1, <2>3, JoinLobbyCalm, JoinResultCalm, GoOfflineCalm, LeaveOnlineCalm,
             LeaveOfflineCalm, SteamDropsCalm, ConnectCalm, LinkDropsCalm
<1> QED BY <1>1, <1>2

LEMMA StutterCalm == ASSUME CalmInv, UNCHANGED vars PROVE CalmInv'
<1>1. IInv'
  BY DEF CalmInv, Around, vars, IInv, SharedInv, SessionInv, ModeInv, SavedInv, RestInv
<1>2. Awake' = Awake /\ Active' = Active
  BY DEF vars, Awake, Active
<1>3. Places' /\ Idle' /\ Kept' /\ StayGone' /\ FilesApart'
  BY <1>2 DEF CalmInv, Around, vars, Places, Idle, IdlePC, Kept, KeptBy, StayGone, Lingers, FilesApart
<1>4. CASE Founding
  BY <1>1, <1>3, <1>4 DEF vars, Founding, CalmInv, Around
<1>5. CASE lobby.members = {}
  BY <1>1, <1>3, <1>5 DEF vars, CalmInv, Around
<1>6. CASE Running
  <2>1. \A n \in Node : (Counts(n)' <=> Counts(n)) /\ Addresses(n)' = Addresses(n)
                        /\ (InCharge(n)' <=> InCharge(n))
    BY <1>2 DEF vars, Counts, Addresses, InCharge
  <2>2. Honoured' /\ Singles' /\ Noted' /\ Charge'
    BY <1>2, <1>6, <2>1 DEF vars, Running, Honoured, Singles, SinglePC, Alone, Noted, NotedPC,
                            Charge, ChargePC, Members
  <2>3. \A r : Knows(r)' <=> Knows(r)
    BY <2>1 DEF vars, Knows
  <2>4. Catch'
    <3> SUFFICES ASSUME NEW m \in Active' PROVE CatchPC(m)'
      BY DEF Catch
    <3>1. CatchPC(m)
      BY <1>2, <1>6 DEF Running, Catch
    <3>2. Knows(session[m].roster)' <=> Knows(session[m].roster)
      BY <2>1 DEF vars, Knows
    <3>3. InCharge(lobby.owner)' <=> InCharge(lobby.owner)
      BY <1>2 DEF vars, InCharge
    <3> QED BY <3>1, <3>2, <3>3 DEF vars, CatchPC
  <2>5. Bye'
    <3> SUFFICES ASSUME NEW n \in Node PROVE ByePC(n)'
      BY DEF Bye
    <3>1. ByePC(n)
      BY <1>6 DEF Running, Bye
    <3>2. \A m \in Active : Knows(session[m].roster)' <=> Knows(session[m].roster)
      BY <2>1 DEF vars, Knows
    <3> QED BY <1>2, <2>1, <3>1, <3>2 DEF vars, ByePC
  <2>6. lobby'.members # {}
    BY <1>6 DEF vars, Running
  <2> QED BY <1>1, <1>3, <2>2, <2>4, <2>5, <2>6 DEF CalmInv, Around, Running
<1> QED BY <1>4, <1>5, <1>6 DEF CalmInv

\* Every step keeps the invariant: of a network that is gone, founded or running.
LEMMA NextCalm ==
  ASSUME Calm
  PROVE  CalmInv /\ [Next]_vars /\ [OrderlyStep]_vars => CalmInv'
<1> SUFFICES ASSUME CalmInv, [Next]_vars, [OrderlyStep]_vars PROVE CalmInv'
  OBVIOUS
<1>1. CASE UNCHANGED vars
  BY <1>1, StutterCalm
<1>2. CASE Next /\ OrderlyStep
  <2>1. Around /\ IInv /\ IInv'
    BY NextInv DEF CalmInv, Around
  <2>2. PICK n \in Node : (Tick(n) /\ MayTick(n)) \/ (Event(n) /\ Allowed(n))
    BY <1>2 DEF Next
  <2>3. CASE Founding
    BY <2>1, <2>2, <2>3, FoundingOnly, FoundingCalm
  <2>4. CASE lobby.members = {}
    BY <2>1, <2>2, <2>4, GoneOnly, GoneCalm
  <2>5. CASE Running
    BY <1>2, <2>1, <2>2, <2>5, RunningCalm
  <2> QED BY <2>3, <2>4, <2>5 DEF CalmInv
<1> QED BY <1>1, <1>2

\* CalmInv is an invariant of calm, orderly behaviours.
LEMMA CalmInvariance ==
  ASSUME Calm
  PROVE  Spec /\ Orderly => []CalmInv
<1>1. Init => CalmInv
  BY InitCalm
<1>2. CalmInv /\ [Next]_vars /\ [OrderlyStep]_vars => CalmInv'
  BY NextCalm
<1> QED BY <1>1, <1>2, PTL DEF Spec, Orderly

-----------------------------------------------------------------------------
\* What follows for the addresses.
LEMMA CalmApart == CalmInv => AddressesApart
<1> SUFFICES ASSUME CalmInv, NEW m \in Node, NEW n \in Node, m # n,
                    NEW a, a \in Claim(m), a \in Claim(n)
             PROVE  FALSE
  BY DEF AddressesApart
<1>1. a \in Addresses(m) /\ a \in Addresses(n) /\ a # NoAddr
  BY DEF Claim, Addresses
<1>2. CASE Running
  <2>1. Counts(m) /\ Counts(n)
    BY <1>1 DEF Counts
  <2>2. lobby.data[m] = a /\ lobby.data[n] = a
    BY <1>1, <1>2, <2>1 DEF Running, Honoured
  <2>3. WellFormed(lobby.data)
    BY DEF CalmInv, Around, IInv, SharedInv, GoodLobby, GoodRoster
  <2> QED BY <1>1, <2>2, <2>3 DEF WellFormed, Members
<1>3. CASE lobby.members = {}
  <2>1. m \notin Awake /\ n \notin Awake
    BY <1>3 DEF CalmInv, Around, Places, Awake
  <2>2. session[m].roster = Empty /\ session[n].roster = Empty
    BY <2>1 DEF CalmInv, Around, Idle, IdlePC
  <2>3. saved[m][m] = a /\ saved[n][n] = a
    BY <1>1, <2>2, EmptyMembers DEF Claim
  <2> QED BY <1>1, <2>3 DEF CalmInv, Around, FilesApart
<1>4. CASE Founding
  <2>1. ASSUME NEW x \in Node, x # Creator PROVE Claim(x) = {}
    <3>1. x \notin Awake
      BY <1>4, <2>1 DEF Founding, Awake
    <3>2. session[x].roster = Empty /\ saved[x] = Empty
      BY <1>4, <3>1 DEF CalmInv, Around, Idle, IdlePC, Founding
    <3> QED BY <3>2, EmptyMembers DEF Claim
  <2> QED BY <2>1
<1> QED BY <1>2, <1>3, <1>4 DEF CalmInv

\* A step writes no state file but that of its own PC.
LEMMA OthersSaved ==
  ASSUME IInv, NEW n \in Node, Tick(n) \/ Event(n)
  PROVE  \A x \in Node \ {n} : saved'[x] = saved[x]
<1>1. saved \in [Node -> Roster]
  BY DEF IInv, SavedInv
<1>2. ASSUME NEW r, saved' = [saved EXCEPT ![n] = r] PROVE \A x \in Node \ {n} : saved'[x] = saved[x]
  BY <1>1, <1>2
<1>3. ASSUME NEW u, NEW late, EndTick(u, n, late) PROVE \A x \in Node \ {n} : saved'[x] = saved[x]
  <2>1. saved' = saved \/ \E r : saved' = [saved EXCEPT ![n] = r]
    BY <1>3 DEF EndTick, CheckNetwork
  <2> QED BY <1>2, <2>1
<1>4. CASE Tick(n)
  <2>1. CASE Receive(n)
    BY <2>1 DEF Receive
  <2>2. CASE ~Receive(n)
    <3>1. \E u, late : EndTick(u, n, late)
      BY <1>4, <2>2 DEF Tick, CoordinatorTick, HandOffTick, MemberTick
    <3> QED BY <1>3, <3>1
  <2> QED BY <2>1, <2>2
<1>5. CASE Event(n)
  <2>1. saved' = saved \/ \E r : saved' = [saved EXCEPT ![n] = r]
    <3>1. CASE GoOffline(n) \/ NetworkGone(n) \/ LeaveOnline(n) \/ LeaveSuspended(n)
               \/ LeaveOffline(n) \/ LeaveUnheard(n)
      BY <3>1 DEF GoOffline, NetworkGone, LeaveOnline, LeaveSuspended, LeaveOffline, LeaveUnheard
    <3>2. CASE JoinLobby(n) \/ WaitForSteam(n) \/ JoinResult(n) \/ JoinFailed(n)
               \/ LogOff(n) \/ LogOn(n) \/ LoseConnection(n)
      BY <3>2 DEF JoinLobby, WaitForSteam, JoinResult, JoinFailed, LogOff, LogOn, LoseConnection
    <3>3. CASE SteamDrops(n) \/ RejoinLobby(n) \/ Restored(n) \/ GiveUp(n) \/ Crash(n)
               \/ Connect(n) \/ LinkDrops(n)
      BY <3>3 DEF SteamDrops, RejoinLobby, Restored, GiveUp, Crash, Connect, LinkDrops
    <3> QED BY <1>5, <3>1, <3>2, <3>3 DEF Event
  <2> QED BY <1>2, <2>1
<1> QED BY <1>4, <1>5

\* The last member to go saves nothing new.
LEMMA TickLast ==
  ASSUME Around, Running, NEW n \in Node, NEW u, u.lobby.members = lobby.members,
         NEW late, EndTick(u, n, late), lobby'.members = {}
  PROVE  saved'[n] \in {saved[n], Empty}
<1>1. ~KeepOpen(u, n, "online")
  BY DEF KeepOpen, Show, Running
<1>2. saved' = saved \/ saved' = [saved EXCEPT ![n] = Empty]
  BY <1>1 DEF EndTick, CheckNetwork
<1> QED BY <1>2 DEF Around, IInv, SavedInv

LEMMA LastSaves ==
  ASSUME Around, Running, Calm, NEW n \in Node, Tick(n) \/ Event(n), lobby'.members = {}
  PROVE  saved'[n][n] \in {saved[n][n], NoAddr}
<1>1. saved \in [Node -> Roster]
  BY DEF Around, IInv, SavedInv
<1>2. saved'[n] \in {saved[n], Empty} => saved'[n][n] \in {saved[n][n], NoAddr}
  BY EmptyMembers
<1>3. CASE Receive(n)
  BY <1>2, <1>3 DEF Receive
<1>4. CASE Tick(n) /\ ~Receive(n)
  <2> DEFINE w == Sync(View(n), n)
  <2>1. n \in Awake
    BY <1>4 DEF Tick, CoordinatorTick, HandOffTick, MemberTick, Ticks, Awake
  <2>2. GoodView(w, n) /\ w.lobby = lobby /\ w.on /\ n \in lobby.members /\ w.s.coord = lobby.owner
    BY <2>1, TickStart, InLobby DEF Started, Awake
  <2>3. CASE CoordinatorTick(n)
    <3>1. PICK silent : /\ IsCoordinator(w.s, n) /\ EndTick(Coordinate(w, n, silent), n, FALSE)
      BY <2>3 DEF CoordinatorTick
    <3> HIDE DEF w
    <3>2. CanWrite(w, n)
      BY <2>2, <3>1 DEF CanWrite, IsCoordinator
    <3>3. Coordinates(w, Coordinate(w, n, silent), n)
      BY <2>2, <3>2, CoordinateSpeaks
    <3>4. Coordinate(w, n, silent).lobby.members = lobby.members
      BY <2>2, <3>3 DEF Coordinates
    <3> QED BY <1>2, <3>1, <3>4, TickLast
  <2>4. CASE HandOffTick(n)
    <3>1. EndTick(HandOff(w, n), n, FALSE)
      BY <2>4 DEF HandOffTick
    <3> HIDE DEF w
    <3>2. HandOff(w, n).lobby.members = lobby.members
      BY <2>2, HandOffSpeaks
    <3> QED BY <1>2, <3>1, <3>2, TickLast
  <2>5. ASSUME NEW late, MemberTick(n, late) PROVE saved'[n] \in {saved[n], Empty}
    <3>1. EndTick(MemberChecks(w, n, late), n, late)
      BY <2>5 DEF MemberTick
    <3> HIDE DEF w
    <3>2. MemberChecks(w, n, late).lobby.members = lobby.members
      BY <2>2, MemberChecksSpeaks
    <3> QED BY <3>1, <3>2, TickLast
  <2> QED BY <1>2, <1>4, <2>3, <2>4, <2>5 DEF Tick
<1>5. CASE Event(n)
  <2>1. CASE GoOffline(n)
    <3>1. saved' = IF Joined(session[n], n) /\ mode[n] # "farewell"
                   THEN [saved EXCEPT ![n] = session[n].roster] ELSE saved
      BY <2>1 DEF GoOffline
    <3>2. CASE Joined(session[n], n) /\ mode[n] # "farewell"
      <4>1. n \in Awake
        BY <3>2, EmptyMembers DEF Around, Idle, IdlePC, Joined
      <4>2. mode[n] = "online" /\ n \in Active
        BY <3>2, <4>1 DEF Awake, Active
      <4>3. saved[n][n] # NoAddr
        BY <4>2 DEF Running, Noted, NotedPC, Around, Kept, KeptBy
      <4>4. Counts(n) /\ saved[n][n] \in Addresses(n) /\ session[n].roster[n] \in Addresses(n)
        BY <3>2, <4>3 DEF Joined, Addresses, Counts
      <4>5. session[n].roster[n] = saved[n][n]
        BY <4>4 DEF Running, Honoured
      <4> QED BY <1>1, <3>1, <3>2, <4>5
    <3> QED BY <3>1, <3>2
  <2>2. CASE LeaveOnline(n) \/ LeaveOffline(n)
    BY <1>1, <1>2, <2>2 DEF LeaveOnline, LeaveOffline
  <2>3. CASE JoinLobby(n) \/ JoinResult(n) \/ SteamDrops(n) \/ Connect(n) \/ LinkDrops(n)
    BY <2>3 DEF JoinLobby, JoinResult, SteamDrops, Connect, LinkDrops
  <2>4. ~NetworkGone(n)
    BY DEF NetworkGone, Running
  <2> QED BY <1>5, <2>1, <2>2, <2>3, <2>4, CalmOnly
<1> QED BY <1>3, <1>4, <1>5

-----------------------------------------------------------------------------
\* The promise.  Whoever counts on an address has the lobby's roster with it.
FilesHonoured == lobby.members # {} => \A x \in Node : saved[x][x] \in {NoAddr, lobby.data[x]}

\* Every state file agrees with the lobby's roster while there is a lobby.
LEMMA CalmHonours == CalmInv => FilesHonoured
<1> SUFFICES ASSUME CalmInv, lobby.members # {}, NEW x \in Node, saved[x][x] # NoAddr
             PROVE  saved[x][x] = lobby.data[x]
  BY DEF FilesHonoured
<1>1. CASE Running
  <2>1. Counts(x) /\ saved[x][x] \in Addresses(x)
    BY DEF Counts, Addresses
  <2> QED BY <1>1, <2>1 DEF Running, Honoured
<1>2. CASE Founding
  BY <1>2, EmptyMembers DEF Founding
<1> QED BY <1>1, <1>2 DEF CalmInv

\* The refinement of AddressBook: how it starts, ...
LEMMA BookStarts == Init => Book!Init
BY DEF Init, Book!Init, Book!Empty, Empty, Book!NoAddr, NoAddr

\* ... what a step does while the lobby is there, ...
LEMMA BookKept ==
  ASSUME IInv, IInv', NEW n \in Node, \A x \in Node \ {n} : saved'[x] = saved[x],
         lobby.members # {}, lobby'.members # {}, FilesHonoured'
  PROVE  Book!Keep(n)
<1> DEFINE held == [m \in Node |-> saved[m][m]]
<1>1. \A x \in Node : saved'[x][x] \in {NoAddr, lobby'.data[x]}
  BY DEF FilesHonoured
<1>2. held' \in {[held EXCEPT ![n] = lobby'.data[n]], [held EXCEPT ![n] = NoAddr]}
  <2>1. held' = [held EXCEPT ![n] = saved'[n][n]]
    OBVIOUS
  <2> HIDE DEF held
  <2> QED BY <1>1, <2>1
<1>3. lobby'.data \in Book!Roster /\ Book!WellFormed(lobby'.data)
  BY DEF IInv, SharedInv, GoodLobby, GoodRoster, WellFormed, Members, Roster, NoAddr,
         Book!Roster, Book!WellFormed, Book!Members, Book!NoAddr
<1>4. Book!Honours(lobby'.data, held')
  BY <1>1 DEF Book!Honours, Book!Members, Book!NoAddr, NoAddr
<1> QED BY <1>2, <1>3, <1>4 DEF Book!Keep, Book!NoAddr, NoAddr

\* ... and one after which nobody is in it; ...
LEMMA BookEnds ==
  ASSUME NEW n \in Node, \A x \in Node \ {n} : saved'[x] = saved[x],
         lobby' = GoneLobby, saved'[n][n] \in {saved[n][n], NoAddr}
  PROVE  Book!Dissolve(n)
<1> DEFINE held == [m \in Node |-> saved[m][m]]
<1>1. held' \in {held, [held EXCEPT ![n] = NoAddr]}
  <2>1. held' = [held EXCEPT ![n] = saved'[n][n]]
    OBVIOUS
  <2>2. held[n] = saved[n][n] /\ held = [held EXCEPT ![n] = held[n]]
    OBVIOUS
  <2> HIDE DEF held
  <2> QED BY <2>1, <2>2
<1>2. lobby'.members = {} /\ lobby'.data = Book!Empty
  BY DEF GoneLobby, Empty, Book!Empty, NoAddr, Book!NoAddr
<1> QED BY <1>1, <1>2 DEF Book!Dissolve, Book!NoAddr, NoAddr

\* ... every step is one of the two.
LEMMA BookSteps ==
  ASSUME Calm
  PROVE  CalmInv /\ CalmInv' /\ FilesHonoured' /\ [Next]_vars => [Book!Next]_(Book!bookVars)
<1> SUFFICES ASSUME CalmInv, CalmInv', FilesHonoured', [Next]_vars
             PROVE  [Book!Next]_(Book!bookVars)
  OBVIOUS
<1>1. CASE UNCHANGED vars
  BY <1>1 DEF vars, Book!bookVars
<1>2. CASE Next
  <2>1. PICK n \in Node : Tick(n) \/ Event(n)
    BY <1>2 DEF Next
  <2>2. Around /\ IInv /\ IInv' /\ Places'
    BY DEF CalmInv, Around
  <2>3. \A x \in Node \ {n} : saved'[x] = saved[x]
    BY <2>1, <2>2, OthersSaved
  <2>4. CASE lobby.members # {} /\ lobby'.members # {}
    <3>1. Book!Keep(n)
      BY <2>2, <2>3, <2>4, BookKept
    <3> QED BY <3>1 DEF Book!Next
  <2>5. CASE lobby'.members = {}
    <3>1. lobby' = GoneLobby
      BY <2>2, <2>5 DEF Places
    <3>2. saved'[n][n] \in {saved[n][n], NoAddr}
      <4>1. CASE lobby.members = {}
        BY <2>1, <2>2, <4>1, GoneOnly, GoneCalm, EmptyMembers
      <4>2. CASE Founding
        BY <2>1, <2>2, <2>5, <4>2, FoundingOnly, FoundingCalm DEF Running
      <4>3. CASE Running
        BY <2>1, <2>2, <2>5, <4>3, LastSaves
      <4> QED BY <4>1, <4>2, <4>3 DEF CalmInv
    <3>3. Book!Dissolve(n)
      BY <2>3, <3>1, <3>2, BookEnds
    <3> QED BY <3>3 DEF Book!Next
  <2>6. CASE lobby.members = {} /\ lobby'.members # {}
    BY <2>1, <2>2, <2>6, GoneOnly, GoneCalm
  <2> QED BY <2>4, <2>5, <2>6
<1> QED BY <1>1, <1>2

-----------------------------------------------------------------------------
\* No two PCs ever claim one address - in a session, or in the state file with
\* which they come back - however many PCs and addresses there are, whoever
\* coordinates, hands the lobby on, is denied, goes offline or leaves, links
\* that drop and clocks that run out included: as long as Steam is there, no
\* app is killed, PCs keep up with the lobby, and a user that left joins anew
\* only when the others have forgotten it (network.py, _admit, _take_roster
\* and announce_leave; controller.py, go_offline and leave_network).
THEOREM AddressesStayApart ==
  ASSUME Calm
  PROVE  Spec /\ Orderly => []AddressesApart
BY CalmInvariance, CalmApart, PTL

\* In the same conditions the PCs, their messages, the owners that follow each
\* other and the state files together keep the promise of roster.py: a member
\* keeps its address, online or offline, until its user leaves the network.
THEOREM NetworkKeepsPromise ==
  ASSUME Calm
  PROVE  Spec /\ Orderly => PromiseKept
<1>1. Init => Book!Init
  BY BookStarts
<1>2. Spec /\ Orderly => []CalmInv
  BY CalmInvariance
<1>3. CalmInv => FilesHonoured
  BY CalmHonours
<1>4. CalmInv /\ CalmInv' /\ FilesHonoured' /\ [Next]_vars => [Book!Next]_(Book!bookVars)
  BY BookSteps
<1> QED BY <1>1, <1>2, <1>3, <1>4, PTL DEF Spec, PromiseKept, Book!Spec
=============================================================================

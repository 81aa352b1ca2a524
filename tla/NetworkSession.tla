--------------------------- MODULE NetworkSession ---------------------------
(***************************************************************************)
(* What the NetworkSession of one PC (app/network.py) does with a message, *)
(* in a tick, and when it announces that it leaves.  Each operator takes   *)
(* and returns a view, so that a tick can apply several of them in the     *)
(* order of the code.  Clocks are abstracted: a timeout is an argument.    *)
(***************************************************************************)
EXTENDS RosterData, Sequences

CONSTANT MaxFailures   \* MAX_FAILURES

ASSUME MaxFailuresAssumption == MaxFailures \in Nat

Pairs == {{a, b} : a, b \in Node} \ {{a} : a \in Node}

Message ==
  [kind : {"auth"}, code : BOOLEAN, addr : Addr \cup {NoAddr}]
    \cup [kind : {"accepted"}, code : BOOLEAN, addr : {NoAddr}]
    \cup [kind : {"denied", "leave"}, code : {FALSE}, addr : {NoAddr}]

Auth(code, wanted) == [kind |-> "auth", code |-> code, addr |-> wanted]
Accepted(code) == [kind |-> "accepted", code |-> code, addr |-> NoAddr]
Denied == [kind |-> "denied", code |-> FALSE, addr |-> NoAddr]
Leave == [kind |-> "leave", code |-> FALSE, addr |-> NoAddr]

(***************************************************************************)
(* "code" abstracts the text: TRUE is the network's code.  "refused" keeps *)
(* what the controller tells apart: a member the network does not know     *)
(* ("denied") and a network that cannot answer now ("unavailable").        *)
(***************************************************************************)
Session == [coord : Node \cup {NoNode}, roster : Roster, known : Roster,
            trusted : SUBSET Node, left : SUBSET Node, blocked : SUBSET Node,
            code : BOOLEAN, authSent : Node \cup {NoNode},
            refused : {"", "denied", "unavailable"}, failures : [Node -> Nat]]

Blank == [coord |-> NoNode, roster |-> Empty, known |-> Empty,
          trusted |-> {}, left |-> {}, blocked |-> {},
          code |-> FALSE, authSent |-> NoNode,
          refused |-> "", failures |-> [m \in Node |-> 0]]

Lobby == [members : SUBSET Node, owner : Node \cup {NoNode}, data : Roster]

\* Steam destroys a lobby, metadata included, when its last member leaves.
GoneLobby == [members |-> {}, owner |-> NoNode, data |-> Empty]

-----------------------------------------------------------------------------
(***************************************************************************)
(* A view w is the session s of one PC with the lobby, connections and     *)
(* channels it acts on, and whether that PC can reach Steam (on).          *)
(***************************************************************************)
Channels == [Node -> [Node -> Seq(Message)]]

WorldView == [s : Session, lobby : Lobby, conn : SUBSET Pairs, chan : Channels,
              on : BOOLEAN]

Joined(s, n) == s.roster[n] # NoAddr
IsCoordinator(s, n) == Joined(s, n) /\ s.coord = n

NewSession(n, known, code) ==
  [Blank EXCEPT !.known = known, !.trusted = Members(known), !.code = code,
                !.roster = IF Members(known) = {n} THEN known ELSE Empty]

ConnectedPeers(w, n) == {m \in Node : {n, m} \in w.conn}

Send(w, n, to, msg) ==
  [w EXCEPT !.chan[n] = [m \in Node |-> IF m \in to THEN Append(@[m], msg) ELSE @[m]]]

\* Only the owner can write metadata, and only while Steam is reachable.
CanWrite(w, n) == w.on /\ n \in w.lobby.members /\ w.lobby.owner = n

Publish(w, n) ==
  IF CanWrite(w, n) THEN [w EXCEPT !.lobby.data = w.s.roster] ELSE w

\* Mutant of TakeRoster: the address of this PC is not compared.
TakeAnyRoster(s, n, writer, text) ==
  IF writer \in s.trusted /\ text # Empty /\ text # s.roster /\ WellFormed(text)
  THEN [s EXCEPT !.left = (@ \ (Members(text) \ Members(s.roster))) \cap Members(text),
                 !.roster = text, !.trusted = @ \cup Members(text)]
  ELSE s

\* _take_roster(): only from a writer this PC trusts, and only a text that
\* leaves its own address alone.
TakeRoster(s, n, writer, text) ==
  LET fits == WellFormed(text) /\ (Joined(s, n) => text[n] = s.roster[n])
  IN IF writer \in s.trusted /\ text # Empty /\ text # s.roster /\ fits
     THEN [s EXCEPT !.left = (@ \ (Members(text) \ Members(s.roster)))
                               \cap Members(text),
                    !.roster = text,
                    !.trusted = @ \cup Members(text)]
     ELSE s

\* _sync() of a PC that can read the lobby.
Follow(s, n, lob) ==
  LET now == [s EXCEPT !.coord = lob.owner]
      taken == TakeRoster(now, n, lob.owner, lob.data)
  IN IF lob.owner = n /\ Joined(s, n)
     THEN IF s.coord # n THEN TakeRoster(now, n, s.coord, lob.data) ELSE now
     ELSE IF lob.owner = n /\ ~Joined(taken, n) /\ Joined([s EXCEPT !.roster = s.known], n)
                /\ lob.data = Empty
     THEN [taken EXCEPT !.roster = s.known]
     ELSE taken

\* A PC that is cut off from Steam, or out of the lobby, learns nothing.
Sync(w, n) ==
  IF w.on /\ n \in w.lobby.members THEN [w EXCEPT !.s = Follow(@, n, w.lobby)] ELSE w

\* _deny() to each guest: the reply lingers, the connection is closed on
\* purpose and this side does not connect again.
Deny(w, n, guests) ==
  [Send(w, n, guests \cap ConnectedPeers(w, n), Denied)
     EXCEPT !.conn = {p \in @ : ~ \E g \in guests : p = {n, g}},
            !.s.blocked = @ \cup (guests \cap w.lobby.members)]

Accept(w, n, guest) ==
  Send(w, n, {guest} \cap ConnectedPeers(w, n), Accepted(w.s.code))

\* Mutants of Admit: the guest's code is not compared; failures are counted
\* down.
AdmitAnybody(w, n, guest, msg) ==
  IF w.s.roster[guest] # NoAddr THEN Accept(w, n, guest)
  ELSE IF Full(w.s.roster, guest) THEN Deny(w, n, {guest})
  ELSE Accept(Publish([w EXCEPT !.s.roster = Assign(@, guest, msg.addr),
                                !.s.left = @ \ {guest},
                                !.s.trusted = @ \cup {guest}], n), n, guest)

AdmitCountDown(w, n, guest, msg) ==
  IF w.s.roster[guest] # NoAddr THEN Accept(w, n, guest)
  ELSE IF ~(w.s.code /\ msg.code)
  THEN Deny([w EXCEPT !.s.failures[guest] = @ - 1], n, {guest})
  ELSE IF Full(w.s.roster, guest) THEN Deny(w, n, {guest})
  ELSE Accept(Publish([w EXCEPT !.s.roster = Assign(@, guest, msg.addr),
                                !.s.left = @ \ {guest},
                                !.s.trusted = @ \cup {guest}], n), n, guest)

\* _admit(), run by the coordinator for an AUTH.
Admit(w, n, guest, msg) ==
  LET s == w.s
      tooMany == s.failures[guest] >= MaxFailures
      rightCode == s.code /\ msg.code
      admitted == [w EXCEPT !.s.roster = Assign(@, guest, msg.addr),
                            !.s.left = @ \ {guest},
                            !.s.trusted = @ \cup {guest}]
  IN IF s.roster[guest] # NoAddr THEN Accept(w, n, guest)
     ELSE IF tooMany THEN Deny(w, n, {guest})
     ELSE IF ~rightCode
          THEN Deny([w EXCEPT !.s.failures[guest] = @ + 1], n, {guest})
     ELSE IF Full(s.roster, guest) THEN Deny(w, n, {guest})
     ELSE Accept(Publish(admitted, n), n, guest)

\* _message(), for the messages that change state.
Handle(w, n, from, msg) ==
  LET s == w.s
      answer == from = s.coord /\ ~IsCoordinator(s, n)
  IN CASE msg.kind = "leave" ->
            IF from \in Members(s.roster) THEN [w EXCEPT !.s.left = @ \cup {from}] ELSE w
       [] msg.kind = "auth" ->
            IF IsCoordinator(s, n) THEN Admit(w, n, from, msg) ELSE w
       [] msg.kind = "accepted" ->  \* parse_message() drops one without a code
            IF answer /\ msg.code
            THEN [w EXCEPT !.s.trusted = @ \cup {from}, !.s.code = TRUE] ELSE w
       [] msg.kind = "denied" ->
            IF answer /\ ~Joined(s, n) THEN [w EXCEPT !.s.refused = "denied"] ELSE w

\* Mutants of Coordinate: users that left stay in the roster; users that are
\* offline are taken out, too; the roster is not published.
CoordinateKeepingAll(w, n, silent) == Deny(Publish(w, n), n, silent)

CoordinateOnline(w, n, silent) ==
  LET gone == (w.s.left \ {n}) \cup (Node \ w.lobby.members)
  IN Deny(Publish([w EXCEPT !.s.roster = Without(@, gone)], n), n, silent)

CoordinateQuietly(w, n, silent) ==
  Deny([w EXCEPT !.s.roster = Without(@, w.s.left \ {n})], n, silent)

\* _coordinate(); "silent" are the guests it waited for too long.
Coordinate(w, n, silent) ==
  Deny(Publish([w EXCEPT !.s.roster = Without(@, w.s.left \ {n})], n), n, silent)

\* Mutants of HandOff: waiting for a member instead of giving up; keeping the
\* lobby.
HandOffWaiting(w, n) ==
  LET online == Members(w.lobby.data) \cap (w.lobby.members \ {n})
  IN IF online # {} /\ CanWrite(w, n) THEN [w EXCEPT !.lobby.owner = Lowest(online)] ELSE w

HandOffNever(w, n) ==
  IF Members(w.lobby.data) \cap (w.lobby.members \ {n}) = {}
  THEN [w EXCEPT !.s.refused = "unavailable"] ELSE w

\* _hand_off(): owner of the lobby without being a member of the network.
HandOff(w, n) ==
  LET online == Members(w.lobby.data) \cap (w.lobby.members \ {n})
  IN IF online = {} THEN [w EXCEPT !.s.refused = "unavailable"]
     ELSE IF CanWrite(w, n) THEN [w EXCEPT !.lobby.owner = Lowest(online)]
     ELSE w

\* _member_checks(); "late" is AUTH_TIMEOUT having passed.
MemberChecks(w, n, late) ==
  LET s == w.s
      ask == s.coord # NoNode /\ s.authSent # s.coord
      idle == s.refused # "" \/ Joined(s, n)
  IN IF ~idle /\ ask /\ s.coord \in ConnectedPeers(w, n)
     THEN [Send(w, n, {s.coord}, Auth(s.code, s.known[n])) EXCEPT !.s.authSent = s.coord]
     ELSE IF ~idle /\ ~ask /\ s.authSent # NoNode /\ late
     THEN [w EXCEPT !.s.refused = "unavailable"]
     ELSE w

\* Mutant of Told: the owner waits for somebody to tell, too.
ToldByPeer(w, n) == w.s.coord \in ConnectedPeers(w, n)

\* announce_leave(): whether the network is told, and what that does.
Told(w, n) ==
  \/ w.s.coord = n
  \/ w.s.coord \in ConnectedPeers(w, n)

Announce(w, n) ==
  IF IsCoordinator(w.s, n)
  THEN Send(Publish([w EXCEPT !.s.roster = Without(@, {n})], n),
            n, ConnectedPeers(w, n), Leave)
  ELSE IF w.s.coord # n /\ w.s.coord \in ConnectedPeers(w, n)
  THEN Send(w, n, ConnectedPeers(w, n), Leave)
  ELSE w
=============================================================================

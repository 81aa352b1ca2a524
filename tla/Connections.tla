---------------------------- MODULE Connections ----------------------------
(***************************************************************************)
(* The LobbySession (steam/session.py) of two PCs and the Steam            *)
(* connections between them: who connects, accepting, replacing, closing,  *)
(* reconnecting.  Everything in a LobbySession is per peer, so that two    *)
(* PCs show it.  Unlike in Coordination a connection has two ends, each    *)
(* with a handle, that learn of each other's end by callbacks.             *)
(***************************************************************************)
EXTENDS Integers, Sequences

CONSTANTS
  Node,      \* the two PCs; their SteamIDs are numbers
  MaxLink,   \* bound: connections that exist at one time
  MaxBatch,  \* max_messages of SteamClient.receive_messages
  Torn,      \* the PCs whose member list may be read while Steam updates it
  Limit      \* bound: Limit[what][n], how often it may happen at PC n

ASSUME NodeAssumption == Node \subseteq Nat /\ \E p, q \in Node : p < q /\ Node = {p, q}
ASSUME MaxLinkAssumption == MaxLink \in Nat
ASSUME TornAssumption == Torn \subseteq Node
ASSUME MaxBatchAssumption == MaxBatch \in Nat \ {0}

Other(p) == CHOOSE q \in Node : q # p
Initiates(p) == p < Other(p)

Handle == 1..MaxLink
NoHandle == 0

What == {"enter", "fail", "deny", "outage", "send"}

Peer == [known : BOOLEAN, link : Handle \cup {NoHandle}, connected : BOOLEAN,
         ended : BOOLEAN, retry : {"never", "later", "due"}]

NewPeer == [known |-> TRUE, link |-> NoHandle, connected |-> FALSE,
            ended |-> FALSE, retry |-> "never"]
NoPeer == [NewPeer EXCEPT !.known = FALSE]

Session == [on : BOOLEAN, peer : Peer, unsettled : BOOLEAN, paused : BOOLEAN,
            drained : Seq(Nat)]
NoSession == [on |-> FALSE, peer |-> NoPeer, unsettled |-> FALSE, paused |-> FALSE,
              drained |-> <<>>]

\* The state of a connection at one end, as Steam has it.
End == {"none", "connecting", "accepted", "connected", "ended", "closed"}
Live == {"connecting", "accepted", "connected"}

Link == [end : [Node -> End], linger : SUBSET Node,
         flight : [Node -> Seq(Nat)], inbox : [Node -> Seq(Nat)]]
NoLink == [end |-> [p \in Node |-> "none"], linger |-> {},
           flight |-> [p \in Node |-> <<>>], inbox |-> [p \in Node |-> <<>>]]

LobbyUpdate == [kind |-> "lobby", link |-> NoHandle]
Event == {LobbyUpdate} \cup [kind : {"incoming", "connected", "ended"}, link : Handle]

VARIABLES
  lobby,   \* who is in the lobby, as Steam's servers have it
  copy,    \* the members each PC's Steam client knows; {} while mid-update
  sess,    \* each PC's LobbySession
  link,    \* Steam's connections
  events,  \* callbacks each PC has yet to take
  got,     \* the messages process() gave out, per receiver
  used     \* how often each bounded thing has happened

vars == <<lobby, copy, sess, link, events, got, used>>

TypeOK ==
  /\ lobby \subseteq Node
  /\ copy \in [Node -> SUBSET Node]
  /\ sess \in [Node -> Session]
  /\ \A p \in Node : sess[p].peer.connected => sess[p].peer.link # NoHandle
  /\ link \in [Handle -> Link]
  /\ events \in [Node -> Seq(Event)]
  /\ got \in [Node -> Seq(Nat)]
  /\ used \in [What -> [Node -> Nat]]

Init ==
  /\ lobby = {}
  /\ copy = [p \in Node |-> {}]
  /\ sess = [p \in Node |-> NoSession]
  /\ link = [l \in Handle |-> NoLink]
  /\ events = [p \in Node |-> <<>>]
  /\ got = [p \in Node |-> <<>>]
  /\ used = [w \in What |-> [p \in Node |-> 0]]

Spend(what, p) ==
  /\ used[what][p] < Limit[what][p]
  /\ used' = [used EXCEPT ![what][p] = @ + 1]

-----------------------------------------------------------------------------
(***************************************************************************)
(* What a session does, on a view v of it and of the connections.          *)
(***************************************************************************)
View(p) == [s |-> sess[p], link |-> link]

FirstBatch(q) == SubSeq(q, 1, IF Len(q) < MaxBatch THEN Len(q) ELSE MaxBatch)
AfterBatch(q) == SubSeq(q, Len(FirstBatch(q)) + 1, Len(q))

\* CloseConnection: what was not read, or sent without linger, is dropped.
Shut(c, p, linger) ==
  [c EXCEPT !.end[p] = "closed", !.linger = IF linger THEN @ \cup {p} ELSE @,
            !.inbox[p] = <<>>, !.flight[p] = <<>>]

CloseHandle(links, p, l, linger) ==
  [links EXCEPT ![l] = IF @.end[Other(p)] \in {"none", "closed"} THEN NoLink
                       ELSE Shut(@, p, linger)]

\* Mutant of Close: the connection is closed without reading it first.
CloseAtOnce(v, p, linger) ==
  [s |-> [v.s EXCEPT !.peer = [@ EXCEPT !.link = NoHandle, !.connected = FALSE,
                                        !.ended = TRUE, !.retry = "never"]],
   link |-> IF v.s.peer.link = NoHandle THEN v.link
            ELSE CloseHandle(v.link, p, v.s.peer.link, linger)]

\* _close(), which takes what arrived before it closes.
Close(v, p, linger) ==
  LET peer == v.s.peer IN
  [s |-> [v.s EXCEPT
            !.drained = IF peer.connected THEN @ \o FirstBatch(v.link[peer.link].inbox[p]) ELSE @,
            !.peer = [@ EXCEPT !.link = NoHandle, !.connected = FALSE,
                               !.ended = TRUE, !.retry = "never"]],
   link |-> IF peer.link = NoHandle THEN v.link
            ELSE CloseHandle(v.link, p, peer.link, linger)]

\* update_members(): a list without this PC says nothing.
UpdateMembers(v, p, members) ==
  LET read == [v EXCEPT !.s.unsettled = FALSE] IN
  IF p \notin members THEN [v EXCEPT !.s.unsettled = TRUE]
  ELSE IF Other(p) \in members /\ ~v.s.peer.known THEN [read EXCEPT !.s.peer = NewPeer]
  ELSE IF Other(p) \notin members /\ v.s.peer.known
       THEN [Close(read, p, FALSE) EXCEPT !.s.peer = NoPeer]
  ELSE read

\* Mutant of AcceptFrom: the new connection is accepted beside the old one.
AcceptBeside(v, p, l) ==
  LET w == IF v.s.peer.known THEN v ELSE UpdateMembers(v, p, copy[p])
  IN IF ~w.s.peer.known \/ Initiates(p) \/ w.link[l].end[p] # "connecting"
     THEN [w EXCEPT !.link = CloseHandle(@, p, l, FALSE)]
     ELSE [w EXCEPT !.link[l].end[p] = "accepted",
                    !.s.peer.link = IF @ = NoHandle THEN l ELSE @,
                    !.s.peer.ended = FALSE, !.s.peer.retry = "never"]

\* Mutant of AcceptFrom: a connection that is not accepted is left alone.
AcceptOrIgnore(v, p, l) ==
  LET w == IF v.s.peer.known THEN v ELSE UpdateMembers(v, p, copy[p])
      r == IF w.s.peer.link = NoHandle THEN w ELSE Close(w, p, FALSE)
  IN IF ~w.s.peer.known \/ Initiates(p) \/ r.link[l].end[p] # "connecting" THEN w
     ELSE [r EXCEPT !.link[l].end[p] = "accepted",
                    !.s.peer.link = l, !.s.peer.ended = FALSE, !.s.peer.retry = "never"]

\* _accept(), for the connection l; accept_connection() fails when it is over.
AcceptFrom(v, p, l) ==
  LET w == IF v.s.peer.known THEN v ELSE UpdateMembers(v, p, copy[p])
      r == IF w.s.peer.link = NoHandle THEN w ELSE Close(w, p, FALSE)
  IN IF ~w.s.peer.known \/ Initiates(p)
     THEN [w EXCEPT !.link = CloseHandle(@, p, l, FALSE)]
     ELSE IF r.link[l].end[p] # "connecting"
     THEN [r EXCEPT !.link = CloseHandle(@, p, l, FALSE)]
     ELSE [r EXCEPT !.link[l].end[p] = "accepted",
                    !.s.peer.link = l, !.s.peer.ended = FALSE, !.s.peer.retry = "never"]

\* _connection_changed(), for a connection that is no peer's and for one that is.
StrayChanged(v, p, e) ==
  CASE e.kind = "incoming" -> AcceptFrom(v, p, e.link)
    [] e.kind = "ended" -> [v EXCEPT !.link = CloseHandle(@, p, e.link, FALSE)]
    [] OTHER -> v

PeerChanged(v, p, e) ==
  CASE e.kind = "connected" -> [v EXCEPT !.s.peer.connected = TRUE]
    [] e.kind = "ended" -> [Close(v, p, FALSE) EXCEPT !.s.peer.retry = "later"]
    [] OTHER -> v

Handled(v, p, e) ==
  IF e.kind = "lobby" THEN UpdateMembers(v, p, copy[p])
  ELSE IF v.s.peer.link = e.link THEN PeerChanged(v, p, e)
  ELSE StrayChanged(v, p, e)

\* A handle that is free, and that no callback is about any more.
Unused(links) ==
  {l \in Handle : links[l] = NoLink /\ \A p \in Node : \A i \in DOMAIN events[p] : events[p][i].link # l}

\* Mutant of ShouldConnect: a connection that ended is not tried again.
ShouldConnectOnce(s, p) ==
  ~s.paused /\ s.peer.known /\ Initiates(p) /\ s.peer.link = NoHandle /\ ~s.peer.ended

ShouldConnect(s, p) ==
  /\ ~s.paused /\ s.peer.known /\ Initiates(p) /\ s.peer.link = NoHandle
  /\ s.peer.ended => s.peer.retry = "due"

\* _connect()
Connect(v, p) ==
  IF ShouldConnect(v.s, p)
  THEN {[s |-> [v.s EXCEPT !.peer = [NewPeer EXCEPT !.link = l]],
         link |-> [v.link EXCEPT ![l] = [NoLink EXCEPT !.end[p] = "connecting"]]] :
          l \in {m \in Unused(v.link) : \A k \in Unused(v.link) : m <= k}}
  ELSE {v}

\* _receive()
Received(v, p) ==
  IF v.s.peer.connected THEN FirstBatch(v.link[v.s.peer.link].inbox[p]) ELSE <<>>

Emptied(v, p) ==
  IF v.s.peer.connected
  THEN [v EXCEPT !.link[v.s.peer.link].inbox[p] = AfterBatch(@)]
  ELSE v

-----------------------------------------------------------------------------
(***************************************************************************)
(* A tick: take the callbacks there are and handle them in order, look at  *)
(* the members again if need be, connect, and receive.  What Steam does    *)
(* while the tick runs it could as well have done before or after.         *)
(***************************************************************************)
Callbacks(p) ==
  LET after[i \in 0..Len(events[p])] ==
        IF i = 0 THEN {View(p)} ELSE {Handled(v, p, events[p][i]) : v \in after[i - 1]}
  IN after[Len(events[p])]

Settled(v, p) == IF v.s.unsettled THEN UpdateMembers(v, p, copy[p]) ELSE v

\* Mutant of Process: what was drained stays for the next tick, too.
ProcessAgain(p) ==
  /\ sess[p].on
  /\ \E v \in UNION {Connect(w, p) : w \in {Settled(c, p) : c \in Callbacks(p)}} :
       /\ got' = [got EXCEPT ![p] = @ \o v.s.drained \o Received(v, p)]
       /\ sess' = [sess EXCEPT ![p] = v.s]
       /\ link' = Emptied(v, p).link
  /\ events' = [events EXCEPT ![p] = <<>>]
  /\ UNCHANGED <<lobby, copy, used>>

Process(p) ==
  /\ sess[p].on
  /\ \E v \in UNION {Connect(w, p) : w \in {Settled(c, p) : c \in Callbacks(p)}} :
       /\ got' = [got EXCEPT ![p] = @ \o v.s.drained \o Received(v, p)]
       /\ sess' = [sess EXCEPT ![p] = [v.s EXCEPT !.drained = <<>>]]
       /\ link' = Emptied(v, p).link
  /\ events' = [events EXCEPT ![p] = <<>>]
  /\ UNCHANGED <<lobby, copy, used>>

\* RECONNECT_DELAY has passed.
RetryDue(p) ==
  /\ sess[p].peer.retry = "later"
  /\ sess' = [sess EXCEPT ![p].peer.retry = "due"]
  /\ UNCHANGED <<lobby, copy, link, events, got, used>>

\* GetLobbyMembers right after the lobby came to have these members.
Lists(members, p) == IF p \in Torn THEN {members, {}} ELSE {members}

(***************************************************************************)
(* What NetworkSession and the controller ask of it, between two ticks.    *)
(***************************************************************************)
Enter(p) ==
  /\ ~sess[p].on /\ Spend("enter", p)
  /\ lobby' = lobby \cup {p}
  /\ copy' \in {[copy EXCEPT ![p] = c] : c \in Lists(lobby', p)}
  /\ sess' = [sess EXCEPT ![p] =
       UpdateMembers([s |-> [NoSession EXCEPT !.on = TRUE], link |-> link], p, copy'[p]).s]
  /\ UNCHANGED <<link, events, got>>

\* close(), closing the listen socket, and leaving the lobby.
Leave(p) ==
  /\ sess[p].on
  /\ lobby' = lobby \ {p}
  /\ copy' = [copy EXCEPT ![p] = {}]
  /\ sess' = [sess EXCEPT ![p] = NoSession]
  /\ \E linger \in BOOLEAN :
       link' = [l \in Handle |->
                  IF link[l].end[p] \in {"none", "closed"} THEN link[l]
                  ELSE CloseHandle(link, p, l, linger)[l]]
  /\ events' = [events EXCEPT ![p] = <<>>]
  /\ UNCHANGED <<got, used>>

\* How many messages PC p has sent: their numbers.
Sent(p) == used["send"][p] + used["deny"][p]

\* SendMessageToConnection; Steam takes nothing for a connection that is over.
Put(p) ==
  LET l == sess[p].peer.link IN
  IF link[l].end[p] = "connected"
  THEN [link EXCEPT ![l].flight[Other(p)] = Append(@, Sent(p) + 1)]
  ELSE link

\* send()
Send(p) ==
  /\ sess[p].on /\ sess[p].peer.connected
  /\ Spend("send", p)
  /\ link' = Put(p)
  /\ UNCHANGED <<lobby, copy, sess, events, got>>

\* Mutant of Deny: the peer still counts as connected.
DenyStillUp(p) ==
  /\ sess[p].on /\ sess[p].peer.connected
  /\ Spend("deny", p)
  /\ LET v == Close([s |-> sess[p], link |-> Put(p)], p, TRUE) IN
       /\ sess' = [sess EXCEPT ![p] = [v.s EXCEPT !.peer.connected = TRUE]]
       /\ link' = v.link
  /\ UNCHANGED <<lobby, copy, events, got>>

\* A message that says why, and disconnect() (NetworkSession._deny).
Deny(p) ==
  /\ sess[p].on /\ sess[p].peer.connected
  /\ Spend("deny", p)
  /\ LET v == Close([s |-> sess[p], link |-> Put(p)], p, TRUE) IN
       /\ sess' = [sess EXCEPT ![p] = v.s]
       /\ link' = v.link
  /\ UNCHANGED <<lobby, copy, events, got>>

\* pause(): the PC lost its connection to Steam, which may take it out of the lobby.
Pause(p) ==
  /\ sess[p].on /\ ~sess[p].paused
  /\ Spend("outage", p)
  /\ sess' = [sess EXCEPT ![p].paused = TRUE]
  /\ lobby' \in {lobby, lobby \ {p}}
  /\ UNCHANGED <<copy, link, events, got>>

\* resume(): back in the lobby.
Resume(p) ==
  /\ sess[p].paused
  /\ lobby' = lobby \cup {p}
  /\ copy' \in {[copy EXCEPT ![p] = c] : c \in Lists(lobby', p)}
  /\ LET v == UpdateMembers([View(p) EXCEPT !.s.paused = FALSE], p, copy'[p]) IN
       /\ sess' = [sess EXCEPT ![p] =
                     [v.s EXCEPT !.peer.retry = IF @ = "never" THEN @ ELSE "due"]]
       /\ link' = v.link
  /\ UNCHANGED <<events, got, used>>

-----------------------------------------------------------------------------
(***************************************************************************)
(* Steam.                                                                  *)
(***************************************************************************)
Post(p, kind, l) == events' = [events EXCEPT ![p] = Append(@, [kind |-> kind, link |-> l])]

\* LobbyChatUpdate_t; the client's list may still be mid-update.
Renew(p) ==
  /\ sess[p].on /\ p \in lobby /\ copy[p] \notin {lobby, {}}
  /\ copy' \in {[copy EXCEPT ![p] = c] : c \in Lists(lobby, p)}
  /\ Post(p, "lobby", NoHandle)
  /\ UNCHANGED <<lobby, sess, link, got, used>>

Settle(p) ==
  /\ sess[p].on /\ p \in lobby /\ copy[p] = {}
  /\ copy' = [copy EXCEPT ![p] = lobby]
  /\ UNCHANGED <<lobby, sess, link, events, got, used>>

\* The connection reaches the listen socket of the other side.
Incoming(l, p) ==
  /\ link[l].end[p] = "none" /\ link[l].end[Other(p)] = "connecting" /\ sess[p].on
  /\ link' = [link EXCEPT ![l].end[p] = "connecting"]
  /\ Post(p, "incoming", l)
  /\ UNCHANGED <<lobby, copy, sess, got, used>>

Establish(l) ==
  /\ \E p \in Node : link[l].end[p] = "accepted" /\ link[l].end[Other(p)] = "connecting"
  /\ link' = [link EXCEPT ![l].end = [p \in Node |-> "connected"]]
  /\ events' = [p \in Node |-> Append(events[p], [kind |-> "connected", link |-> l])]
  /\ UNCHANGED <<lobby, copy, sess, got, used>>

Arrive(l, p) ==
  /\ link[l].end[p] = "connected" /\ link[l].flight[p] # <<>>
  /\ link' = [link EXCEPT ![l].flight[p] = Tail(@),
                          ![l].inbox[p] = Append(@, Head(link[l].flight[p]))]
  /\ UNCHANGED <<lobby, copy, sess, events, got, used>>

Ends(l, p) ==
  /\ link' = [link EXCEPT ![l].end[p] = "ended", ![l].flight[p] = <<>>]
  /\ Post(p, "ended", l)
  /\ UNCHANGED <<lobby, copy, sess, got>>

\* PROBLEM_DETECTED_LOCALLY
Fail(l, p) ==
  /\ link[l].end[p] \in Live
  /\ Spend("fail", p)
  /\ Ends(l, p)

\* CLOSED_BY_PEER, or nobody listens there.  What was sent before a close
\* with linger comes first.
PeerGone(l, p) ==
  /\ link[l].end[p] \in Live
  /\ \/ link[l].end[Other(p)] \in {"ended", "closed"}
     \/ link[l].end[Other(p)] = "none" /\ ~sess[Other(p)].on
  /\ Other(p) \in link[l].linger => link[l].flight[p] = <<>>
  /\ Ends(l, p) /\ UNCHANGED used

Transport ==
  \E l \in Handle :
     \/ Establish(l)
     \/ \E p \in Node : Incoming(l, p) \/ Arrive(l, p) \/ PeerGone(l, p)

MemberLists == \E p \in Node : Renew(p) \/ Settle(p)

Next ==
  \/ \E p \in Node :
       \/ Process(p) \/ RetryDue(p)
       \/ Enter(p) \/ Leave(p) \/ Deny(p) \/ Send(p) \/ Pause(p) \/ Resume(p)
       \/ \E l \in Handle : Fail(l, p)
  \/ Transport \/ MemberLists

Spec == Init /\ [][Next]_vars

\* A Qt timer ticks while the app runs, RECONNECT_DELAY runs on, and Steam
\* gets on with its connections and its member lists.
Fairness ==
  /\ \A p \in Node : WF_vars(Process(p)) /\ WF_vars(RetryDue(p))
  /\ WF_vars(Transport) /\ WF_vars(MemberLists)

FairSpec == Spec /\ Fairness

-----------------------------------------------------------------------------
(***************************************************************************)
(* No connection handle is forgotten: one that is open at a PC belongs to  *)
(* its session's peer, or a callback about it is still to be handled: one  *)
(* that is rejected, replaced, or over is closed (session.py:165-217).     *)
(***************************************************************************)
NoLostHandle ==
  \A p \in Node, l \in Handle :
    link[l].end[p] \notin {"none", "closed"} =>
      \/ sess[p].on /\ sess[p].peer.link = l
      \/ \E i \in DOMAIN events[p] : events[p][i].link = l

(***************************************************************************)
(* "so none is ever doubled" (session.py:resume): when both PCs count on   *)
(* a connection, it is the same one, however often either end broke and    *)
(* was replaced.                                                           *)
(***************************************************************************)
SameConnection ==
  (\A p \in Node : sess[p].peer.connected) =>
     \A p \in Node : sess[p].peer.link = sess[Other(p)].peer.link

(***************************************************************************)
(* Messages come out in the order they were sent, each at most once, also  *)
(* across connections: what is taken from an old connection as it is       *)
(* closed comes before what the new one brings.                            *)
(***************************************************************************)
InOrder ==
  \A p \in Node : \A i, j \in DOMAIN got[p] : i < j => got[p][i] < got[p][j]

(***************************************************************************)
(* Two members that stay in the lobby come to be connected again, whatever *)
(* broke, unless the side that connects closed on purpose.                 *)
(***************************************************************************)
Together ==
  /\ lobby = Node
  /\ \A p \in Node :
       /\ sess[p].on /\ ~sess[p].paused
       /\ Initiates(p) => used["deny"][p] = 0
Connected == \A p \in Node : sess[p].peer.connected

Reconnected == Together ~> (Connected \/ ~Together)

(***************************************************************************)
(* The last words of a PC p, sent before it closed with linger, reach the  *)
(* other one if that stays and its end does not fail.  A denial            *)
(* (network.py:503) does, since p stays in the lobby meanwhile; a farewell *)
(* (controller.py:984) is followed by leaving it.                          *)
(***************************************************************************)
LastWords(p) ==
  \E l \in Handle :
    /\ link[l].end[p] = "closed" /\ p \in link[l].linger
    /\ link[l].end[Other(p)] = "connected"
    /\ \E i \in DOMAIN link[l].flight[Other(p)] :
         link[l].flight[Other(p)][i] = Sent(p)

Heard(p) ==
  \/ \E i \in DOMAIN got[Other(p)] : got[Other(p)][i] = Sent(p)
  \/ ~sess[Other(p)].on \/ used["fail"][Other(p)] > 0

DenialHeard == \A p \in Node : LastWords(p) ~> (Heard(p) \/ p \notin lobby)

FarewellHeard == \A p \in Node : LastWords(p) ~> Heard(p)

=============================================================================

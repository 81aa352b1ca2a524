---------------------------- MODULE Coordination ----------------------------
(***************************************************************************)
(* A SteamVirtualLAN network as its PCs see it together: a NetworkSession  *)
(* on every PC, the part of AppController (app/controller.py) that opens,  *)
(* suspends and closes the session and saves the roster, the connections   *)
(* LobbySession (steam/session.py) keeps between the PCs, and the Steam    *)
(* lobby they share.                                                       *)
(*                                                                         *)
(* One tick of a PC is a sequence of steps: Receive takes one message, and *)
(* the tick ends with one of the *Tick actions (follow the lobby, do the   *)
(* coordinator's or the member's work, and what the controller makes of    *)
(* the result).  Other PCs do not move inside a tick ("turn"), but the app *)
(* may crash there.                                                        *)
(***************************************************************************)
EXTENDS NetworkSession, FiniteSets

CONSTANTS
  Creator,  \* the PC that creates the network
  Invited,  \* the PCs whose user has the right access code
  Limit,    \* bounds on what may happen to each PC, by kind
  MaxQueue, \* bound on the messages a PC has not read yet from another
  Prompt    \* TRUE: lobby data and owner change only with the other PCs in step

Kinds == {"enter", "outage", "crash", "drop", "late"}

ASSUME CreatorAssumption == Creator \in Invited /\ Invited \subseteq Node
ASSUME LimitAssumption == Limit \in [Kinds -> [Node -> Nat]]
ASSUME MaxQueueAssumption == MaxQueue \in Nat
ASSUME PromptAssumption == Prompt \in BOOLEAN

VARIABLES
  lobby,    \* Steam's lobby: its members, its owner, the roster in its metadata
  conn,     \* the pairs of PCs whose connection is up
  chan,     \* chan[m][n]: reliable messages from m that n has not read yet
  mode,     \* what the controller of each PC is doing
  session,  \* the NetworkSession of each PC; Blank when there is none
  saved,    \* the roster in each PC's state file; Empty when it is in no network
  logged,   \* ISteamUser::BLoggedOn of each PC
  turn,     \* the PC in the middle of a tick, or NoNode
  used      \* how much of Limit is used up

vars == <<lobby, conn, chan, mode, session, saved, logged, turn, used>>

Pending == {"join", "rejoin", "goodbye"}     \* a JoinLobby call is under way
Live == {"online", "suspended", "farewell"}  \* there is a NetworkSession

\* "retry": restoring a connection that was lost before there was a session.
Mode == {"out", "retry"} \cup Pending \cup Live

TypeOK ==
  /\ lobby \in Lobby
  /\ conn \subseteq Pairs
  /\ chan \in Channels
  /\ mode \in [Node -> Mode]
  /\ session \in [Node -> Session]
  /\ saved \in [Node -> Roster]
  /\ logged \in [Node -> BOOLEAN]
  /\ turn \in Node \cup {NoNode}
  /\ used \in [Kinds -> [Node -> Nat]]

View(n) == [s |-> session[n], lobby |-> lobby, conn |-> conn, chan |-> chan,
            on |-> logged[n]]

Spend(kind, n) ==
  /\ used[kind][n] < Limit[kind][n]
  /\ used' = [used EXCEPT ![kind][n] = @ + 1]

\* A timeout passes in this tick, or not.
Timeout(late, n) == IF late THEN Spend("late", n) ELSE UNCHANGED used

\* create_lobby() has just succeeded on Creator's PC: its first tick is due.
Init ==
  LET first == [Empty EXCEPT ![Creator] = Lowest(Addr)] IN
  /\ lobby = [members |-> {Creator}, owner |-> Creator, data |-> Empty]
  /\ conn = {}
  /\ chan = [m \in Node |-> [n \in Node |-> <<>>]]
  /\ mode = [n \in Node |-> IF n = Creator THEN "online" ELSE "out"]
  /\ session = [n \in Node |->
       IF n = Creator THEN [NewSession(n, first, TRUE) EXCEPT !.coord = n] ELSE Blank]
  /\ saved = [n \in Node |-> Empty]
  /\ logged = [n \in Node |-> TRUE]
  /\ turn = Creator
  /\ used = [k \in Kinds |-> [n \in Node |-> 0]]

-----------------------------------------------------------------------------
(***************************************************************************)
(* Leaving the lobby and closing the session.                              *)
(***************************************************************************)

\* Whoever Steam may make the owner once n is out of the lobby: anybody.
Heirs(n, lob) ==
  IF lob.owner = n /\ lob.members # {n} THEN lob.members \ {n} ELSE {lob.owner}

OutOf(lob, n, heir) ==
  IF n \notin lob.members THEN lob
  ELSE IF lob.members = {n} THEN GoneLobby
  ELSE [lob EXCEPT !.members = @ \ {n}, !.owner = heir]

\* The links of n go down, and what n had sent some of the others is lost.
Cut(w, n, lost) ==
  [w EXCEPT !.conn = {p \in @ : n \notin p},
            !.chan = [a \in Node |-> [b \in Node |->
                        IF b = n \/ (a = n /\ b \in lost) THEN <<>> ELSE @[a][b]]]]

Show(w) == lobby' = w.lobby /\ conn' = w.conn /\ chan' = w.chan

\* Others forget that they closed the connection to a peer that left.
Unblock(ses, n) == [m \in Node |-> [ses[m] EXCEPT !.blocked = @ \ {n}]]

\* _close_network(): without a connection to Steam the lobby is not told.
CloseNetwork(w, n, linger) ==
  \E heir \in Heirs(n, w.lobby), lost \in {{}, IF linger THEN {} ELSE ConnectedPeers(w, n)} :
    LET cut == Cut(w, n, lost) IN
    /\ Show(IF w.on THEN [cut EXCEPT !.lobby = OutOf(@, n, heir)] ELSE cut)
    /\ session' = Unblock([session EXCEPT ![n] = Blank], n)
    /\ mode' = [mode EXCEPT ![n] = "out"]

\* _abandon(), without a session: the lobby that a JoinLobby call still gets
\* the PC into is left when the call is answered (that is SteamDrops).
Abandon(n) ==
  /\ mode' = [mode EXCEPT ![n] = "out"]
  /\ session' = [session EXCEPT ![n] = Blank]
  /\ UNCHANGED <<lobby, conn, chan>>

\* _abandon() and _close_network(), whichever there is something to do for.
GoOut(n) ==
  IF mode[n] \in Live THEN CloseNetwork(View(n), n, FALSE) ELSE Abandon(n)

KeepOpen(w, n, as) ==
  /\ Show(w)
  /\ session' = [session EXCEPT ![n] = w.s]
  /\ mode' = [mode EXCEPT ![n] = as]

-----------------------------------------------------------------------------
(***************************************************************************)
(* A tick.                                                                 *)
(***************************************************************************)

\* A PC that lost Steam does not tick on as if nothing had happened: the
\* controller looks first.  A new member is not watched before it is admitted.
Ticks(n) ==
  /\ turn \in {NoNode, n}
  /\ mode[n] = "farewell" \/ (mode[n] = "online" /\ (logged[n] \/ saved[n] = Empty))

\* A suspended session only reads its messages, and only until the PC finds
\* itself back in the lobby: _watch_connection() looks before the messages.
OnHold(n) ==
  turn = NoNode /\ mode[n] = "suspended" /\ ~(logged[n] /\ n \in lobby.members)

\* LobbySession.process() hands over one message.
Receive(n) ==
  /\ Ticks(n) \/ OnHold(n)
  /\ \E from \in Node :
       /\ chan[from][n] # <<>>
       /\ \E taken \in {[View(n) EXCEPT !.chan[from][n] = Tail(@)]} :
              \E w \in {Handle(taken, n, from, Head(chan[from][n]))} :
              Show(w) /\ session' = [session EXCEPT ![n] = w.s]
  /\ turn' = IF mode[n] = "suspended" THEN NoNode ELSE n
  /\ UNCHANGED <<mode, saved, logged, used>>

\* _farewell(): close once the network is told, or when time is up.
Farewell(w, n, late) ==
  IF Told(w, n) \/ late THEN CloseNetwork(Announce(w, n), n, TRUE)
  ELSE KeepOpen(w, n, "farewell")

\* _check_network() and _refused().
CheckNetwork(w, n) ==
  IF Joined(w.s, n)
  THEN KeepOpen(w, n, "online") /\ saved' = [saved EXCEPT ![n] = w.s.roster]
  ELSE IF w.s.refused = "" THEN KeepOpen(w, n, "online") /\ UNCHANGED saved
  ELSE /\ CloseNetwork(w, n, FALSE)
       /\ saved' = IF w.s.refused = "denied" THEN [saved EXCEPT ![n] = Empty] ELSE saved

\* process() drains a connection when it sees it closed.  That may take a
\* while; with Prompt it is the first tick after the other side closed it.
Drained(n) == \A m \in Node : {m, n} \in conn \/ chan[m][n] = <<>>

\* (Choosing from a singleton names a value, as LET does; TLC then computes
\* it once also within ENABLED, which the fairness conditions need.)
EndTick(result, n, late) == \E w \in {result} :
  /\ Prompt => Drained(n)
  /\ IF mode[n] = "online" THEN CheckNetwork(w, n)
     ELSE Farewell(w, n, late) /\ UNCHANGED saved
  /\ turn' = NoNode
  /\ UNCHANGED logged

\* Connected without being a member: they have yet to present a code.  With
\* Prompt, a PC that is about to do so is not too late.
Waiting(w, n) ==
  {m \in ConnectedPeers(w, n) \ Members(Without(w.s.roster, w.s.left)) :
     Prompt => mode[m] # "online" \/ Joined(session[m], m)}

CoordinatorTick(n) ==
  \E w \in {Sync(View(n), n)} :
  /\ Ticks(n)
  /\ IsCoordinator(w.s, n)
  /\ \E silent \in SUBSET Waiting(w, n) :
       Timeout(silent # {}, n) /\ EndTick(Coordinate(w, n, silent), n, FALSE)

HandOffTick(n) ==
  \E w \in {Sync(View(n), n)} :
  /\ Ticks(n)
  /\ w.s.coord = n /\ ~Joined(w.s, n)
  /\ EndTick(HandOff(w, n), n, FALSE)
  /\ UNCHANGED used

\* "late": AUTH_TIMEOUT, or FAREWELL_TIMEOUT while saying goodbye, is over.
MemberTick(n, late) ==
  \E w \in {Sync(View(n), n)} : \E checked \in {MemberChecks(w, n, late)} :
     /\ Ticks(n)
     /\ w.s.coord # n
     /\ late => IF mode[n] = "farewell" THEN ~Told(w, n)
                ELSE checked.s.refused # w.s.refused
     /\ Timeout(late, n)
     /\ EndTick(checked, n, late)

-----------------------------------------------------------------------------
(***************************************************************************)
(* Going online: JoinLobby is asked, Steam lets the PC in, and the result  *)
(* reaches it later.                                                       *)
(***************************************************************************)
EnterLobby(n) ==
  /\ logged[n] /\ lobby.members # {}
  /\ lobby' = [lobby EXCEPT !.members = @ \cup {n}]

\* join() or go_online().
JoinLobby(n) ==
  /\ turn = NoNode /\ mode[n] = "out"
  /\ Spend("enter", n)
  /\ EnterLobby(n)
  /\ mode' = [mode EXCEPT ![n] = IF saved[n] = Empty THEN "join" ELSE "rejoin"]
  /\ UNCHANGED <<conn, chan, session, saved, logged, turn>>

\* go_online() without Steam: the connection has to be restored first.
WaitForSteam(n) ==
  /\ turn = NoNode /\ mode[n] = "out" /\ saved[n] # Empty /\ ~logged[n]
  /\ Spend("enter", n)
  /\ mode' = [mode EXCEPT ![n] = "retry"]
  /\ UNCHANGED <<lobby, conn, chan, session, saved, logged, turn>>

\* _finish(): the session starts, and the tick goes on.
JoinResult(n) ==
  /\ turn = NoNode /\ mode[n] \in Pending \cup {"retry"} /\ logged[n] /\ n \in lobby.members
  /\ LET new == CASE mode[n] = "join" -> NewSession(n, Empty, n \in Invited)
                  [] mode[n] \in {"rejoin", "retry"} -> NewSession(n, saved[n], TRUE)
                  [] mode[n] = "goodbye" -> NewSession(n, session[n].known, TRUE)
     IN session' = [session EXCEPT ![n] = Follow(new, n, lobby)]
  /\ mode' = [mode EXCEPT ![n] = IF @ = "goodbye" THEN "farewell" ELSE "online"]
  /\ turn' = n
  /\ UNCHANGED <<lobby, conn, chan, saved, logged, used>>

\* _call_failed(): Steam took the PC out again before the call was answered.
\* A PC that was going back online keeps trying.
JoinFailed(n) ==
  /\ turn = NoNode /\ mode[n] \in Pending /\ n \notin lobby.members
  /\ mode' = [mode EXCEPT ![n] = IF @ = "rejoin" THEN "retry" ELSE "out"]
  /\ session' = [session EXCEPT ![n] = Blank]
  /\ UNCHANGED <<lobby, conn, chan, saved, logged, turn, used>>

\* _forget_gone_network(): Steam says the lobby does not exist.
NetworkGone(n) ==
  /\ turn = NoNode /\ mode[n] \in {"out", "retry", "suspended"} /\ saved[n] # Empty
  /\ logged[n] /\ lobby.members = {}
  /\ GoOut(n)
  /\ saved' = [saved EXCEPT ![n] = Empty]
  /\ UNCHANGED <<logged, turn, used>>

-----------------------------------------------------------------------------
(***************************************************************************)
(* What the user does.                                                     *)
(***************************************************************************)

\* go_offline() and shutdown(); for a PC that is not admitted yet also
\* leave_network().  A farewell that is cut short saves nothing.
GoOffline(n) ==
  /\ turn = NoNode /\ mode[n] # "out"
  /\ GoOut(n)
  /\ saved' = IF Joined(session[n], n) /\ mode[n] # "farewell"
              THEN [saved EXCEPT ![n] = session[n].roster] ELSE saved
  /\ UNCHANGED <<logged, turn, used>>

\* leave_network() while online: announced at once if possible.
LeaveOnline(n) ==
  /\ turn = NoNode /\ mode[n] = "online"
  /\ Joined(session[n], n) \/ saved[n] # Empty
  /\ Farewell(View(n), n, FALSE)
  /\ saved' = [saved EXCEPT ![n] = Empty]
  /\ UNCHANGED <<logged, turn, used>>

\* leave_network() while restoring: there is no way to tell the network.
LeaveSuspended(n) ==
  /\ turn = NoNode /\ mode[n] \in {"suspended", "retry"}
  /\ GoOut(n)
  /\ saved' = [saved EXCEPT ![n] = Empty]
  /\ UNCHANGED <<logged, turn, used>>

\* leave_network() while offline or on the way back online: into the lobby
\* only to say goodbye.  _leaving is kept as the "known" of the next session.
LeaveOffline(n) ==
  /\ turn = NoNode /\ saved[n] # Empty
  /\ \/ mode[n] = "rejoin" /\ UNCHANGED <<lobby, used>>
     \/ mode[n] = "out" /\ Spend("enter", n) /\ EnterLobby(n)
  /\ mode' = [mode EXCEPT ![n] = "goodbye"]
  /\ session' = [session EXCEPT ![n] = [Blank EXCEPT !.known = saved[n]]]
  /\ saved' = [saved EXCEPT ![n] = Empty]
  /\ UNCHANGED <<conn, chan, logged, turn>>

\* leave_network() while offline without Steam: nobody can be told.
LeaveUnheard(n) ==
  /\ turn = NoNode /\ mode[n] = "out" /\ saved[n] # Empty /\ ~logged[n]
  /\ saved' = [saved EXCEPT ![n] = Empty]
  /\ UNCHANGED <<lobby, conn, chan, mode, session, logged, turn, used>>

-----------------------------------------------------------------------------
(***************************************************************************)
(* Losing Steam and getting back.                                          *)
(***************************************************************************)
LogOff(n) ==
  /\ turn = NoNode /\ logged[n]
  /\ Spend("outage", n)
  /\ logged' = [logged EXCEPT ![n] = FALSE]
  /\ UNCHANGED <<lobby, conn, chan, mode, session, saved, turn>>

\* Even a short loss is noticed before the next tick does anything else, so
\* a watched PC is suspended before Steam is back.
LogOn(n) ==
  /\ turn = NoNode /\ ~logged[n] /\ ~(mode[n] = "online" /\ saved[n] # Empty)
  /\ logged' = [logged EXCEPT ![n] = TRUE]
  /\ UNCHANGED <<lobby, conn, chan, mode, session, saved, turn, used>>

\* _lose_connection().
LoseConnection(n) ==
  /\ turn = NoNode /\ mode[n] = "online" /\ saved[n] # Empty /\ ~logged[n]
  /\ mode' = [mode EXCEPT ![n] = "suspended"]
  /\ UNCHANGED <<lobby, conn, chan, session, saved, logged, turn, used>>

\* Steam takes out of the lobby a PC it lost, whose app is gone, or whose call
\* was abandoned, and makes whoever it likes the owner.
SteamDrops(n) ==
  /\ turn = NoNode /\ n \in lobby.members
  /\ ~logged[n] \/ mode[n] = "out"
  /\ \E heir \in Heirs(n, lobby), lost \in {{}, IF logged[n] THEN {} ELSE Node} :
       /\ conn' = {p \in conn : n \notin p}
       /\ chan' = IF lost = {} THEN chan ELSE Cut(View(n), n, lost).chan
       /\ lobby' = OutOf(lobby, n, heir)
  /\ session' = Unblock(session, n)
  /\ UNCHANGED <<mode, saved, logged, turn, used>>

\* _watch_connection(): Steam is back, the lobby has to be entered again.
RejoinLobby(n) ==
  /\ turn = NoNode /\ mode[n] \in {"suspended", "retry"} /\ n \notin lobby.members
  /\ EnterLobby(n)
  /\ UNCHANGED <<conn, chan, mode, session, saved, logged, turn, used>>

\* Mutant of Restored: only the owner of the lobby finds itself back in it.
RestoredOwner(n) ==
  /\ turn = NoNode /\ mode[n] = "suspended" /\ logged[n] /\ lobby.owner = n
  /\ mode' = [mode EXCEPT ![n] = "online"]
  /\ turn' = n
  /\ UNCHANGED <<lobby, conn, chan, session, saved, logged, used>>

\* _restored() and resume(): the same session carries on, in the same tick.
Restored(n) ==
  /\ turn = NoNode /\ mode[n] = "suspended" /\ logged[n] /\ n \in lobby.members
  /\ mode' = [mode EXCEPT ![n] = "online"]
  /\ session' = IF Joined(session[n], n) THEN session
                ELSE [session EXCEPT ![n].refused = "", ![n].authSent = NoNode]
  /\ turn' = n
  /\ UNCHANGED <<lobby, conn, chan, saved, logged, used>>

\* _give_up(): RESTORE_TIMEOUT.
GiveUp(n) ==
  /\ turn = NoNode /\ mode[n] \in {"suspended", "retry"} /\ logged[n]
  /\ n \notin lobby.members
  /\ GoOut(n)
  /\ UNCHANGED <<saved, logged, turn, used>>

\* The app is killed: at any point, in a tick too.  Steam still has it in the
\* lobby until SteamDrops.
Crash(n) ==
  /\ turn \in {NoNode, n} /\ mode[n] # "out"
  /\ Spend("crash", n)
  /\ \E lost \in {{}, Node} : Show(Cut(View(n), n, lost))
  /\ mode' = [mode EXCEPT ![n] = "out"]
  /\ session' = [session EXCEPT ![n] = Blank]
  /\ turn' = NoNode
  /\ UNCHANGED <<saved, logged>>

-----------------------------------------------------------------------------
(***************************************************************************)
(* Connections: the lower SteamID connects, except to a peer it closed the *)
(* connection to on purpose, and not while it is suspended.                *)
(***************************************************************************)
Connect(n) ==
  /\ turn = NoNode /\ mode[n] \in Live \ {"suspended"}
  /\ \E m \in lobby.members :
       /\ n < m /\ n \in lobby.members /\ mode[m] \in Live
       /\ {n, m} \notin conn /\ m \notin session[n].blocked
       /\ chan[n][m] = <<>> /\ chan[m][n] = <<>>  \* the old connection is drained
       /\ logged[n] /\ logged[m]
       /\ conn' = conn \cup {{n, m}}
  /\ UNCHANGED <<lobby, chan, mode, session, saved, logged, turn, used>>

LinkDrops(n) ==
  /\ turn = NoNode
  /\ Spend("drop", n)
  /\ \E m \in Node, kept \in BOOLEAN :
       /\ n < m /\ {n, m} \in conn
       /\ conn' = conn \ {{n, m}}
       /\ chan' = IF kept THEN chan
                  ELSE [chan EXCEPT ![n][m] = <<>>, ![m][n] = <<>>]
  /\ UNCHANGED <<lobby, mode, session, saved, logged, turn>>

-----------------------------------------------------------------------------
\* A PC that is online has nothing to catch up with: nothing new in the lobby,
\* nothing unread from a closed connection.
InStep(m) ==
  mode[m] \in {"online", "farewell"} => Sync(View(m), m) = View(m) /\ Drained(m)

\* With Prompt, no PC starts a tick or changes the lobby while another one has
\* to catch up.
Timely(n) ==
  /\ Prompt /\ turn = NoNode
  /\ turn' # NoNode \/ <<lobby.owner, lobby.data>>' # <<lobby.owner, lobby.data>>
  => \A m \in Node \ {n} : InStep(m)

Bounded == \A m, n \in Node : Len(chan'[m][n]) <= MaxQueue

Allowed(n) == Timely(n) /\ Bounded

\* A tick in which n catches up itself need not wait for the others.
MayTick(n) == (Timely(n) \/ ~InStep(n)) /\ Bounded

Tick(n) ==
  \/ Receive(n)
  \/ CoordinatorTick(n) \/ HandOffTick(n) \/ \E late \in BOOLEAN : MemberTick(n, late)

Event(n) ==
  \/ JoinLobby(n) \/ WaitForSteam(n) \/ JoinResult(n) \/ JoinFailed(n) \/ NetworkGone(n)
  \/ GoOffline(n) \/ LeaveOnline(n) \/ LeaveSuspended(n) \/ LeaveOffline(n)
  \/ LeaveUnheard(n)
  \/ LogOff(n) \/ LogOn(n) \/ LoseConnection(n) \/ SteamDrops(n)
  \/ RejoinLobby(n) \/ Restored(n) \/ GiveUp(n) \/ Crash(n)
  \/ Connect(n) \/ LinkDrops(n)

Next == \E n \in Node : (Tick(n) /\ MayTick(n)) \/ (Event(n) /\ Allowed(n))

Spec == Init /\ [][Next]_vars

(***************************************************************************)
(* The window's timer ticks a PC for as long as the app runs, a reliable   *)
(* message is read in some tick, Steam answers its calls and takes lost    *)
(* PCs out of the lobby, and the lower SteamID keeps connecting.  A clock  *)
(* runs out for a PC that keeps waiting; another PC's tick (turn) disables *)
(* that for a moment, so this fairness is strong.  Nothing obliges a user, *)
(* an outage to end, or a crashed app to start again.                      *)
(***************************************************************************)
Recover(n) ==
  \/ LoseConnection(n) \/ RejoinLobby(n) \/ Restored(n)
  \/ mode[n] \in {"suspended", "retry"} /\ NetworkGone(n)

Fairness ==
  /\ \A n \in Node :
       /\ WF_vars(Receive(n) /\ MayTick(n))
       /\ WF_vars((CoordinatorTick(n) \/ HandOffTick(n) \/ MemberTick(n, FALSE)) /\ MayTick(n))
       /\ WF_vars((JoinResult(n) \/ JoinFailed(n)) /\ Allowed(n))
       /\ WF_vars(Recover(n) /\ Allowed(n))
       /\ WF_vars(SteamDrops(n) /\ Allowed(n))
       /\ WF_vars(Connect(n) /\ Allowed(n))
  /\ SF_vars(\E n \in Node : MemberTick(n, TRUE) /\ MayTick(n))

FairSpec == Spec /\ Fairness

-----------------------------------------------------------------------------
(***************************************************************************)
(* Safety.                                                                 *)
(***************************************************************************)

\* Wherever a roster is kept - Steam's metadata, a session, what a session
\* came back with, a state file - no two members share an address (what
\* decode() checks of a text, assign() and _take_roster() must keep true).
UniqueAddresses ==
  /\ WellFormed(lobby.data)
  /\ \A n \in Node : /\ WellFormed(session[n].roster)
                     /\ WellFormed(session[n].known)
                     /\ WellFormed(saved[n])

\* Nobody without the access code is ever a member in anybody's eyes, however
\* ownership of the lobby moves: _admit() is the only way in, and a roster is
\* only taken from an owner that is trusted (network.py, _take_roster()).
OnlyInvited ==
  /\ Members(lobby.data) \subseteq Invited
  /\ \A n \in Node : Members(session[n].roster) \cup Members(saved[n]) \subseteq Invited

\* The address a PC has now, and the one it will come back with.
Claim(n) == {session[n].roster[n], saved[n][n]} \ {NoAddr}

\* No two PCs ever claim the same address, in a session or in a state file.
AddressesApart == \A m, n \in Node : m # n => Claim(m) \cap Claim(n) = {}

\* Steam stays reachable, no app is killed, and PCs keep up with the lobby;
\* links may drop and clocks may run out.
Calm == Prompt /\ \A n \in Node : Limit["outage"][n] = 0 /\ Limit["crash"][n] = 0

Has(messages, msg) == \E i \in 1 .. Len(messages) : messages[i] = msg

\* Some PC still knows, or is about to read, that the user of n left.
Lingers(n) == \E m \in Node : n \in session[m].left \/ Has(chan[n][m], Leave)

\* A user that left comes as a new member only when that is forgotten; without
\* this, a newcomer is taken for the one that left (_left in network.py).
OrderlyStep == \A n \in Node : mode[n] = "out" /\ mode'[n] = "join" => ~Lingers(n)
Orderly == [][OrderlyStep]_vars

\* A session never changes the address of its own PC: the adapter was set up
\* with it (_take_roster() refuses a roster that does not fit).
OwnAddressStable ==
  [][\A n \in Node :
       /\ mode[n] \in {"online", "suspended"} /\ mode'[n] \in {"online", "suspended"}
       /\ Joined(session[n], n)
       => session'[n].roster[n] = session[n].roster[n]]_vars

\* The lobby's roster and the state files together keep the promise of
\* AddressBook: a member keeps its address until its user leaves.
Book == INSTANCE AddressBook WITH
  open <- lobby.members # {},
  book <- lobby.data,
  held <- [m \in Node |-> saved[m][m]]

PromiseKept == Book!Spec

\* As long as a user has not left the network, the roster in the lobby keeps
\* its address for it (roster.py).  One promise of AddressBook, for a run
\* that looks for it alone.
AddressKept ==
  [][\A m \in Node :
       lobby.data[m] # NoAddr /\ saved'[m][m] = lobby.data[m] /\ lobby'.members # {}
         => lobby'.data[m] = lobby.data[m]]_vars

\* The messages from m that n reads in this step.
Read(m, n) == {chan[m][n][i] : i \in 1 .. Len(chan[m][n]) - Len(chan'[m][n])}

\* Whoever Steam makes the owner carries on with the roster the previous one
\* left (roster.py): after the first roster, only an AUTH that is read now
\* brings a user into it, never an old copy of the new owner.
RosterCarriedOn ==
  [][\A m \in Members(lobby.data') \ Members(lobby.data) :
       lobby.data = Empty \/ \E n \in Node : \E msg \in Read(m, n) : msg.kind = "auth"]_vars

\* A user whose AUTH was just accepted stays in the network: that it left
\* before is forgotten (network.py, _admit() and _take_roster()).
AcceptedStays ==
  \A m, n \in Node :
    Accepted(TRUE) \in {chan[n][m][i] : i \in 1 .. Len(chan[n][m])}
      => m \notin session[n].left

-----------------------------------------------------------------------------
(***************************************************************************)
(* Liveness, under FairSpec.                                               *)
(***************************************************************************)

\* A PC that goes online is a member after a while, or is told why not.
NewcomerSettles ==
  \A n \in Node : mode[n] = "online" /\ ~Joined(session[n], n)
                    ~> mode[n] # "online" \/ Joined(session[n], n)

\* Leaving the network ends, whether or not the others can be told.
LeaveCompletes == \A n \in Node : mode[n] \in {"goodbye", "farewell"} ~> mode[n] = "out"

\* Every member that stays online comes to the roster the lobby has.
Agreement ==
  \A n \in Node : mode[n] = "online" /\ Joined(session[n], n)
                    ~> mode[n] # "online" \/ session[n].roster = lobby.data

\* A network somebody is in comes to have a coordinator: an owner that is no
\* member hands the lobby on, or leaves it.
Coordinated ==
  lobby.members # {} ~>
    \/ lobby.members = {}
    \/ \E n \in Node : mode[n] = "online" /\ IsCoordinator(session[n], n) /\ lobby.owner = n

\* A PC that Steam has back gets out of "Restoring connection...".
RestoreEnds ==
  \A n \in Node : mode[n] \in {"suspended", "retry"} /\ logged[n]
                    ~> mode[n] \notin {"suspended", "retry"}

\* What a member knows of a user that left, the lobby's roster comes to say
\* too, whoever coordinates then - unless that user is back meanwhile.
LeaverFreed ==
  \A m, n \in Node :
    mode[m] = "online" /\ n \in session[m].left \cap Members(session[m].roster)
      ~> n \notin Members(lobby.data) \/ mode[m] # "online" \/ mode[n] # "out"
=============================================================================

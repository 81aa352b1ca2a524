----------------------------- MODULE Controller -----------------------------
(***************************************************************************)
(* AppController (app/controller.py) of one PC and its Steam client: the   *)
(* calls under way, the session, the saved network, recovering from a lost *)
(* connection, saying goodbye, and calls given up on that Steam answers    *)
(* later.  What the session itself does is left to NetworkSession; here it *)
(* is admitted or refused at some point.                                   *)
(*                                                                         *)
(* An operator takes and returns a view [app, steam]; one with several     *)
(* possible results returns the set of them.  A tick applies the operators *)
(* in the order of _tick().                                                *)
(***************************************************************************)
CONSTANTS
  Lobby, NoLobby, \* SteamIDs of lobbies, and that of none
  Call, NoCall,   \* the calls that can be under way at one time, and none
  Slow            \* TRUE: Steam may take longer than CALL_TIMEOUT

ASSUME LobbyAssumption == NoLobby \notin Lobby
ASSUME CallAssumption == NoCall \notin Call
ASSUME SlowAssumption == Slow \in BOOLEAN

VARIABLES
  app,   \* the AppController, and the network in the state file
  steam  \* the Steam client

vars == <<app, steam>>

-----------------------------------------------------------------------------
(***************************************************************************)
(* Steam: the lobbies it has this PC in, whether it is logged on, what the *)
(* callbacks of the next tick say is lost (NoLobby: the Steam servers),    *)
(* and the calls.  A call for NoLobby is CreateLobby.  "foreign": in the   *)
(* lobby, but it is not the network that was asked for.                    *)
(***************************************************************************)
Kind == {"create", "join", "rejoin", "restore", "farewell"}
Refusal == {"gone", "denied", "failed"}
Answer == {"entered", "foreign"} \cup Refusal

CallState == [status : {"free", "asked", "answered"}, lobby : Lobby \cup {NoLobby},
              answer : Answer \cup {""}]
FreeCall == [status |-> "free", lobby |-> NoLobby, answer |-> ""]

SteamState == [inside : SUBSET Lobby, logged : BOOLEAN, lost : SUBSET (Lobby \cup {NoLobby}),
               calls : [Call -> CallState]]

Session == [lobby : Lobby \cup {NoLobby}, joined : BOOLEAN,
            refused : {"", "denied", "unavailable"}]
NoSession == [lobby |-> NoLobby, joined |-> FALSE, refused |-> ""]

Saved == [lobby : Lobby \cup {NoLobby}, online : BOOLEAN]
NoNetwork == [lobby |-> NoLobby, online |-> FALSE]

Pending == [kind : Kind \cup {"none"}, call : Call \cup {NoCall}]
NoPending == [kind |-> "none", call |-> NoCall]

\* CALL_TIMEOUT, RESTORE_TIMEOUT and FAREWELL_TIMEOUT, once they have passed.
Clock == {"call", "restore", "farewell"}

AppState == [running : BOOLEAN, pending : Pending, session : Session, saved : Saved,
             farewell : BOOLEAN, link : {"none", "reconnecting", "restoring"},
             helper : {"none", "up", "failed"}, listening : BOOLEAN,
             abandoned : SUBSET Call, late : SUBSET Clock]

NotRunning(saved) ==
  [running |-> FALSE, pending |-> NoPending, session |-> NoSession, saved |-> saved,
   farewell |-> FALSE, link |-> "none", helper |-> "none", listening |-> FALSE,
   abandoned |-> {}, late |-> {}]

TypeOK == app \in AppState /\ steam \in SteamState

Init ==
  /\ app = NotRunning(NoNetwork)
  /\ steam = [inside |-> {}, logged |-> TRUE, lost |-> {},
              calls |-> [c \in Call |-> FreeCall]]

InSession(w) == w.app.session.lobby # NoLobby
HasNetwork(w) == w.app.saved.lobby # NoLobby
Waiting(w) == w.app.pending.kind # "none"

\* presence(): the first that applies.
PresenceOf(w) ==
  IF ~w.app.running THEN "closed"
  ELSE IF w.app.farewell THEN "none"
  ELSE IF w.app.link # "none" THEN "restoring"
  ELSE IF InSession(w) THEN (IF w.app.session.joined THEN "online" ELSE "connecting")
  ELSE IF w.app.pending.kind = "rejoin" THEN "connecting"
  ELSE IF HasNetwork(w) THEN "offline" ELSE "none"

-----------------------------------------------------------------------------
(***************************************************************************)
(* Cleaning up.                                                            *)
(***************************************************************************)

\* Mutant of CloseAt: the listen socket stays open.
CloseAtListening(w, lobby) ==
  [w EXCEPT !.app.session = NoSession, !.app.helper = "none", !.steam.inside = @ \ {lobby}]

\* _close_network(), with _lobby_id being lobby.
CloseAt(w, lobby) ==
  [w EXCEPT !.app.session = NoSession, !.app.helper = "none", !.app.listening = FALSE,
            !.steam.inside = @ \ {lobby}]

CloseNetwork(w) == CloseAt(w, w.app.session.lobby)

\* The pending call is forgotten: it is answered, overdue, or given up on.
DropCall(w) == [w EXCEPT !.app.pending = NoPending, !.app.late = @ \ {"call"}]

\* Mutant of Abandon: also when there is nothing to give up.
AbandonAlways(w) ==
  [DropCall(w) EXCEPT !.app.abandoned = @ \cup {w.app.pending.call}]

\* _abandon(): a lobby the call still gets this PC into is left again.
Abandon(w) ==
  IF w.app.pending.kind \in {"none", "create"} THEN DropCall(w)
  ELSE [DropCall(w) EXCEPT !.app.abandoned = @ \cup {w.app.pending.call}]

StopRecovering(w) == [w EXCEPT !.app.link = "none", !.app.late = @ \ {"restore"}]

ForgetNetwork(w) == [w EXCEPT !.app.saved = NoNetwork]

\* _end_farewell().
EndFarewell(w) == [w EXCEPT !.app.farewell = FALSE, !.app.late = @ \ {"farewell"}]

\* _give_up().
GiveUp(w) == CloseNetwork(StopRecovering(Abandon(w)))

\* _forget_gone_network().
ForgetGone(w) == ForgetNetwork(GiveUp(w))

\* Mutant of BeOffline: a call under way goes on.
BeOfflineLater(w) ==
  CloseNetwork(StopRecovering([w EXCEPT !.app.saved.online = FALSE]))

\* go_offline() and _go_offline_with(): what a joined session knows is saved.
BeOffline(w) ==
  GiveUp(IF w.app.session.joined
         THEN [w EXCEPT !.app.saved = [lobby |-> w.app.session.lobby, online |-> FALSE]]
         ELSE [w EXCEPT !.app.saved.online = FALSE])

\* _begin_restoring(): the clock starts anew.
BeginRestoring(w) == [w EXCEPT !.app.link = "restoring", !.app.late = @ \ {"restore"}]

\* _lose_connection().
LoseConnection(w) ==
  IF w.steam.logged THEN BeginRestoring(w) ELSE [w EXCEPT !.app.link = "reconnecting"]

\* _restored() and resume().
Restored(w) ==
  LET s == w.app.session
  IN [StopRecovering(w) EXCEPT !.app.session.refused = IF s.joined THEN s.refused ELSE ""]

-----------------------------------------------------------------------------
(***************************************************************************)
(* Calls.                                                                  *)
(***************************************************************************)

\* Mutant of CallFailed: the farewell goes on after its call failed.
CallFailedFarewell(w, kind, why) ==
  CASE kind = "restore" -> IF why = "denied" THEN GiveUp(w) ELSE w
    [] kind = "rejoin" /\ why = "denied" ->
         [CloseNetwork(w) EXCEPT !.app.saved.online = FALSE]
    [] kind = "rejoin" /\ why # "denied" -> LoseConnection(CloseNetwork(w))
    [] OTHER -> CloseNetwork(w)

\* _call_failed().
CallFailed(w, kind, why) ==
  CASE kind = "restore" -> IF why = "denied" THEN GiveUp(w) ELSE w
    [] kind = "farewell" -> EndFarewell(CloseNetwork(w))
    [] kind = "rejoin" /\ why = "denied" ->
         [CloseNetwork(w) EXCEPT !.app.saved.online = FALSE]
    [] kind = "rejoin" /\ why # "denied" -> LoseConnection(CloseNetwork(w))
    [] OTHER -> CloseNetwork(w)

Free(w) == {c \in Call : w.steam.calls[c].status = "free"}

\* Asking Steam: the call is under way.
Ask(w, kind, lobby) ==
  {[w EXCEPT !.app.listening = TRUE,
             !.app.pending = [kind |-> kind, call |-> c],
             !.steam.calls[c] = [status |-> "asked", lobby |-> lobby, answer |-> ""]] :
     c \in Free(w)}

\* _start_join(); the listen socket may be open before the call fails.
StartJoin(w, kind, lobby) ==
  Ask(w, kind, lobby) \cup
    {CallFailed([w EXCEPT !.app.listening = open], kind, "failed") :
       open \in {w.app.listening, TRUE}}

\* _enter(): the adapter comes up, is still up, or cannot be started.
Enter(w, lobby, joined) ==
  LET in == [w EXCEPT !.app.session =
               [lobby |-> lobby, joined |-> joined, refused |-> ""]]
  IN IF w.app.farewell \/ w.app.helper # "none" THEN {in}
     ELSE {[in EXCEPT !.app.helper = "up"],
           IF HasNetwork(w) THEN BeOffline(in) ELSE CloseNetwork(in)}

\* In the lobby.  A session that knows only its own user is a member at once.
Entered(w, kind, lobby) ==
  CASE kind = "create" -> Enter(w, lobby, TRUE)
    [] kind = "join" -> Enter(w, lobby, FALSE)
    [] kind = "restore" /\ InSession(w) -> {Restored(w)}
    [] OTHER -> UNION {Enter(StopRecovering(w), lobby, joined) : joined \in BOOLEAN}

\* In a lobby that is not the network.
Foreign(w, kind, lobby) ==
  LET closed == CloseAt(w, lobby)
  IN CASE kind = "farewell" -> EndFarewell(closed)
       [] kind \in {"rejoin", "restore"} -> ForgetGone(closed)
       [] OTHER -> closed

\* _finish().  Out of the lobby again, a new lobby does not take its marker
\* and network ID, and those of another one can be read or not.
Finish(w, kind, call) ==
  LET outside == call.lobby \notin w.steam.inside
  IN CASE call.answer = "entered" ->
            (IF outside /\ kind = "create" THEN {} ELSE Entered(w, kind, call.lobby))
              \cup (IF outside THEN {Foreign(w, kind, call.lobby)} ELSE {})
       [] call.answer = "foreign" -> {Foreign(w, kind, call.lobby)}
       [] call.answer = "gone" /\ kind \in {"rejoin", "restore"} -> {ForgetGone(w)}
       [] OTHER -> {CallFailed(w, kind, call.answer)}

Answered(w) == {c \in Call : w.steam.calls[c].status = "answered"}

\* Calls given up on: if Steam let this PC in after all, it leaves again.
LeaveAbandoned(w) ==
  LET done == w.app.abandoned \cap Answered(w)
  IN [w EXCEPT !.app.abandoned = @ \ done,
               !.steam.inside = @ \ {w.steam.calls[c].lobby : c \in done}]

\* The callbacks are handed out once; nobody asks for the others.
Consumed(w) ==
  [w EXCEPT !.steam.calls =
     [c \in Call |-> IF @[c].status = "answered" THEN FreeCall ELSE @[c]]]

\* The pending call is answered, or takes too long.
Results(w) ==
  LET p == w.app.pending
      rest == DropCall(Consumed(w))
  IN CASE p.call \in Answered(w) -> Finish(rest, p.kind, w.steam.calls[p.call])
       [] p.call \notin Answered(w) /\ "call" \in w.app.late ->
            {CallFailed(rest, p.kind, "failed")}
       [] OTHER -> {Consumed(w)}

-----------------------------------------------------------------------------
(***************************************************************************)
(* A tick.                                                                 *)
(***************************************************************************)

\* Mutant of Restore: it never gives up.
RestoreForever(w) ==
  IF Waiting(w) THEN {w}
  ELSE IF InSession(w) /\ w.app.session.lobby \in w.steam.inside THEN {Restored(w)}
  ELSE {w} \cup StartJoin(w, "restore", w.app.saved.lobby)

\* RESTORING_NETWORK: back in the lobby, too late, or time for the next attempt.
Restore(w) ==
  IF Waiting(w) THEN {w}
  ELSE IF InSession(w) /\ w.app.session.lobby \in w.steam.inside THEN {Restored(w)}
  ELSE IF "restore" \in w.app.late THEN {GiveUp(w)}
  ELSE {w} \cup StartJoin(w, "restore", w.app.saved.lobby)

\* Mutant of Watch: only being logged off counts as a loss.
WatchLogon(w) ==
  CASE HasNetwork(w) /\ w.app.link = "none" /\ InSession(w) /\ ~w.steam.logged ->
         {LoseConnection(w)}
    [] HasNetwork(w) /\ w.app.link = "restoring" /\ ~w.steam.logged ->
         {[DropCall(w) EXCEPT !.app.link = "reconnecting"]}
    [] HasNetwork(w) /\ w.app.link # "none" /\ w.steam.logged ->
         Restore(IF w.app.link = "reconnecting" THEN BeginRestoring(w) ELSE w)
    [] OTHER -> {w}

\* _watch_connection() with _local_loss().  A lobby that a call given up on
\* here still gets this PC into is welcome.
Watch(w) ==
  LET lost == ~w.steam.logged \/ w.steam.lost \cap {NoLobby, w.app.session.lobby} # {}
  IN CASE ~HasNetwork(w) \/ (w.app.link = "none" /\ ~(InSession(w) /\ lost)) -> {w}
       [] HasNetwork(w) /\ w.app.link = "none" /\ InSession(w) /\ lost -> {LoseConnection(w)}
       [] HasNetwork(w) /\ w.app.link = "restoring" /\ ~w.steam.logged ->
            {[DropCall(w) EXCEPT !.app.link = "reconnecting"]}
       [] HasNetwork(w) /\ w.app.link = "reconnecting" /\ ~w.steam.logged -> {w}
       [] HasNetwork(w) /\ w.app.link # "none" /\ w.steam.logged ->
            Restore(IF w.app.link = "reconnecting" THEN BeginRestoring(w) ELSE w)

\* A session follows the lobby while it is in it and not on hold.
Follows(w) ==
  w.app.link = "none" /\ w.steam.logged /\ w.app.session.lobby \in w.steam.inside

\* network.process(): the user is let in or turned away, at some point.
Processed(w) ==
  LET s == w.app.session
  IN {[w EXCEPT !.app.session = [lobby |-> s.lobby, joined |-> joined, refused |-> refused]] :
        joined \in {s.joined, s.joined \/ Follows(w)},
        refused \in {s.refused} \cup (IF s.joined THEN {} ELSE {"denied", "unavailable"})}

\* _refused().
Refused(w) ==
  IF w.app.session.refused = "unavailable"
  THEN [CloseNetwork(w) EXCEPT !.app.saved.online = FALSE]
  ELSE ForgetNetwork(CloseNetwork(w))

\* Mutant of Snapshot: the network is saved as one this PC is offline in.
SnapshotOffline(w) ==
  IF w.app.session.joined
  THEN [w EXCEPT !.app.saved = [lobby |-> w.app.session.lobby, online |-> FALSE]]
  ELSE w

\* _snapshot(online=True) is saved whenever it changed.
Snapshot(w) ==
  IF w.app.session.joined
  THEN [w EXCEPT !.app.saved = [lobby |-> w.app.session.lobby, online |-> TRUE]]
  ELSE w

\* The helper has failed, and with it the adapter.
HelperGone(w) ==
  IF w.app.helper # "failed" THEN w
  ELSE IF HasNetwork(w) THEN BeOffline(w) ELSE CloseNetwork(w)

\* _check_network(), unless the session is on hold.
CheckNetwork(w) ==
  IF w.app.link # "none" THEN HelperGone(w)
  ELSE IF w.app.session.refused # "" /\ ~w.app.session.joined THEN Refused(w)
  ELSE HelperGone(Snapshot(w))

\* _farewell(): told now, too late, or again in the next tick.
Farewell(w) ==
  {EndFarewell(CloseNetwork(w))} \cup (IF "farewell" \in w.app.late THEN {} ELSE {w})

\* _go_back_online().
GoBackOnline(w) ==
  IF w.steam.logged THEN StartJoin(w, "rejoin", w.app.saved.lobby) ELSE {LoseConnection(w)}

\* Mutant of Invite: an invite into another network is followed, too.
InviteAnywhere(w) == UNION {StartJoin(w, "join", lobby) : lobby \in Lobby}

\* _handle_invites(): into a network, or into the one this user is in.
Invite(w) ==
  IF HasNetwork(w) THEN GoBackOnline([w EXCEPT !.app.saved.online = TRUE])
  ELSE UNION {StartJoin(w, "join", lobby) : lobby \in Lobby}

AfterWatch(w, invited) ==
  IF InSession(w) THEN {CheckNetwork(v) : v \in Processed(w)}
  ELSE IF invited /\ ~Waiting(w) /\ w.app.link = "none" THEN Invite(w)
  ELSE {w}

AfterResults(w, invited) ==
  IF w.app.farewell THEN IF InSession(w) THEN Farewell(w) ELSE {w}
  ELSE UNION {AfterWatch(v, invited) : v \in Watch(w)}

Become(w) == app' = w.app /\ steam' = w.steam

View == [app |-> app, steam |-> steam]

\* _tick().  "invited": the user has accepted an invite in Steam.
Tick(invited) ==
  /\ app.running
  /\ \E v \in Results(LeaveAbandoned(View)) : \E w \in AfterResults(v, invited) :
       Become([w EXCEPT !.steam.lost = {}])

-----------------------------------------------------------------------------
(***************************************************************************)
(* What the user does.                                                     *)
(***************************************************************************)
Idle == app.running /\ ~HasNetwork(View) /\ ~InSession(View) /\ ~Waiting(View)

\* create_lobby().
CreateLobby ==
  /\ Idle
  /\ \E w \in Ask(View, "create", NoLobby) \cup {CloseNetwork(View)} : Become(w)

\* join().
Join == Idle /\ \E lobby \in Lobby : \E w \in StartJoin(View, "join", lobby) : Become(w)

\* go_online().
GoOnline ==
  /\ PresenceOf(View) = "offline" /\ ~Waiting(View)
  /\ \E w \in GoBackOnline([View EXCEPT !.app.saved.online = TRUE]) : Become(w)

\* go_offline().
GoOffline ==
  /\ PresenceOf(View) \in {"connecting", "online", "restoring"}
  /\ Become(BeOffline(View))

\* leave_network().  _leaving is the network that is forgotten here.
Leaving(w) ==
  LET f == ForgetNetwork(w)
      told == [f EXCEPT !.app.helper = "none", !.app.farewell = TRUE]
  IN CASE w.app.link # "none" -> {GiveUp(f)}
       [] w.app.link = "none" /\ InSession(w) ->
            IF w.app.session.joined \/ HasNetwork(w) THEN Farewell(told) ELSE {CloseNetwork(f)}
       [] w.app.link = "none" /\ ~InSession(w) /\ Waiting(w) ->
            {[told EXCEPT !.app.pending.kind = "farewell"]}
       [] OTHER ->
            {[v EXCEPT !.app.farewell = Waiting(v)] :
               v \in StartJoin(f, "farewell", w.app.saved.lobby)}

LeaveNetwork ==
  /\ app.running /\ ~app.farewell
  /\ HasNetwork(View) \/ InSession(View)
  /\ \E w \in Leaving(View) : Become(w)

\* shutdown(); Steam takes a process that ends out of its lobbies.
Exit(saved) ==
  /\ app.running
  /\ app' = NotRunning(saved)
  /\ steam' = [steam EXCEPT !.inside = {}, !.lost = {},
                            !.calls = [c \in Call |-> FreeCall]]

Shutdown == Exit((IF app.farewell THEN View ELSE Snapshot(View)).app.saved)

Crash == Exit(app.saved)

\* start() and _restore().
Start ==
  /\ ~app.running
  /\ \E w \in {[View EXCEPT !.app.running = TRUE]} :
       \E v \in IF app.saved.online THEN GoBackOnline(w) ELSE {w} : Become(v)

-----------------------------------------------------------------------------
(***************************************************************************)
(* What happens around the controller.                                     *)
(***************************************************************************)

\* Lobbies this PC has something to do with: a new one is none of them.
Known ==
  steam.inside \cup {app.saved.lobby, app.session.lobby}
    \cup {steam.calls[c].lobby : c \in Call}

\* Steam answers a call; an answer other than a failure needs a connection.
AnswerCall(c) ==
  /\ steam.calls[c].status = "asked"
  /\ \E answer \in Answer, lobby \in Lobby :
       /\ IF steam.calls[c].lobby = NoLobby
          THEN lobby \notin Known /\ answer \in {"entered", "foreign", "failed"}
          ELSE lobby = steam.calls[c].lobby
       /\ steam.logged \/ answer = "failed"
       /\ steam' = [steam EXCEPT
            !.calls[c] = [status |-> "answered", lobby |-> lobby, answer |-> answer],
            !.inside = IF answer \in Refusal THEN @ ELSE @ \cup {lobby}]
  /\ UNCHANGED app

\* Logging off tells a running app that the servers are lost.
LogOff ==
  /\ steam.logged
  /\ steam' = [steam EXCEPT !.logged = FALSE,
                            !.lost = IF app.running THEN @ \cup {NoLobby} ELSE @]
  /\ UNCHANGED app

LogOn == ~steam.logged /\ steam' = [steam EXCEPT !.logged = TRUE] /\ UNCHANGED app

\* Steam takes this PC out of a lobby, and says so.
Removed ==
  /\ \E lobby \in steam.inside :
       steam' = [steam EXCEPT !.inside = @ \ {lobby},
                              !.lost = @ \cup {lobby}]
  /\ UNCHANGED app

\* The helper process or its adapter fails.
HelperFails ==
  app.helper = "up" /\ app' = [app EXCEPT !.helper = "failed"] /\ UNCHANGED steam

Running(clock) ==
  CASE clock = "call" -> Slow /\ Waiting(View)
    [] clock = "restore" -> app.link = "restoring"
    [] clock = "farewell" -> app.farewell

Expire(clock) ==
  /\ app.running /\ Running(clock) /\ clock \notin app.late
  /\ app' = [app EXCEPT !.late = @ \cup {clock}]
  /\ UNCHANGED steam

Next ==
  \/ Tick(FALSE) \/ Tick(TRUE) \/ CreateLobby \/ Join \/ GoOnline \/ GoOffline \/ LeaveNetwork
  \/ Shutdown \/ Crash \/ Start
  \/ LogOff \/ LogOn \/ Removed \/ HelperFails
  \/ \E c \in Call : AnswerCall(c)
  \/ \E clock \in Clock : Expire(clock)

Spec == Init /\ [][Next]_vars

(***************************************************************************)
(* The window's timer ticks for as long as the app runs, clocks run, and   *)
(* Steam answers its calls at some time, perhaps after CALL_TIMEOUT.       *)
(***************************************************************************)
Fairness ==
  /\ WF_vars(Tick(FALSE))
  /\ \A clock \in Clock : WF_vars(Expire(clock))
  /\ \A c \in Call : WF_vars(AnswerCall(c))

FairSpec == Spec /\ Fairness

-----------------------------------------------------------------------------
(***************************************************************************)
(* Properties.                                                             *)
(***************************************************************************)

\* What the user chose to be offline in starts nothing by itself ("Nothing
\* reconnects by itself until Go Online", go_offline()), whichever way the
\* controller went offline.
OfflineIsQuiet ==
  HasNetwork(View) /\ ~app.saved.online =>
    ~InSession(View) /\ ~Waiting(View) /\ app.link = "none"

\* The adapter is only up for a session that takes part, and the listen
\* socket is only open while a lobby is entered, used or restored: no path
\* through _close_network() forgets one of them.
NothingLeaks ==
  /\ app.helper # "none" => InSession(View) /\ ~app.farewell
  /\ app.listening => InSession(View) \/ Waiting(View) \/ app.link # "none"
  /\ InSession(View) => app.listening

\* "A user is either in no network, or in exactly one": the session, the
\* saved network and the lobby that is being entered are the same one.
OneNetwork ==
  LET p == app.pending IN
  /\ InSession(View) /\ HasNetwork(View) => app.session.lobby = app.saved.lobby
  /\ HasNetwork(View) /\ Waiting(View) => steam.calls[p.call].lobby = app.saved.lobby
  /\ InSession(View) /\ Waiting(View) =>
       p.kind = "restore" /\ steam.calls[p.call].lobby = app.session.lobby

\* "online: in the network's Steam lobby", as far as Steam lets the app know.
OnlineInLobby ==
  PresenceOf(View) = "online" /\ steam.logged /\ steam.lost = {}
    => app.session.lobby \in steam.inside

\* "offline: remembered as a member ... but not connected": nor in the lobby
\* of its network, unless a call given up on will make it leave again.
OfflineIsOutside ==
  PresenceOf(View) = "offline" /\ app.abandoned = {}
    => app.saved.lobby \notin steam.inside

\* The controller keeps what Presence promises.
Promise == INSTANCE Presence WITH
  net <- app.saved.lobby, wish <- app.saved.online, presence <- PresenceOf(View)

PresencePromised == Promise!Spec

\* Saying goodbye ends, whatever Steam and the others do.
FarewellEnds == app.farewell ~> ~app.farewell

\* An overdue RESTORING_NETWORK ends, when Steam stays: back in, given up, or
\* the network is gone.  (An invite accepted in that moment starts it anew.)
RestoringEnds ==
  app.link = "restoring" /\ "restore" \in app.late
    ~> "restore" \notin app.late \/ ~steam.logged
=============================================================================

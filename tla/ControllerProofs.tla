-------------------------- MODULE ControllerProofs --------------------------
(***************************************************************************)
(* What the controller keeps true, and that it keeps what Presence         *)
(* promises, with any lobbies and any number of calls under way.           *)
(***************************************************************************)
EXTENDS Controller, TLAPS

-----------------------------------------------------------------------------
\* The inductive invariant, of a view: some of it also holds between the
\* steps of a tick.

Views == [app : AppState, steam : SteamState]

\* When a call of that kind may be under way, or has just been answered.
Asked(w, kind, lobby) ==
  /\ w.app.listening
  /\ kind \in {"create", "join", "farewell"} =>
       /\ ~HasNetwork(w) /\ ~InSession(w)
       /\ w.app.link = "none" /\ w.app.helper = "none"
       /\ w.app.farewell <=> kind = "farewell"
  /\ kind \in {"rejoin", "restore"} =>
       /\ HasNetwork(w) /\ w.app.saved.online /\ ~w.app.farewell
       /\ lobby = w.app.saved.lobby
  /\ kind = "rejoin" => ~InSession(w) /\ w.app.link = "none"
  /\ kind = "restore" => w.app.link = "restoring"

\* The pending call is one of Steam's.
CallInv(w) ==
  LET p == w.app.pending IN
  IF Waiting(w)
  THEN /\ p.call \in Call /\ w.steam.calls[p.call].status # "free"
       /\ Asked(w, p.kind, w.steam.calls[p.call].lobby)
  ELSE p = NoPending /\ "call" \notin w.app.late

SteamInv(w) ==
  \A c \in Call : w.steam.calls[c].status = "answered" =>
    w.steam.calls[c].lobby \in Lobby /\ w.steam.calls[c].answer \in Answer

\* Whatever else is going on.
StateInv(w) ==
  /\ w.app.saved.online => HasNetwork(w)
  /\ HasNetwork(w) /\ ~w.app.saved.online => ~InSession(w) /\ w.app.link = "none"
  /\ w.app.helper # "none" => InSession(w) /\ ~w.app.farewell
  /\ InSession(w) => w.app.listening
  /\ InSession(w) /\ HasNetwork(w) => w.app.session.lobby = w.app.saved.lobby
  /\ w.app.farewell => ~HasNetwork(w)
  /\ w.app.link # "none" => HasNetwork(w)
  /\ w.app.session.joined => InSession(w)

Core(w) == w \in Views /\ StateInv(w) /\ CallInv(w) /\ SteamInv(w)

\* Between two steps.
Settled(w) ==
  /\ w.app.listening => InSession(w) \/ Waiting(w) \/ w.app.link # "none"
  /\ w.app.farewell => InSession(w) \/ Waiting(w)
  /\ w.app.session.joined /\ ~w.app.farewell => HasNetwork(w)
  /\ ~w.app.running => w.app = NotRunning(w.app.saved)

IInv == Core(View) /\ Settled(View)

LEMMA BecomeInv ==
  ASSUME NEW w \in Views, Become(w), Core(w), Settled(w)
  PROVE  IInv'
<1>1. View' = w
  BY DEF Become, View, Views
<1> QED BY <1>1 DEF IInv

-----------------------------------------------------------------------------
\* Every operator, field by field.

\* v is w with these fields.
AppIs(v, w, pending, session, saved, farewell, link, helper, listening, late) ==
  /\ v \in Views
  /\ v.app.running = w.app.running
  /\ v.app.pending = pending /\ v.app.session = session /\ v.app.saved = saved
  /\ v.app.farewell = farewell /\ v.app.link = link /\ v.app.helper = helper
  /\ v.app.listening = listening /\ v.app.late = late

SteamSame(v, w) == v.steam.calls = w.steam.calls /\ v.steam.logged = w.steam.logged

LEMMA Constants ==
  /\ NoSession \in Session /\ NoPending \in Pending /\ NoNetwork \in Saved
  /\ NoSession.lobby = NoLobby /\ ~NoSession.joined
  /\ NoPending.kind = "none" /\ NoPending.call = NoCall
  /\ NoNetwork.lobby = NoLobby /\ ~NoNetwork.online
BY DEF NoSession, Session, NoPending, Pending, NoNetwork, Saved

LEMMA CloseAtIs ==
  ASSUME NEW w \in Views, NEW lobby
  PROVE  /\ AppIs(CloseAt(w, lobby), w, w.app.pending, NoSession, w.app.saved,
                  w.app.farewell, w.app.link, "none", FALSE, w.app.late)
         /\ SteamSame(CloseAt(w, lobby), w)
BY Constants DEF Views, CloseAt, AppState, SteamState, AppIs, SteamSame

LEMMA DropCallIs ==
  ASSUME NEW w \in Views
  PROVE  /\ AppIs(DropCall(w), w, NoPending, w.app.session, w.app.saved,
                  w.app.farewell, w.app.link, w.app.helper, w.app.listening,
                  w.app.late \ {"call"})
         /\ SteamSame(DropCall(w), w)
BY Constants DEF Views, DropCall, AppState, SteamState, AppIs, SteamSame

LEMMA StopRecoveringIs ==
  ASSUME NEW w \in Views
  PROVE  /\ AppIs(StopRecovering(w), w, w.app.pending, w.app.session, w.app.saved,
                  w.app.farewell, "none", w.app.helper, w.app.listening,
                  w.app.late \ {"restore"})
         /\ SteamSame(StopRecovering(w), w)
BY DEF Views, StopRecovering, AppState, SteamState, AppIs, SteamSame

LEMMA ForgetNetworkIs ==
  ASSUME NEW w \in Views
  PROVE  /\ AppIs(ForgetNetwork(w), w, w.app.pending, w.app.session, NoNetwork,
                  w.app.farewell, w.app.link, w.app.helper, w.app.listening, w.app.late)
         /\ SteamSame(ForgetNetwork(w), w)
BY Constants DEF Views, ForgetNetwork, AppState, SteamState, AppIs, SteamSame

LEMMA EndFarewellIs ==
  ASSUME NEW w \in Views
  PROVE  /\ AppIs(EndFarewell(w), w, w.app.pending, w.app.session, w.app.saved,
                  FALSE, w.app.link, w.app.helper, w.app.listening,
                  w.app.late \ {"farewell"})
         /\ SteamSame(EndFarewell(w), w)
BY DEF Views, EndFarewell, AppState, SteamState, AppIs, SteamSame

\* Only a call of Steam's is given up on.
Pends(w) == Waiting(w) => w.app.pending.call \in Call

LEMMA AbandonIs ==
  ASSUME NEW w \in Views, Pends(w)
  PROVE  /\ AppIs(Abandon(w), w, NoPending, w.app.session, w.app.saved,
                  w.app.farewell, w.app.link, w.app.helper, w.app.listening,
                  w.app.late \ {"call"})
         /\ SteamSame(Abandon(w), w)
<1>1. CASE w.app.pending.kind \in {"none", "create"}
  BY <1>1, DropCallIs DEF Abandon
<1>2. CASE w.app.pending.kind \notin {"none", "create"}
  <2> DEFINE d == DropCall(w)
  <2>1. Abandon(w) = [d EXCEPT !.app.abandoned = @ \cup {w.app.pending.call}]
    BY <1>2 DEF Abandon
  <2>2. w.app.pending.call \in Call
    BY <1>2 DEF Pends, Waiting
  <2>3. /\ AppIs(d, w, NoPending, w.app.session, w.app.saved,
                  w.app.farewell, w.app.link, w.app.helper, w.app.listening,
                  w.app.late \ {"call"})
        /\ SteamSame(d, w)
    BY DropCallIs
  <2> HIDE DEF d
  <2> QED BY <2>1, <2>2, <2>3 DEF Views, AppState, SteamState, AppIs, SteamSame
<1> QED BY <1>1, <1>2

LEMMA GiveUpIs ==
  ASSUME NEW w \in Views, Pends(w)
  PROVE  /\ AppIs(GiveUp(w), w, NoPending, NoSession, w.app.saved,
                  w.app.farewell, "none", "none", FALSE,
                  w.app.late \ {"call", "restore"})
         /\ SteamSame(GiveUp(w), w)
<1> DEFINE a == Abandon(w)
           b == StopRecovering(a)
<1>1. /\ AppIs(a, w, NoPending, w.app.session, w.app.saved,
                  w.app.farewell, w.app.link, w.app.helper, w.app.listening,
                  w.app.late \ {"call"})
      /\ SteamSame(a, w)
  BY AbandonIs
<1> HIDE DEF a
<1>2. /\ AppIs(b, w, NoPending, w.app.session, w.app.saved,
               w.app.farewell, "none", w.app.helper, w.app.listening,
               w.app.late \ {"call", "restore"})
      /\ SteamSame(b, w)
  BY <1>1, StopRecoveringIs DEF AppIs, SteamSame
<1>3. GiveUp(w) = CloseAt(b, b.app.session.lobby)
  BY DEF GiveUp, CloseNetwork, a, b
<1> HIDE DEF b
<1>4. b \in Views
  BY <1>2 DEF AppIs
<1>5. /\ AppIs(GiveUp(w), b, b.app.pending, NoSession, b.app.saved,
               b.app.farewell, b.app.link, "none", FALSE, b.app.late)
      /\ SteamSame(GiveUp(w), b)
  BY <1>3, <1>4, CloseAtIs
<1> QED BY <1>2, <1>5 DEF AppIs, SteamSame

LEMMA CloseNetworkIs ==
  ASSUME NEW w \in Views
  PROVE  /\ AppIs(CloseNetwork(w), w, w.app.pending, NoSession, w.app.saved,
                  w.app.farewell, w.app.link, "none", FALSE, w.app.late)
         /\ SteamSame(CloseNetwork(w), w)
BY CloseAtIs DEF CloseNetwork

LEMMA ForgetGoneIs ==
  ASSUME NEW w \in Views, Pends(w)
  PROVE  /\ AppIs(ForgetGone(w), w, NoPending, NoSession, NoNetwork,
                  w.app.farewell, "none", "none", FALSE,
                  w.app.late \ {"call", "restore"})
         /\ SteamSame(ForgetGone(w), w)
<1> DEFINE g == GiveUp(w)
<1>1. /\ AppIs(g, w, NoPending, NoSession, w.app.saved, w.app.farewell,
               "none", "none", FALSE, w.app.late \ {"call", "restore"})
      /\ SteamSame(g, w)
  BY GiveUpIs
<1>2. ForgetGone(w) = ForgetNetwork(g)
  BY DEF ForgetGone
<1> HIDE DEF g
<1>3. g \in Views
  BY <1>1 DEF AppIs
<1>4. /\ AppIs(ForgetGone(w), g, g.app.pending, g.app.session, NoNetwork,
               g.app.farewell, g.app.link, g.app.helper, g.app.listening, g.app.late)
      /\ SteamSame(ForgetGone(w), g)
  BY <1>2, <1>3, ForgetNetworkIs
<1> QED BY <1>1, <1>4 DEF AppIs, SteamSame

\* The same with another saved network.
LEMMA SaveIs ==
  ASSUME NEW w \in Views, NEW n \in Saved
  PROVE  /\ AppIs([w EXCEPT !.app.saved = n], w, w.app.pending, w.app.session, n,
                  w.app.farewell, w.app.link, w.app.helper, w.app.listening, w.app.late)
         /\ SteamSame([w EXCEPT !.app.saved = n], w)
BY DEF Views, AppState, SteamState, AppIs, SteamSame

LEMMA WishIs ==
  ASSUME NEW w \in Views, NEW o \in BOOLEAN
  PROVE  /\ AppIs([w EXCEPT !.app.saved.online = o], w, w.app.pending, w.app.session,
                  [lobby |-> w.app.saved.lobby, online |-> o],
                  w.app.farewell, w.app.link, w.app.helper, w.app.listening, w.app.late)
         /\ SteamSame([w EXCEPT !.app.saved.online = o], w)
<1>1. w.app.saved \in Saved
  BY DEF Views, AppState
<1>2. [w.app.saved EXCEPT !.online = o] = [lobby |-> w.app.saved.lobby, online |-> o]
  BY <1>1 DEF Saved
<1>3. [lobby |-> w.app.saved.lobby, online |-> o] \in Saved
  BY <1>1 DEF Saved
<1>4. [w EXCEPT !.app.saved.online = o]
        = [w EXCEPT !.app.saved = [lobby |-> w.app.saved.lobby, online |-> o]]
  BY <1>2 DEF Views, AppState
<1> QED BY <1>3, <1>4, SaveIs

\* What being offline leaves of the saved network.
OfflineIn(w) ==
  [lobby |-> IF w.app.session.joined THEN w.app.session.lobby ELSE w.app.saved.lobby,
   online |-> FALSE]

LEMMA BeOfflineIs ==
  ASSUME NEW w \in Views, Pends(w)
  PROVE  /\ AppIs(BeOffline(w), w, NoPending, NoSession, OfflineIn(w), w.app.farewell,
                  "none", "none", FALSE, w.app.late \ {"call", "restore"})
         /\ SteamSame(BeOffline(w), w)
<1> DEFINE a == IF w.app.session.joined
                THEN [w EXCEPT !.app.saved = [lobby |-> w.app.session.lobby, online |-> FALSE]]
                ELSE [w EXCEPT !.app.saved.online = FALSE]
<1>1. /\ AppIs(a, w, w.app.pending, w.app.session, OfflineIn(w), w.app.farewell,
               w.app.link, w.app.helper, w.app.listening, w.app.late)
      /\ SteamSame(a, w)
  <2>1. CASE w.app.session.joined
    <3>1. OfflineIn(w) = [lobby |-> w.app.session.lobby, online |-> FALSE]
      BY <2>1 DEF OfflineIn
    <3>2. w.app.session.lobby \in Lobby \cup {NoLobby}
      BY DEF Views, AppState, Session
    <3>3. OfflineIn(w) \in Saved
      BY <3>1, <3>2 DEF Saved
    <3>4. a = [w EXCEPT !.app.saved = OfflineIn(w)]
      BY <2>1, <3>1
    <3> QED BY <3>3, <3>4, SaveIs
  <2>2. CASE ~w.app.session.joined
    <3>1. OfflineIn(w) = [lobby |-> w.app.saved.lobby, online |-> FALSE]
      BY <2>2 DEF OfflineIn
    <3>2. a = [w EXCEPT !.app.saved.online = FALSE]
      BY <2>2
    <3> QED BY <3>1, <3>2, WishIs
  <2> QED BY <2>1, <2>2
<1>2. BeOffline(w) = GiveUp(a)
  BY DEF BeOffline
<1> HIDE DEF a
<1>3. a \in Views /\ Pends(a)
  BY <1>1 DEF AppIs, Pends, Waiting
<1>4. /\ AppIs(BeOffline(w), a, NoPending, NoSession, a.app.saved, a.app.farewell,
               "none", "none", FALSE, a.app.late \ {"call", "restore"})
      /\ SteamSame(BeOffline(w), a)
  BY <1>2, <1>3, GiveUpIs
<1> QED BY <1>1, <1>4 DEF AppIs, SteamSame

LEMMA BeginRestoringIs ==
  ASSUME NEW w \in Views
  PROVE  /\ AppIs(BeginRestoring(w), w, w.app.pending, w.app.session, w.app.saved,
                  w.app.farewell, "restoring", w.app.helper, w.app.listening,
                  w.app.late \ {"restore"})
         /\ SteamSame(BeginRestoring(w), w)
BY DEF Views, BeginRestoring, AppState, SteamState, AppIs, SteamSame

LEMMA LoseConnectionIs ==
  ASSUME NEW w \in Views
  PROVE  /\ AppIs(LoseConnection(w), w, w.app.pending, w.app.session, w.app.saved,
                  w.app.farewell, IF w.steam.logged THEN "restoring" ELSE "reconnecting",
                  w.app.helper, w.app.listening,
                  IF w.steam.logged THEN w.app.late \ {"restore"} ELSE w.app.late)
         /\ SteamSame(LoseConnection(w), w)
<1>1. CASE w.steam.logged
  <2>1. LoseConnection(w) = BeginRestoring(w)
    BY <1>1 DEF LoseConnection
  <2> QED BY <1>1, <2>1, BeginRestoringIs
<1>2. CASE ~w.steam.logged
  <2>1. LoseConnection(w) = [w EXCEPT !.app.link = "reconnecting"]
    BY <1>2 DEF LoseConnection
  <2> QED BY <1>2, <2>1 DEF Views, AppState, SteamState, AppIs, SteamSame
<1> QED BY <1>1, <1>2

\* The same with another session.
LEMMA SessionIs ==
  ASSUME NEW w \in Views, NEW s \in Session
  PROVE  /\ AppIs([w EXCEPT !.app.session = s], w, w.app.pending, s, w.app.saved,
                  w.app.farewell, w.app.link, w.app.helper, w.app.listening, w.app.late)
         /\ SteamSame([w EXCEPT !.app.session = s], w)
BY DEF Views, AppState, SteamState, AppIs, SteamSame

LEMMA RestoredIs ==
  ASSUME NEW w \in Views
  PROVE  \E s \in Session :
           /\ s.lobby = w.app.session.lobby /\ s.joined = w.app.session.joined
           /\ AppIs(Restored(w), w, w.app.pending, s, w.app.saved, w.app.farewell,
                    "none", w.app.helper, w.app.listening, w.app.late \ {"restore"})
           /\ SteamSame(Restored(w), w)
<1> DEFINE t == w.app.session
           r == IF t.joined THEN t.refused ELSE ""
           s == [lobby |-> t.lobby, joined |-> t.joined, refused |-> r]
           a == StopRecovering(w)
<1>1. t \in Session
  BY DEF Views, AppState
<1>2. s \in Session
  <2>1. t.lobby \in Lobby \cup {NoLobby} /\ t.joined \in BOOLEAN
        /\ t.refused \in {"", "denied", "unavailable"}
    BY <1>1 DEF Session
  <2>2. (IF t.joined THEN t.refused ELSE "") \in {"", "denied", "unavailable"}
    BY <2>1
  <2> HIDE DEF t
  <2> QED BY <2>1, <2>2 DEF Session
<1>3. /\ AppIs(a, w, w.app.pending, t, w.app.saved, w.app.farewell, "none",
               w.app.helper, w.app.listening, w.app.late \ {"restore"})
      /\ SteamSame(a, w)
  BY StopRecoveringIs
<1>4. Restored(w) = [a EXCEPT !.app.session.refused = r]
  BY DEF Restored
<1>5. s = [t EXCEPT !.refused = r]
  <2> HIDE DEF t, r
  <2>1. t = [lobby |-> t.lobby, joined |-> t.joined, refused |-> t.refused]
    BY <1>1 DEF Session
  <2>2. [[lobby |-> t.lobby, joined |-> t.joined, refused |-> t.refused] EXCEPT !.refused = r]
          = [lobby |-> t.lobby, joined |-> t.joined, refused |-> r]
    OBVIOUS
  <2> QED BY <2>1, <2>2
<1>6. s.lobby = t.lobby /\ s.joined = t.joined
  OBVIOUS
<1> HIDE DEF t, r, s, a
<1>7. a \in Views /\ a.app.session = t
  BY <1>3 DEF AppIs
<1>8. Restored(w) = [a EXCEPT !.app.session = s]
  BY <1>4, <1>5, <1>7 DEF Views, AppState
<1>9. /\ AppIs(Restored(w), a, a.app.pending, s, a.app.saved, a.app.farewell, a.app.link,
               a.app.helper, a.app.listening, a.app.late)
      /\ SteamSame(Restored(w), a)
  BY <1>2, <1>7, <1>8, SessionIs
<1>10. /\ AppIs(Restored(w), w, w.app.pending, s, w.app.saved, w.app.farewell, "none",
                w.app.helper, w.app.listening, w.app.late \ {"restore"})
       /\ SteamSame(Restored(w), w)
  BY <1>3, <1>9 DEF AppIs, SteamSame
<1> QED BY <1>2, <1>6, <1>10 DEF t

LEMMA CallFailedIs ==
  ASSUME NEW w \in Views, Pends(w), NEW kind \in Kind, NEW why \in Refusal
  PROVE  LET v == CallFailed(w, kind, why) IN
         /\ SteamSame(v, w)
         /\ kind = "restore" /\ why = "denied" =>
              AppIs(v, w, NoPending, NoSession, w.app.saved, w.app.farewell,
                    "none", "none", FALSE, w.app.late \ {"call", "restore"})
         /\ kind = "restore" /\ why # "denied" => v = w
         /\ kind = "farewell" =>
              AppIs(v, w, w.app.pending, NoSession, w.app.saved, FALSE, w.app.link,
                    "none", FALSE, w.app.late \ {"farewell"})
         /\ kind = "rejoin" /\ why = "denied" =>
              AppIs(v, w, w.app.pending, NoSession,
                    [lobby |-> w.app.saved.lobby, online |-> FALSE],
                    w.app.farewell, w.app.link, "none", FALSE, w.app.late)
         /\ kind = "rejoin" /\ why # "denied" =>
              AppIs(v, w, w.app.pending, NoSession, w.app.saved, w.app.farewell,
                    IF w.steam.logged THEN "restoring" ELSE "reconnecting", "none", FALSE,
                    IF w.steam.logged THEN w.app.late \ {"restore"} ELSE w.app.late)
         /\ kind \in {"create", "join"} =>
              AppIs(v, w, w.app.pending, NoSession, w.app.saved, w.app.farewell,
                    w.app.link, "none", FALSE, w.app.late)
<1> DEFINE v == CallFailed(w, kind, why)
           c == CloseNetwork(w)
<1>1. /\ AppIs(c, w, w.app.pending, NoSession, w.app.saved, w.app.farewell,
               w.app.link, "none", FALSE, w.app.late)
      /\ SteamSame(c, w)
  BY CloseNetworkIs
<1>2. c \in Views
  BY <1>1 DEF AppIs
<1>3. CASE kind = "restore"
  <2>1. v = IF why = "denied" THEN GiveUp(w) ELSE w
    BY <1>3 DEF CallFailed
  <2> HIDE DEF v
  <2>2. CASE why = "denied"
    BY <2>1, <2>2, <1>3, GiveUpIs DEF v
  <2>3. CASE why # "denied"
    BY <2>1, <2>3, <1>3 DEF v, SteamSame
  <2> QED BY <2>2, <2>3
<1>4. CASE kind = "farewell"
  <2>1. v = EndFarewell(c)
    BY <1>4 DEF CallFailed
  <2> HIDE DEF v, c
  <2>2. /\ AppIs(v, c, c.app.pending, c.app.session, c.app.saved, FALSE, c.app.link,
                 c.app.helper, c.app.listening, c.app.late \ {"farewell"})
        /\ SteamSame(v, c)
    BY <2>1, <1>2, EndFarewellIs
  <2>3. /\ AppIs(v, w, w.app.pending, NoSession, w.app.saved, FALSE, w.app.link,
                 "none", FALSE, w.app.late \ {"farewell"})
        /\ SteamSame(v, w)
    BY <1>1, <2>2 DEF AppIs, SteamSame
  <2> QED BY <1>4, <2>3 DEF v
<1>5. CASE kind = "rejoin" /\ why = "denied"
  <2>1. v = [c EXCEPT !.app.saved.online = FALSE]
    BY <1>5 DEF CallFailed
  <2> HIDE DEF v, c
  <2>2. /\ AppIs(v, c, c.app.pending, c.app.session,
                 [lobby |-> c.app.saved.lobby, online |-> FALSE],
                 c.app.farewell, c.app.link, c.app.helper, c.app.listening, c.app.late)
        /\ SteamSame(v, c)
    BY <2>1, <1>2, WishIs
  <2>3. /\ AppIs(v, w, w.app.pending, NoSession,
                 [lobby |-> w.app.saved.lobby, online |-> FALSE],
                 w.app.farewell, w.app.link, "none", FALSE, w.app.late)
        /\ SteamSame(v, w)
    BY <1>1, <2>2 DEF AppIs, SteamSame
  <2> QED BY <1>5, <2>3 DEF v
<1>6. CASE kind = "rejoin" /\ why # "denied"
  <2>1. v = LoseConnection(c)
    BY <1>6 DEF CallFailed
  <2> HIDE DEF v, c
  <2>2. /\ AppIs(v, c, c.app.pending, c.app.session, c.app.saved, c.app.farewell,
                 IF c.steam.logged THEN "restoring" ELSE "reconnecting",
                 c.app.helper, c.app.listening,
                 IF c.steam.logged THEN c.app.late \ {"restore"} ELSE c.app.late)
        /\ SteamSame(v, c)
    BY <2>1, <1>2, LoseConnectionIs
  <2>3. /\ AppIs(v, w, w.app.pending, NoSession, w.app.saved, w.app.farewell,
                 IF w.steam.logged THEN "restoring" ELSE "reconnecting", "none", FALSE,
                 IF w.steam.logged THEN w.app.late \ {"restore"} ELSE w.app.late)
        /\ SteamSame(v, w)
    BY <1>1, <2>2 DEF AppIs, SteamSame
  <2> QED BY <1>6, <2>3 DEF v
<1>7. CASE kind \in {"create", "join"}
  <2>1. v = c
    BY <1>7 DEF CallFailed
  <2> HIDE DEF v, c
  <2> QED BY <1>1, <1>7, <2>1 DEF v
<1>8. kind \in {"create", "join", "rejoin", "restore", "farewell"}
  BY DEF Kind
<1> QED BY <1>3, <1>4, <1>5, <1>6, <1>7, <1>8

\* In the lobby: the adapter is up, or it could not be started.
EnterResult(v, w, lobby, joined) ==
  \/ \E s \in Session, h \in {w.app.helper, "up"} :
       /\ s.lobby = lobby /\ s.joined = joined
       /\ h = "up" => ~w.app.farewell \/ w.app.helper = "up"
       /\ AppIs(v, w, w.app.pending, s, w.app.saved, w.app.farewell,
                w.app.link, h, w.app.listening, w.app.late)
  \/ /\ ~w.app.farewell /\ HasNetwork(w)
     /\ AppIs(v, w, NoPending, NoSession,
              [lobby |-> IF joined THEN lobby ELSE w.app.saved.lobby, online |-> FALSE],
              w.app.farewell, "none", "none", FALSE, w.app.late \ {"call", "restore"})
  \/ /\ ~w.app.farewell /\ ~HasNetwork(w)
     /\ AppIs(v, w, w.app.pending, NoSession, w.app.saved, w.app.farewell,
              w.app.link, "none", FALSE, w.app.late)

LEMMA EnterIs ==
  ASSUME NEW w \in Views, Pends(w), NEW lobby \in Lobby, NEW joined \in BOOLEAN,
         NEW v \in Enter(w, lobby, joined)
  PROVE  SteamSame(v, w) /\ EnterResult(v, w, lobby, joined)
<1> DEFINE s == [lobby |-> lobby, joined |-> joined, refused |-> ""]
           in == [w EXCEPT !.app.session = s]
<1>1. s \in Session /\ s.lobby = lobby /\ s.joined = joined
  BY DEF Session
<1>2. v \in IF w.app.farewell \/ w.app.helper # "none" THEN {in}
            ELSE {[in EXCEPT !.app.helper = "up"],
                  IF HasNetwork(w) THEN BeOffline(in) ELSE CloseNetwork(in)}
  BY DEF Enter
<1> HIDE DEF s
<1>3. /\ AppIs(in, w, w.app.pending, s, w.app.saved, w.app.farewell, w.app.link,
               w.app.helper, w.app.listening, w.app.late)
      /\ SteamSame(in, w)
  BY <1>1, SessionIs
<1> HIDE DEF in
<1>4. in \in Views /\ Pends(in)
  BY <1>3 DEF AppIs, Pends, Waiting
<1>5. CASE v = in /\ (w.app.farewell \/ w.app.helper # "none")
  <2>1. w.app.helper = "up" => ~w.app.farewell \/ w.app.helper = "up"
    OBVIOUS
  <2> QED BY <1>1, <1>3, <1>5, <2>1 DEF EnterResult
<1>6. CASE ~w.app.farewell /\ v = [in EXCEPT !.app.helper = "up"]
  <2>1. /\ AppIs(v, in, in.app.pending, in.app.session, in.app.saved, in.app.farewell,
                 in.app.link, "up", in.app.listening, in.app.late)
        /\ SteamSame(v, in)
    BY <1>4, <1>6 DEF Views, AppState, SteamState, AppIs, SteamSame
  <2>2. /\ AppIs(v, w, w.app.pending, s, w.app.saved, w.app.farewell, w.app.link,
                 "up", w.app.listening, w.app.late)
        /\ SteamSame(v, w)
    BY <1>3, <2>1 DEF AppIs, SteamSame
  <2> QED BY <1>1, <1>6, <2>2 DEF EnterResult
<1>7. CASE ~w.app.farewell /\ HasNetwork(w) /\ v = BeOffline(in)
  <2>1. /\ AppIs(v, in, NoPending, NoSession, OfflineIn(in), in.app.farewell,
                 "none", "none", FALSE, in.app.late \ {"call", "restore"})
        /\ SteamSame(v, in)
    BY <1>4, <1>7, BeOfflineIs
  <2>2. OfflineIn(in) = [lobby |-> IF joined THEN lobby ELSE w.app.saved.lobby,
                         online |-> FALSE]
    BY <1>1, <1>3 DEF OfflineIn, AppIs
  <2>3. /\ AppIs(v, w, NoPending, NoSession, OfflineIn(in), w.app.farewell,
                 "none", "none", FALSE, w.app.late \ {"call", "restore"})
        /\ SteamSame(v, w)
    BY <1>3, <2>1 DEF AppIs, SteamSame
  <2> QED BY <1>7, <2>2, <2>3 DEF EnterResult
<1>8. CASE ~w.app.farewell /\ ~HasNetwork(w) /\ v = CloseNetwork(in)
  <2>1. /\ AppIs(v, in, in.app.pending, NoSession, in.app.saved, in.app.farewell,
                 in.app.link, "none", FALSE, in.app.late)
        /\ SteamSame(v, in)
    BY <1>4, <1>8, CloseNetworkIs
  <2>2. /\ AppIs(v, w, w.app.pending, NoSession, w.app.saved, w.app.farewell,
                 w.app.link, "none", FALSE, w.app.late)
        /\ SteamSame(v, w)
    BY <1>3, <2>1 DEF AppIs, SteamSame
  <2> QED BY <1>8, <2>2 DEF EnterResult
<1> QED BY <1>2, <1>5, <1>6, <1>7, <1>8

\* v is w with the call c under way.
AskResult(v, w, kind, lobby, c) ==
  /\ AppIs(v, w, v.app.pending, w.app.session, w.app.saved, w.app.farewell, w.app.link,
           w.app.helper, TRUE, w.app.late)
  /\ v.app.pending.kind = kind /\ v.app.pending.call = c
  /\ v.steam.calls[c].status = "asked" /\ v.steam.calls[c].lobby = lobby
  /\ \A d \in Call : d # c => v.steam.calls[d] = w.steam.calls[d]
  /\ v.steam.logged = w.steam.logged

LEMMA AskIs ==
  ASSUME NEW w \in Views, NEW kind \in Kind, NEW lobby \in Lobby \cup {NoLobby},
         NEW v \in Ask(w, kind, lobby)
  PROVE  \E c \in Call : AskResult(v, w, kind, lobby, c)
<1>1. PICK c \in Free(w) :
        v = [w EXCEPT !.app.listening = TRUE,
                      !.app.pending = [kind |-> kind, call |-> c],
                      !.steam.calls[c] = [status |-> "asked", lobby |-> lobby, answer |-> ""]]
  BY DEF Ask
<1> DEFINE p == [kind |-> kind, call |-> c]
           r == [status |-> "asked", lobby |-> lobby, answer |-> ""]
<1>2. c \in Call
  BY DEF Free
<1>3. p \in Pending /\ p.kind = kind /\ p.call = c
  BY <1>2 DEF Pending
<1>4. r \in CallState /\ r.status = "asked" /\ r.lobby = lobby
  BY DEF CallState
<1>5. v = [w EXCEPT !.app.listening = TRUE, !.app.pending = p, !.steam.calls[c] = r]
  BY <1>1
<1> HIDE DEF p, r
<1>6. w.steam.calls \in [Call -> CallState]
  BY DEF Views, SteamState
<1>7. /\ v.steam.calls = [w.steam.calls EXCEPT ![c] = r]
      /\ v.steam = [w.steam EXCEPT !.calls = [w.steam.calls EXCEPT ![c] = r]]
      /\ v.app = [w.app EXCEPT !.listening = TRUE, !.pending = p]
      /\ v = [app |-> v.app, steam |-> v.steam]
  BY <1>5 DEF Views, SteamState
<1>8. [w.steam.calls EXCEPT ![c] = r] \in [Call -> CallState]
  BY <1>4, <1>6
<1>9. v.steam \in SteamState /\ v.steam.logged = w.steam.logged
  BY <1>7, <1>8 DEF Views, SteamState
<1>10. /\ v.app \in AppState
       /\ v.app.running = w.app.running
       /\ v.app.pending = p /\ v.app.session = w.app.session /\ v.app.saved = w.app.saved
       /\ v.app.farewell = w.app.farewell /\ v.app.link = w.app.link
       /\ v.app.helper = w.app.helper /\ v.app.listening = TRUE /\ v.app.late = w.app.late
  BY <1>3, <1>7 DEF Views, AppState
<1>11. v \in Views
  BY <1>7, <1>9, <1>10 DEF Views
<1>12. AppIs(v, w, p, w.app.session, w.app.saved, w.app.farewell, w.app.link,
             w.app.helper, TRUE, w.app.late)
  BY <1>10, <1>11 DEF AppIs
<1>13. v.steam.calls[c] = r /\ \A d \in Call : d # c => v.steam.calls[d] = w.steam.calls[d]
  BY <1>2, <1>6, <1>7
<1>14. v.app.pending = p
  BY <1>10
<1> QED BY <1>2, <1>3, <1>4, <1>9, <1>12, <1>13, <1>14 DEF AskResult

\* The socket may be open when the call fails.
LEMMA ListeningIs ==
  ASSUME NEW w \in Views, NEW open \in BOOLEAN
  PROVE  /\ AppIs([w EXCEPT !.app.listening = open], w, w.app.pending, w.app.session,
                  w.app.saved, w.app.farewell, w.app.link, w.app.helper, open, w.app.late)
         /\ SteamSame([w EXCEPT !.app.listening = open], w)
BY DEF Views, AppState, SteamState, AppIs, SteamSame

LEMMA StartJoinIs ==
  ASSUME NEW w \in Views, Pends(w), NEW kind \in Kind, NEW lobby \in Lobby \cup {NoLobby},
         NEW v \in StartJoin(w, kind, lobby), v \notin Ask(w, kind, lobby)
  PROVE  /\ SteamSame(v, w)
         /\ kind = "restore" => \E open \in {w.app.listening, TRUE} :
              AppIs(v, w, w.app.pending, w.app.session, w.app.saved, w.app.farewell,
                    w.app.link, w.app.helper, open, w.app.late)
         /\ kind = "farewell" =>
              AppIs(v, w, w.app.pending, NoSession, w.app.saved, FALSE, w.app.link,
                    "none", FALSE, w.app.late \ {"farewell"})
         /\ kind = "rejoin" =>
              AppIs(v, w, w.app.pending, NoSession, w.app.saved, w.app.farewell,
                    IF w.steam.logged THEN "restoring" ELSE "reconnecting", "none", FALSE,
                    IF w.steam.logged THEN w.app.late \ {"restore"} ELSE w.app.late)
         /\ kind \in {"create", "join"} =>
              AppIs(v, w, w.app.pending, NoSession, w.app.saved, w.app.farewell,
                    w.app.link, "none", FALSE, w.app.late)
<1>1. PICK open \in {w.app.listening, TRUE} :
        v = CallFailed([w EXCEPT !.app.listening = open], kind, "failed")
  BY DEF StartJoin
<1> DEFINE o == [w EXCEPT !.app.listening = open]
<1>2. open \in BOOLEAN
  BY <1>1 DEF Views, AppState
<1>3. /\ AppIs(o, w, w.app.pending, w.app.session, w.app.saved, w.app.farewell,
               w.app.link, w.app.helper, open, w.app.late)
      /\ SteamSame(o, w)
  BY <1>2, ListeningIs
<1> HIDE DEF o
<1>4. o \in Views /\ Pends(o)
  BY <1>3 DEF AppIs, Pends, Waiting
<1>5. v = CallFailed(o, kind, "failed") /\ "failed" \in Refusal
  BY <1>1 DEF o, Refusal
<1>6. /\ SteamSame(v, o)
      /\ kind = "restore" => v = o
      /\ kind = "farewell" =>
           AppIs(v, o, o.app.pending, NoSession, o.app.saved, FALSE, o.app.link,
                 "none", FALSE, o.app.late \ {"farewell"})
      /\ kind = "rejoin" =>
           AppIs(v, o, o.app.pending, NoSession, o.app.saved, o.app.farewell,
                 IF o.steam.logged THEN "restoring" ELSE "reconnecting", "none", FALSE,
                 IF o.steam.logged THEN o.app.late \ {"restore"} ELSE o.app.late)
      /\ kind \in {"create", "join"} =>
           AppIs(v, o, o.app.pending, NoSession, o.app.saved, o.app.farewell,
                 o.app.link, "none", FALSE, o.app.late)
  BY <1>4, <1>5, CallFailedIs
<1>7. SteamSame(v, w)
  BY <1>3, <1>6 DEF SteamSame
<1>8. CASE kind = "restore"
  BY <1>3, <1>6, <1>7, <1>8
<1>9. CASE kind \in {"farewell", "create", "join"}
  BY <1>3, <1>6, <1>7, <1>9 DEF AppIs
<1>10. CASE kind = "rejoin"
  BY <1>3, <1>6, <1>7, <1>10 DEF AppIs, SteamSame
<1> QED BY <1>7, <1>8, <1>9, <1>10 DEF Kind

LEMMA LeaveAbandonedIs ==
  ASSUME NEW w \in Views
  PROVE  LET v == LeaveAbandoned(w) IN
         /\ AppIs(v, w, w.app.pending, w.app.session, w.app.saved, w.app.farewell,
                  w.app.link, w.app.helper, w.app.listening, w.app.late)
         /\ SteamSame(v, w)
BY DEF Views, LeaveAbandoned, AppState, SteamState, AppIs, SteamSame

\* The callbacks that are handed out are gone.
LEMMA ConsumedIs ==
  ASSUME NEW w \in Views
  PROVE  LET v == Consumed(w) IN
         /\ AppIs(v, w, w.app.pending, w.app.session, w.app.saved, w.app.farewell,
                  w.app.link, w.app.helper, w.app.listening, w.app.late)
         /\ SteamInv(v) /\ v.steam.logged = w.steam.logged
         /\ \A c \in Call : w.steam.calls[c].status # "answered" =>
              v.steam.calls[c] = w.steam.calls[c]
<1> DEFINE v == Consumed(w)
           k == [c \in Call |-> IF w.steam.calls[c].status = "answered" THEN FreeCall
                                ELSE w.steam.calls[c]]
<1>1. w.steam.calls \in [Call -> CallState]
  BY DEF Views, SteamState
<1>2. FreeCall \in CallState /\ FreeCall.status = "free"
  BY DEF FreeCall, CallState
<1>3. k \in [Call -> CallState]
  BY <1>1, <1>2
<1>4. \A c \in Call : k[c].status # "answered"
  BY <1>2
<1>5. \A c \in Call : w.steam.calls[c].status # "answered" => k[c] = w.steam.calls[c]
  OBVIOUS
<1>6. v = [w EXCEPT !.steam.calls = k]
  BY DEF Consumed
<1> HIDE DEF k
<1>7. /\ AppIs(v, w, w.app.pending, w.app.session, w.app.saved, w.app.farewell,
               w.app.link, w.app.helper, w.app.listening, w.app.late)
      /\ v.steam.calls = k /\ v.steam.logged = w.steam.logged
  <2> HIDE DEF v
  <2> QED BY <1>3, <1>6 DEF Views, AppState, SteamState, AppIs
<1> HIDE DEF v
<1>8. SteamInv(v)
  BY <1>4, <1>7 DEF SteamInv
<1> QED BY <1>5, <1>7, <1>8 DEF v

-----------------------------------------------------------------------------
\* How a step may change what the user sees, other than into a network, or
\* because the user asks for it.
Kept(s, w) ==
  LET before == PresenceOf(s)
      now == PresenceOf(w)
  IN /\ w.app.running = s.app.running
     /\ HasNetwork(w) => w.app.saved.lobby = s.app.saved.lobby
     /\ HasNetwork(s) => ~w.app.farewell
     /\ HasNetwork(s) /\ ~HasNetwork(w) => ~InSession(w) /\ ~Waiting(w)
     /\ HasNetwork(w) =>
          /\ w.app.saved.online => s.app.saved.online
          /\ s.app.saved.online /\ ~w.app.saved.online => before # "offline"
          /\ InSession(w) => before # "offline"
          /\ now = "offline" /\ w.app.saved.online => before \in {"restoring", "offline"}
          /\ now = "online" => before \in {"connecting", "restoring", "online"}
          /\ now = "connecting" => before \in {"connecting", "restoring"}

\* The same between the steps of a tick: the PC has not been sent offline, and
\* the clock of RESTORING_NETWORK is not that of an earlier loss.
Way(s, w) ==
  /\ Kept(s, w)
  /\ HasNetwork(w) /\ PresenceOf(w) = "offline" => PresenceOf(s) # "online"
  /\ HasNetwork(w) /\ w.app.link = "restoring" /\ "restore" \in w.app.late =>
       PresenceOf(s) = "restoring"

\* Before the connection is watched.
Early(s, w) == w.app.link # "none" => PresenceOf(s) \in {"connecting", "restoring"}

\* The socket is open, and goodbye is said, as long as there is a use for it.
InUse(w) ==
  /\ w.app.listening => InSession(w) \/ Waiting(w) \/ w.app.link # "none"
  /\ w.app.farewell => InSession(w) \/ Waiting(w)

\* What the results of calls leave.
After(s, w) == Core(w) /\ InUse(w) /\ Way(s, w) /\ Early(s, w)

\* w is s without its pending call.
Rest(s, w) ==
  /\ AppIs(w, s, NoPending, s.app.session, s.app.saved, s.app.farewell, s.app.link,
           s.app.helper, s.app.listening, s.app.late \ {"call"})
  /\ SteamInv(w) /\ w.steam.logged = s.steam.logged

LEMMA SavedIs ==
  ASSUME NEW w \in Views
  PROVE  /\ w.app.saved \in Saved /\ w.app.saved.lobby \in Lobby \cup {NoLobby}
         /\ w.app.saved = [lobby |-> w.app.saved.lobby, online |-> w.app.saved.online]
BY DEF Views, AppState, Saved

LEMMA PresenceIs ==
  ASSUME NEW w \in Views, w.app.running
  PROVE  /\ w.app.farewell => PresenceOf(w) = "none"
         /\ ~w.app.farewell /\ w.app.link # "none" => PresenceOf(w) = "restoring"
         /\ ~w.app.farewell /\ w.app.link = "none" /\ InSession(w) =>
              PresenceOf(w) = IF w.app.session.joined THEN "online" ELSE "connecting"
         /\ ~w.app.farewell /\ w.app.link = "none" /\ ~InSession(w) =>
              PresenceOf(w) = IF w.app.pending.kind = "rejoin" THEN "connecting"
                              ELSE IF HasNetwork(w) THEN "offline" ELSE "none"
<1>1. CASE w.app.farewell
  BY <1>1 DEF PresenceOf
<1>2. CASE ~w.app.farewell /\ w.app.link # "none"
  BY <1>2 DEF PresenceOf
<1>3. CASE ~w.app.farewell /\ w.app.link = "none" /\ InSession(w)
  BY <1>3 DEF PresenceOf
<1>4. CASE ~w.app.farewell /\ w.app.link = "none" /\ ~InSession(w)
  BY <1>4 DEF PresenceOf
<1> QED BY <1>1, <1>2, <1>3, <1>4

LEMMA FailedAfter ==
  ASSUME NEW s \in Views, Core(s), Settled(s), s.app.running, Waiting(s),
         NEW d, Rest(s, d), NEW why \in Refusal
  PROVE  After(s, CallFailed(d, s.app.pending.kind, why))
<1> DEFINE kind == s.app.pending.kind
           v == CallFailed(d, kind, why)
<1>1. kind \in Kind
  BY DEF Views, AppState, Pending, Waiting
<1>2. d \in Views /\ Pends(d)
  BY Constants DEF Rest, AppIs, Pends, Waiting
<1>3. /\ Asked(s, kind, s.steam.calls[s.app.pending.call].lobby) /\ StateInv(s)
      /\ InUse(s)
  BY DEF Core, CallInv, Settled, InUse
<1>4. SteamInv(v) /\ v.steam.logged = s.steam.logged
  BY <1>1, <1>2, CallFailedIs DEF Rest, SteamSame, SteamInv
<1>5. CASE kind = "restore" /\ why = "denied"
  <2>1. AppIs(v, d, NoPending, NoSession, d.app.saved, d.app.farewell,
              "none", "none", FALSE, d.app.late \ {"call", "restore"})
    BY <1>1, <1>2, <1>5, CallFailedIs
  <2>2. PresenceOf(s) = "restoring"
    BY <1>3, <1>5, PresenceIs DEF Asked
  <2> HIDE DEF v, kind
  <2>3. Core(v) /\ InUse(v)
    BY <1>3, <1>4, <1>5, <2>1, Constants
       DEF Asked, Core, StateInv, CallInv, Rest, AppIs, InSession, HasNetwork, Waiting, InUse
  <2>4. Way(s, v) /\ Early(s, v)
    BY <1>3, <1>5, <2>1, <2>2, Constants
       DEF Asked, Kept, Way, Early, StateInv, Rest, AppIs, InSession, HasNetwork, Waiting, PresenceOf
  <2> QED BY <2>3, <2>4 DEF After, v, kind
<1>6. CASE kind = "restore" /\ why # "denied"
  <2>1. v = d
    BY <1>1, <1>2, <1>6, CallFailedIs
  <2>2. PresenceOf(s) = "restoring"
    BY <1>3, <1>6, PresenceIs DEF Asked
  <2> HIDE DEF v, kind
  <2>3. Core(v) /\ InUse(v)
    BY <1>2, <1>3, <1>4, <1>6, <2>1, Constants
       DEF Asked, Core, StateInv, CallInv, Rest, AppIs, InSession, HasNetwork, Waiting, InUse
  <2>4. Way(s, v) /\ Early(s, v)
    BY <1>3, <1>6, <2>1, <2>2, Constants
       DEF Asked, Kept, Way, Early, StateInv, Rest, AppIs, InSession, HasNetwork, Waiting, PresenceOf
  <2> QED BY <2>3, <2>4 DEF After, v, kind
<1>7. CASE kind = "farewell"
  <2>1. AppIs(v, d, d.app.pending, NoSession, d.app.saved, FALSE, d.app.link,
              "none", FALSE, d.app.late \ {"farewell"})
    BY <1>1, <1>2, <1>7, CallFailedIs
  <2> HIDE DEF v, kind
  <2>3. Core(v) /\ InUse(v)
    BY <1>3, <1>4, <1>7, <2>1, Constants
       DEF Asked, Core, StateInv, CallInv, Rest, AppIs, InSession, HasNetwork, Waiting, InUse
  <2>4. Way(s, v) /\ Early(s, v)
    BY <1>3, <1>7, <2>1, Constants
       DEF Asked, Kept, Way, Early, StateInv, Rest, AppIs, InSession, HasNetwork, Waiting
  <2> QED BY <2>3, <2>4 DEF After, v, kind
<1>8. CASE kind = "rejoin" /\ why = "denied"
  <2>1. AppIs(v, d, d.app.pending, NoSession,
              [lobby |-> d.app.saved.lobby, online |-> FALSE],
              d.app.farewell, d.app.link, "none", FALSE, d.app.late)
    BY <1>1, <1>2, <1>8, CallFailedIs
  <2>2. PresenceOf(s) = "connecting"
    BY <1>3, <1>8, PresenceIs DEF Asked
  <2> HIDE DEF v, kind
  <2>3. Core(v) /\ InUse(v)
    BY <1>3, <1>4, <1>8, <2>1, Constants
       DEF Asked, Core, StateInv, CallInv, Rest, AppIs, InSession, HasNetwork, Waiting, InUse
  <2>4. Way(s, v) /\ Early(s, v)
    BY <1>3, <1>8, <2>1, <2>2, Constants
       DEF Asked, Kept, Way, Early, StateInv, Rest, AppIs, InSession, HasNetwork, Waiting, PresenceOf
  <2> QED BY <2>3, <2>4 DEF After, v, kind
<1>9. CASE kind = "rejoin" /\ why # "denied"
  <2>1. AppIs(v, d, d.app.pending, NoSession, d.app.saved, d.app.farewell,
              IF d.steam.logged THEN "restoring" ELSE "reconnecting", "none", FALSE,
              IF d.steam.logged THEN d.app.late \ {"restore"} ELSE d.app.late)
    BY <1>1, <1>2, <1>9, CallFailedIs
  <2>2. PresenceOf(s) = "connecting"
    BY <1>3, <1>9, PresenceIs DEF Asked
  <2> HIDE DEF v, kind
  <2>3. Core(v) /\ InUse(v)
    BY <1>3, <1>4, <1>9, <2>1, Constants
       DEF Asked, Core, StateInv, CallInv, Rest, AppIs, InSession, HasNetwork, Waiting, InUse
  <2>4. Way(s, v) /\ Early(s, v)
    BY <1>3, <1>9, <2>1, <2>2, Constants
       DEF Asked, Kept, Way, Early, StateInv, Rest, AppIs, InSession, HasNetwork, Waiting, PresenceOf
  <2> QED BY <2>3, <2>4 DEF After, v, kind
<1>10. CASE kind \in {"create", "join"}
  <2>1. AppIs(v, d, d.app.pending, NoSession, d.app.saved, d.app.farewell,
              d.app.link, "none", FALSE, d.app.late)
    BY <1>1, <1>2, <1>10, CallFailedIs
  <2> HIDE DEF v, kind
  <2>3. Core(v) /\ InUse(v)
    BY <1>3, <1>4, <1>10, <2>1, Constants
       DEF Asked, Core, StateInv, CallInv, Rest, AppIs, InSession, HasNetwork, Waiting, InUse
  <2>4. Way(s, v) /\ Early(s, v)
    BY <1>3, <1>10, <2>1, Constants
       DEF Asked, Kept, Way, Early, StateInv, Rest, AppIs, InSession, HasNetwork, Waiting
  <2> QED BY <2>3, <2>4 DEF After, v, kind
<1> QED BY <1>1, <1>5, <1>6, <1>7, <1>8, <1>9, <1>10 DEF Kind

\* A call got this PC into its lobby, and no session goes on.
LEMMA EnterAfter ==
  ASSUME NEW s \in Views, Core(s), Settled(s), s.app.running, Waiting(s), ~InSession(s),
         NEW lobby \in Lobby, Asked(s, s.app.pending.kind, lobby),
         NEW joined \in BOOLEAN,
         s.app.pending.kind = "create" => joined,
         s.app.pending.kind = "join" => ~joined,
         NEW d, SteamInv(d), NEW late, "call" \notin late,
         AppIs(d, s, NoPending, s.app.session, s.app.saved, s.app.farewell, "none",
               s.app.helper, s.app.listening, late),
         NEW v \in Enter(d, lobby, joined)
  PROVE  After(s, v)
<1> DEFINE kind == s.app.pending.kind
<1>1. kind \in {"create", "join", "farewell", "rejoin", "restore"}
  BY DEF Views, AppState, Pending, Waiting, Kind
<1>2. d \in Views /\ Pends(d)
  BY Constants DEF AppIs, Pends, Waiting
<1>3. StateInv(s) /\ InUse(s)
  BY DEF Core, Settled, InUse
<1>3a. SteamSame(v, d) /\ EnterResult(v, d, lobby, joined)
  BY <1>2, EnterIs
<1>4. SteamInv(v)
  BY <1>3a DEF SteamSame, SteamInv
<1>5. /\ kind = "rejoin" => PresenceOf(s) = "connecting"
      /\ kind = "restore" => PresenceOf(s) = "restoring"
  BY PresenceIs DEF Asked
<1>6. lobby # NoLobby /\ kind = s.app.pending.kind
  BY LobbyAssumption
<1> HIDE DEF kind
<1>7. ASSUME NEW t \in Session, NEW h \in {d.app.helper, "up"},
             t.lobby = lobby, t.joined = joined,
             h = "up" => ~d.app.farewell \/ d.app.helper = "up",
             AppIs(v, d, d.app.pending, t, d.app.saved, d.app.farewell, d.app.link,
                   h, d.app.listening, d.app.late)
      PROVE  After(s, v)
  <2>1. v \in Views /\ v.app.running
    BY <1>7 DEF AppIs
  <2>2. StateInv(v) /\ CallInv(v) /\ InUse(v)
    BY <1>1, <1>3, <1>6, <1>7, Constants
       DEF Asked, StateInv, CallInv, AppIs, InSession, HasNetwork, Waiting, InUse
  <2>3. HasNetwork(s) => PresenceOf(v) = IF joined THEN "online" ELSE "connecting"
    BY <1>1, <1>6, <1>7, <2>1, PresenceIs DEF Asked, AppIs, InSession
  <2>4. Way(s, v) /\ Early(s, v)
    BY <1>1, <1>3, <1>5, <1>6, <1>7, <2>3, Constants
       DEF Asked, Kept, Way, Early, StateInv, AppIs, InSession, HasNetwork, Waiting
  <2> QED BY <1>4, <2>1, <2>2, <2>4 DEF After, Core
<1>8. ASSUME ~d.app.farewell, HasNetwork(d),
             AppIs(v, d, NoPending, NoSession,
                   [lobby |-> IF joined THEN lobby ELSE d.app.saved.lobby,
                    online |-> FALSE],
                   d.app.farewell, "none", "none", FALSE, d.app.late \ {"call", "restore"})
      PROVE  After(s, v)
  <2>1. v \in Views /\ v.app.running
    BY <1>8 DEF AppIs
  <2>2. d.app.saved.lobby = lobby /\ s.app.saved.lobby = lobby /\ kind \in {"rejoin", "restore"}
    BY <1>1, <1>6, <1>8 DEF Asked, AppIs, HasNetwork
  <2>3. v.app.saved.lobby = lobby /\ v.app.saved.online = FALSE
    BY <1>8, <2>2 DEF AppIs
  <2>4. StateInv(v) /\ CallInv(v) /\ InUse(v)
    BY <1>3, <1>6, <1>8, <2>2, <2>3, Constants
       DEF StateInv, CallInv, AppIs, InSession, HasNetwork, Waiting, InUse
  <2>5. PresenceOf(v) = "offline"
    BY <1>6, <1>8, <2>1, <2>3, PresenceIs, Constants DEF AppIs, InSession, HasNetwork
  <2>6. Way(s, v) /\ Early(s, v)
    BY <1>3, <1>5, <1>6, <1>8, <2>2, <2>3, <2>5, Constants
       DEF Asked, Kept, Way, Early, StateInv, AppIs, InSession, HasNetwork, Waiting
  <2> QED BY <1>4, <2>1, <2>4, <2>6 DEF After, Core
<1>9. ASSUME ~d.app.farewell, ~HasNetwork(d),
             AppIs(v, d, d.app.pending, NoSession, d.app.saved, d.app.farewell,
                   d.app.link, "none", FALSE, d.app.late)
      PROVE  After(s, v)
  <2>1. v \in Views /\ v.app.running
    BY <1>9 DEF AppIs
  <2>2. ~HasNetwork(s)
    BY <1>9 DEF AppIs, HasNetwork
  <2>3. StateInv(v) /\ CallInv(v) /\ InUse(v)
    BY <1>3, <1>9, Constants
       DEF StateInv, CallInv, AppIs, InSession, HasNetwork, Waiting, InUse
  <2>4. Way(s, v) /\ Early(s, v)
    BY <1>9, <2>2, Constants DEF Kept, Way, Early, AppIs, HasNetwork
  <2> QED BY <1>4, <2>1, <2>3, <2>4 DEF After, Core
<1> QED BY <1>3a, <1>7, <1>8, <1>9 DEF EnterResult

LEMMA StoppedIs ==
  ASSUME NEW s \in Views, NEW d, Rest(s, d)
  PROVE  /\ AppIs(StopRecovering(d), s, NoPending, s.app.session, s.app.saved, s.app.farewell,
                  "none", s.app.helper, s.app.listening, s.app.late \ {"call", "restore"})
         /\ SteamInv(StopRecovering(d))
<1> DEFINE v == StopRecovering(d)
<1>1. d \in Views
  BY DEF Rest, AppIs
<1>2. /\ AppIs(v, d, d.app.pending, d.app.session, d.app.saved, d.app.farewell, "none",
               d.app.helper, d.app.listening, d.app.late \ {"restore"})
      /\ SteamSame(v, d)
  BY <1>1, StopRecoveringIs
<1> HIDE DEF v
<1>3. /\ AppIs(v, s, NoPending, s.app.session, s.app.saved, s.app.farewell,
               "none", s.app.helper, s.app.listening, s.app.late \ {"call", "restore"})
      /\ SteamInv(v)
  BY <1>2 DEF Rest, AppIs, SteamSame, SteamInv
<1> QED BY <1>3 DEF v

LEMMA EnteredAfter ==
  ASSUME NEW s \in Views, Core(s), Settled(s), s.app.running, Waiting(s),
         NEW d, Rest(s, d), NEW lobby \in Lobby, Asked(s, s.app.pending.kind, lobby),
         NEW v \in Entered(d, s.app.pending.kind, lobby)
  PROVE  After(s, v)
<1> DEFINE kind == s.app.pending.kind
<1>1. kind \in {"create", "join", "farewell", "rejoin", "restore"}
  BY DEF Views, AppState, Pending, Waiting, Kind
<1>2. d \in Views /\ (InSession(d) <=> InSession(s))
  BY DEF Rest, AppIs, InSession
<1>3. CASE kind \in {"create", "join"}
  <2>1. ~InSession(s) /\ s.app.link = "none"
    BY <1>3 DEF Asked
  <2>2. PICK joined \in BOOLEAN : /\ v \in Enter(d, lobby, joined)
                                  /\ kind = "create" => joined
                                  /\ kind = "join" => ~joined
    BY <1>3 DEF Entered
  <2> DEFINE late == s.app.late \ {"call"}
  <2>3. AppIs(d, s, NoPending, s.app.session, s.app.saved, s.app.farewell, "none",
              s.app.helper, s.app.listening, late) /\ SteamInv(d)
    BY <2>1 DEF Rest
  <2>4. "call" \notin late
    OBVIOUS
  <2> HIDE DEF late
  <2> QED BY <2>1, <2>2, <2>3, <2>4, EnterAfter
<1>4. CASE kind = "restore" /\ InSession(s)
  <2>1. v = Restored(d)
    BY <1>2, <1>4 DEF Entered
  <2>2. PICK t \in Session :
          /\ t.lobby = d.app.session.lobby /\ t.joined = d.app.session.joined
          /\ AppIs(v, d, d.app.pending, t, d.app.saved, d.app.farewell, "none",
                   d.app.helper, d.app.listening, d.app.late \ {"restore"})
          /\ SteamSame(v, d)
    BY <1>2, <2>1, RestoredIs
  <2>3. SteamInv(v)
    BY <2>2 DEF Rest, SteamSame, SteamInv
  <2>4. StateInv(s) /\ InUse(s)
    BY DEF Core, Settled, InUse
  <2>5. v \in Views /\ v.app.running
    BY <2>2 DEF Rest, AppIs
  <2>6. PresenceOf(s) = "restoring"
    BY <1>4, PresenceIs DEF Asked
  <2>7. PresenceOf(v) \in {"online", "connecting"}
    BY <1>4, <2>2, <2>5, PresenceIs DEF Asked, Rest, AppIs, InSession
  <2> HIDE DEF kind
  <2>8. StateInv(v) /\ CallInv(v) /\ InUse(v)
    BY <1>2, <1>4, <2>2, <2>4, Constants
       DEF StateInv, CallInv, Rest, AppIs, InSession, HasNetwork, Waiting, InUse
  <2>9. Way(s, v) /\ Early(s, v)
    BY <1>4, <2>2, <2>4, <2>5, <2>6, <2>7, Constants
       DEF Asked, Kept, Way, Early, StateInv, Rest, AppIs, InSession, HasNetwork, Waiting, kind
  <2> QED BY <2>3, <2>5, <2>8, <2>9 DEF After, Core
<1>5. CASE kind \in {"rejoin", "farewell"} \/ (kind = "restore" /\ ~InSession(s))
  <2>1. ~InSession(s)
    BY <1>5 DEF Asked
  <2> DEFINE r == StopRecovering(d)
  <2>2. PICK joined \in BOOLEAN : v \in Enter(r, lobby, joined)
    BY <1>2, <1>5 DEF Entered
  <2> DEFINE late == s.app.late \ {"call", "restore"}
  <2>3. AppIs(r, s, NoPending, s.app.session, s.app.saved, s.app.farewell, "none",
              s.app.helper, s.app.listening, late) /\ SteamInv(r)
    BY StoppedIs
  <2>4. "call" \notin late
    OBVIOUS
  <2>5. kind # "create" /\ kind # "join"
    BY <1>5
  <2> HIDE DEF late, r
  <2> QED BY <2>1, <2>2, <2>3, <2>4, <2>5, EnterAfter
<1> QED BY <1>1, <1>3, <1>4, <1>5

\* The network is gone, and forgotten.
LEMMA ForgottenAfter ==
  ASSUME NEW s \in Views, Core(s), s.app.running, HasNetwork(s),
         NEW w, SteamInv(w), w \in Views, Pends(w),
         w.app.running, w.app.farewell = s.app.farewell
  PROVE  After(s, ForgetGone(w))
<1> DEFINE v == ForgetGone(w)
<1>1. /\ AppIs(v, w, NoPending, NoSession, NoNetwork, w.app.farewell, "none", "none",
               FALSE, w.app.late \ {"call", "restore"})
      /\ SteamSame(v, w)
  BY ForgetGoneIs
<1> HIDE DEF v
<1>2. StateInv(s) /\ v \in Views
  BY <1>1 DEF Core, AppIs
<1>3. SteamInv(v)
  BY <1>1 DEF SteamSame, SteamInv
<1>4. StateInv(v) /\ CallInv(v) /\ InUse(v)
  BY <1>1, <1>2, Constants
     DEF StateInv, CallInv, AppIs, InSession, HasNetwork, Waiting, InUse
<1>5. Way(s, v) /\ Early(s, v)
  BY <1>1, <1>2, Constants
     DEF Kept, Way, Early, StateInv, AppIs, InSession, HasNetwork, Waiting
<1> QED BY <1>2, <1>3, <1>4, <1>5 DEF After, Core, v

LEMMA ForeignAfter ==
  ASSUME NEW s \in Views, Core(s), Settled(s), s.app.running, Waiting(s),
         NEW d, Rest(s, d), NEW lobby
  PROVE  After(s, Foreign(d, s.app.pending.kind, lobby))
<1> DEFINE kind == s.app.pending.kind
           v == Foreign(d, kind, lobby)
           c == CloseAt(d, lobby)
<1>1. kind \in {"create", "join", "farewell", "rejoin", "restore"}
  BY DEF Views, AppState, Pending, Waiting, Kind
<1>2. d \in Views
  BY DEF Rest, AppIs
<1>3. /\ AppIs(c, d, d.app.pending, NoSession, d.app.saved, d.app.farewell, d.app.link,
               "none", FALSE, d.app.late)
      /\ SteamSame(c, d)
  BY <1>2, CloseAtIs
<1> HIDE DEF c
<1>4. /\ AppIs(c, s, NoPending, NoSession, s.app.saved, s.app.farewell, s.app.link,
               "none", FALSE, s.app.late \ {"call"})
      /\ SteamInv(c)
  BY <1>3 DEF Rest, AppIs, SteamSame, SteamInv
<1>5. c \in Views /\ Pends(c) /\ c.app.running
  BY <1>4, Constants DEF AppIs, Pends, Waiting
<1>6. StateInv(s) /\ Asked(s, kind, s.steam.calls[s.app.pending.call].lobby)
  BY DEF Core, CallInv
<1>7. CASE kind = "farewell"
  <2>1. v = EndFarewell(c)
    BY <1>7 DEF Foreign, c
  <2> HIDE DEF v, kind
  <2>2. /\ AppIs(v, c, c.app.pending, c.app.session, c.app.saved, FALSE, c.app.link,
                 c.app.helper, c.app.listening, c.app.late \ {"farewell"})
        /\ SteamSame(v, c)
    BY <1>5, <2>1, EndFarewellIs
  <2>3. SteamInv(v) /\ v \in Views
    BY <1>4, <2>2 DEF SteamSame, SteamInv, AppIs
  <2>4. StateInv(v) /\ CallInv(v) /\ InUse(v)
    BY <1>4, <1>6, <1>7, <2>2, Constants
       DEF Asked, StateInv, CallInv, AppIs, InSession, HasNetwork, Waiting, InUse
  <2>5. Way(s, v) /\ Early(s, v)
    BY <1>4, <1>6, <1>7, <2>2, Constants
       DEF Asked, Kept, Way, Early, StateInv, AppIs, InSession, HasNetwork, Waiting
  <2> QED BY <2>3, <2>4, <2>5 DEF After, Core, v, kind
<1>8. CASE kind \in {"rejoin", "restore"}
  <2>1. v = ForgetGone(c)
    BY <1>8 DEF Foreign, c
  <2>2. c.app.farewell = s.app.farewell /\ HasNetwork(s)
    BY <1>4, <1>6, <1>8 DEF AppIs, Asked
  <2> QED BY <1>4, <1>5, <2>1, <2>2, ForgottenAfter
<1>9. CASE kind \in {"create", "join"}
  <2>1. v = c
    BY <1>9 DEF Foreign, c
  <2> HIDE DEF v, kind
  <2>2. StateInv(v) /\ CallInv(v) /\ InUse(v)
    BY <1>4, <1>6, <1>9, <2>1, Constants
       DEF Asked, StateInv, CallInv, AppIs, InSession, HasNetwork, Waiting, InUse
  <2>3. Way(s, v) /\ Early(s, v)
    BY <1>4, <1>6, <1>9, <2>1, Constants
       DEF Asked, Kept, Way, Early, StateInv, AppIs, InSession, HasNetwork, Waiting
  <2> QED BY <1>4, <1>5, <2>1, <2>2, <2>3 DEF After, Core, v, kind
<1> QED BY <1>1, <1>7, <1>8, <1>9

LEMMA FinishAfter ==
  ASSUME NEW s \in Views, Core(s), Settled(s), s.app.running, Waiting(s),
         NEW d, Rest(s, d), NEW call, call = s.steam.calls[s.app.pending.call],
         call.status = "answered",
         NEW v \in Finish(d, s.app.pending.kind, call)
  PROVE  After(s, v)
<1> DEFINE kind == s.app.pending.kind
<1>1. /\ s.app.pending.call \in Call /\ Asked(s, kind, call.lobby)
      /\ call.lobby \in Lobby
      /\ call.answer \in {"entered", "foreign", "gone", "denied", "failed"}
  BY DEF Core, CallInv, SteamInv, Answer, Refusal
<1>2. CASE v \in Entered(d, kind, call.lobby)
  BY <1>1, <1>2, EnteredAfter
<1>3. CASE v = Foreign(d, kind, call.lobby)
  BY <1>3, ForeignAfter
<1>4. CASE kind \in {"rejoin", "restore"} /\ v = ForgetGone(d)
  <2>1. /\ SteamInv(d) /\ d \in Views /\ Pends(d) /\ HasNetwork(s)
        /\ d.app.running /\ d.app.farewell = s.app.farewell
    BY <1>1, <1>4, Constants DEF Rest, AppIs, Pends, Waiting, Asked
  <2> QED BY <1>4, <2>1, ForgottenAfter
<1>5. CASE call.answer \in Refusal /\ v = CallFailed(d, kind, call.answer)
  BY <1>5, FailedAfter
<1>6. v \in Entered(d, kind, call.lobby) \/ v = Foreign(d, kind, call.lobby)
        \/ (kind \in {"rejoin", "restore"} /\ v = ForgetGone(d)) \/ (call.answer \in Refusal /\ v = CallFailed(d, kind, call.answer))
  <2>1. CASE call.answer = "entered"
    BY <2>1 DEF Finish
  <2>2. CASE call.answer = "foreign"
    BY <2>2 DEF Finish
  <2>3. CASE call.answer = "gone" /\ kind \in {"rejoin", "restore"}
    BY <2>3 DEF Finish
  <2>4. CASE call.answer \in Refusal /\ ~(call.answer = "gone" /\ kind \in {"rejoin", "restore"})
    BY <2>4 DEF Finish, Refusal
  <2> QED BY <1>1, <2>1, <2>2, <2>3, <2>4 DEF Refusal
<1> QED BY <1>2, <1>3, <1>4, <1>5, <1>6

LEMMA ResultsAfter ==
  ASSUME NEW s \in Views, Core(s), Settled(s), s.app.running,
         NEW v \in Results(LeaveAbandoned(s))
  PROVE  After(s, v)
<1> DEFINE a == LeaveAbandoned(s)
           c == Consumed(a)
           d == DropCall(c)
           p == s.app.pending
<1>0. v \in Results(a)
  OBVIOUS
<1>1. /\ AppIs(a, s, s.app.pending, s.app.session, s.app.saved, s.app.farewell,
               s.app.link, s.app.helper, s.app.listening, s.app.late)
      /\ SteamSame(a, s)
  BY LeaveAbandonedIs
<1> HIDE DEF a
<1>2. a \in Views
  BY <1>1 DEF AppIs
<1>3. /\ AppIs(c, a, a.app.pending, a.app.session, a.app.saved, a.app.farewell,
               a.app.link, a.app.helper, a.app.listening, a.app.late)
      /\ SteamInv(c) /\ c.steam.logged = a.steam.logged
      /\ \A k \in Call : a.steam.calls[k].status # "answered" =>
           c.steam.calls[k] = a.steam.calls[k]
  BY <1>2, ConsumedIs
<1> HIDE DEF c
<1>4. /\ AppIs(c, s, s.app.pending, s.app.session, s.app.saved, s.app.farewell,
               s.app.link, s.app.helper, s.app.listening, s.app.late)
      /\ SteamInv(c) /\ c.steam.logged = s.steam.logged
      /\ \A k \in Call : s.steam.calls[k].status # "answered" =>
           c.steam.calls[k] = s.steam.calls[k]
  BY <1>1, <1>3 DEF AppIs, SteamSame
<1>5. c \in Views
  BY <1>4 DEF AppIs
<1>6. /\ AppIs(d, c, NoPending, c.app.session, c.app.saved, c.app.farewell, c.app.link,
               c.app.helper, c.app.listening, c.app.late \ {"call"})
      /\ SteamSame(d, c)
  BY <1>5, DropCallIs
<1> HIDE DEF d
<1>7. Rest(s, d)
  BY <1>4, <1>6 DEF Rest, AppIs, SteamSame, SteamInv
<1>8. a.app.pending = p /\ a.app.late = s.app.late /\ a.steam.calls = s.steam.calls
  BY <1>1 DEF AppIs, SteamSame
<1>9. Answered(a) = {k \in Call : s.steam.calls[k].status = "answered"}
  BY <1>8 DEF Answered
<1>10. p.call \in Call => Waiting(s)
  BY CallAssumption, Constants DEF Core, CallInv
<1>11. "call" \in s.app.late => Waiting(s)
  BY DEF Core, CallInv
<1>12. CASE p.call \in Answered(a)
  <2>1. v \in Finish(d, p.kind, s.steam.calls[p.call])
    BY <1>0, <1>8, <1>12 DEF Results, d, c
  <2>2. s.steam.calls[p.call].status = "answered" /\ Waiting(s)
    BY <1>9, <1>10, <1>12
  <2> QED BY <1>7, <2>1, <2>2, FinishAfter
<1>13. CASE p.call \notin Answered(a) /\ "call" \in s.app.late
  <2>1. v = CallFailed(d, p.kind, "failed")
    BY <1>0, <1>8, <1>13 DEF Results, d, c
  <2> QED BY <1>7, <1>11, <1>13, <2>1, FailedAfter DEF Refusal
<1>14. CASE p.call \notin Answered(a) /\ "call" \notin s.app.late
  <2>1. v = c
    BY <1>0, <1>8, <1>14 DEF Results, c
  <2>2. StateInv(s) /\ CallInv(s) /\ InUse(s) /\ v \in Views /\ v.app.running
    BY <1>4, <2>1 DEF Core, Settled, AppIs, InUse
  <2>3. StateInv(v) /\ InUse(v)
    BY <1>4, <2>1, <2>2 DEF StateInv, AppIs, InSession, HasNetwork, Waiting, InUse
  <2>4. CallInv(v)
    <3>1. CASE Waiting(s)
      <4>1. p.call \in Call /\ v.steam.calls[p.call] = s.steam.calls[p.call]
        BY <1>4, <1>9, <1>14, <2>1, <2>2, <3>1 DEF CallInv
      <4>2. s.steam.calls[p.call].status # "free" /\ Asked(s, p.kind, s.steam.calls[p.call].lobby)
        BY <2>2, <3>1 DEF CallInv
      <4>3. Asked(v, p.kind, v.steam.calls[p.call].lobby)
        BY <1>4, <2>1, <4>1, <4>2 DEF Asked, AppIs, InSession, HasNetwork
      <4>4. v.app.pending = p /\ Waiting(v)
        BY <1>4, <2>1, <3>1 DEF AppIs, Waiting
      <4> QED BY <4>1, <4>2, <4>3, <4>4 DEF CallInv
    <3>2. CASE ~Waiting(s)
      BY <1>4, <2>1, <2>2, <3>2 DEF CallInv, AppIs, Waiting
    <3> QED BY <3>1, <3>2
  <2>5. PresenceOf(v) = PresenceOf(s)
    BY <1>4, <2>1 DEF PresenceOf, AppIs, InSession, HasNetwork
  <2>6. Way(s, s) /\ Early(s, s)
    BY <2>2, PresenceIs DEF Kept, Way, Early, StateInv, InSession, HasNetwork
  <2>7. Way(s, v) /\ Early(s, v)
    BY <1>4, <2>1, <2>5, <2>6 DEF Kept, Way, Early, AppIs, InSession, HasNetwork, Waiting
  <2> QED BY <1>4, <2>1, <2>2, <2>3, <2>4, <2>7 DEF After, Core
<1> QED BY <1>12, <1>13, <1>14, <1>8

\* What watching the connection leaves.
Mid(s, w) == Core(w) /\ InUse(w) /\ Way(s, w)

LEMMA RestoreMid ==
  ASSUME NEW s \in Views, Core(s), Settled(s), s.app.running,
         NEW w, After(s, w), HasNetwork(w), w.app.link = "restoring",
         NEW v \in Restore(w)
  PROVE  Mid(s, v)
<1>1. /\ w \in Views /\ Pends(w) /\ w.app.running
      /\ Core(w) /\ StateInv(w) /\ CallInv(w) /\ SteamInv(w) /\ InUse(w)
      /\ Way(s, w) /\ Early(s, w) /\ Kept(s, w)
  BY DEF After, Core, CallInv, Pends, Way, Kept
<1>2. /\ PresenceOf(s) \in {"connecting", "restoring"} /\ HasNetwork(s)
      /\ s.app.saved.online /\ w.app.saved.online /\ ~w.app.farewell
  <2>1. PresenceOf(s) \in {"connecting", "restoring"}
    BY <1>1 DEF Early
  <2>2. w.app.saved.online /\ ~w.app.farewell
    BY <1>1 DEF StateInv
  <2>3. s.app.saved.lobby = w.app.saved.lobby /\ s.app.saved.online
    BY <1>1, <2>2 DEF Kept
  <2> QED BY <2>1, <2>2, <2>3 DEF HasNetwork
<1>3. Mid(s, w)
  BY <1>1 DEF Mid
<1>4. CASE ~Waiting(w) /\ InSession(w) /\ v = Restored(w)
  <2>1. PICK t \in Session :
          /\ t.lobby = w.app.session.lobby /\ t.joined = w.app.session.joined
          /\ AppIs(v, w, w.app.pending, t, w.app.saved, w.app.farewell, "none",
                   w.app.helper, w.app.listening, w.app.late \ {"restore"})
          /\ SteamSame(v, w)
    BY <1>1, <1>4, RestoredIs
  <2>2. SteamInv(v) /\ v \in Views /\ v.app.running
    BY <1>1, <2>1 DEF SteamSame, SteamInv, AppIs
  <2>3. PresenceOf(v) \in {"online", "connecting"}
    BY <1>2, <1>4, <2>1, <2>2, PresenceIs DEF AppIs, InSession
  <2>4. StateInv(v) /\ CallInv(v) /\ InUse(v)
    BY <1>1, <1>4, <2>1, Constants
       DEF StateInv, CallInv, AppIs, InSession, HasNetwork, Waiting, InUse
  <2>5. Way(s, v)
    BY <1>1, <1>2, <1>4, <2>1, <2>3 DEF Way, Kept, AppIs, InSession, HasNetwork, Waiting
  <2> QED BY <2>2, <2>4, <2>5 DEF Mid, Core
<1>5. CASE "restore" \in w.app.late /\ v = GiveUp(w)
  <2>1. /\ AppIs(v, w, NoPending, NoSession, w.app.saved, w.app.farewell, "none", "none",
                 FALSE, w.app.late \ {"call", "restore"})
        /\ SteamSame(v, w)
    BY <1>1, <1>5, GiveUpIs
  <2>2. SteamInv(v) /\ v \in Views /\ v.app.running
    BY <1>1, <2>1 DEF SteamSame, SteamInv, AppIs
  <2>3. PresenceOf(s) = "restoring"
    BY <1>1, <1>5 DEF Way
  <2>4. PresenceOf(v) = "offline"
    BY <1>2, <2>1, <2>2, PresenceIs, Constants DEF AppIs, InSession, HasNetwork
  <2>5. StateInv(v) /\ CallInv(v) /\ InUse(v)
    BY <1>1, <1>2, <2>1, Constants
       DEF StateInv, CallInv, AppIs, InSession, HasNetwork, Waiting, InUse
  <2>6. Way(s, v)
    BY <1>1, <1>2, <2>1, <2>3, <2>4, Constants
       DEF Way, Kept, AppIs, InSession, HasNetwork, Waiting
  <2> QED BY <2>2, <2>5, <2>6 DEF Mid, Core
<1>6. CASE ~Waiting(w) /\ v \in Ask(w, "restore", w.app.saved.lobby)
  <2>1. PICK c \in Call : AskResult(v, w, "restore", w.app.saved.lobby, c)
    BY <1>1, <1>6, AskIs, SavedIs DEF Kind
  <2>2. v \in Views /\ v.app.running
    BY <1>1, <2>1 DEF AskResult, AppIs
  <2>3. SteamInv(v)
    BY <1>1, <2>1 DEF AskResult, SteamInv
  <2>4. v.app.pending.kind = "restore" /\ v.app.pending.call = c /\ Waiting(v)
    BY <2>1 DEF AskResult, AppIs, Waiting
  <2>5. PresenceOf(v) = "restoring" /\ PresenceOf(w) = "restoring"
    BY <1>1, <1>2, <2>1, <2>2, PresenceIs DEF AskResult, AppIs
  <2>6. StateInv(v) /\ InUse(v)
    BY <1>1, <2>1, <2>4 DEF AskResult, StateInv, AppIs, InSession, HasNetwork, InUse
  <2>7. Asked(v, "restore", v.steam.calls[c].lobby) /\ v.steam.calls[c].status # "free"
    BY <1>2, <2>1 DEF AskResult, Asked, AppIs, HasNetwork
  <2>8. CallInv(v)
    BY <2>4, <2>7 DEF CallInv
  <2>9. Way(s, v)
    BY <1>1, <1>2, <2>1, <2>5 DEF AskResult, Way, Kept, AppIs, InSession, HasNetwork
  <2> QED BY <2>2, <2>3, <2>6, <2>8, <2>9 DEF Mid, Core
<1>7. CASE ~Waiting(w) /\ v \in StartJoin(w, "restore", w.app.saved.lobby)
             /\ v \notin Ask(w, "restore", w.app.saved.lobby)
  <2>1. /\ SteamSame(v, w)
        /\ \E open \in {w.app.listening, TRUE} :
             AppIs(v, w, w.app.pending, w.app.session, w.app.saved, w.app.farewell,
                   w.app.link, w.app.helper, open, w.app.late)
    BY <1>1, <1>7, StartJoinIs, SavedIs DEF Kind
  <2>2. PICK open \in {w.app.listening, TRUE} :
             AppIs(v, w, w.app.pending, w.app.session, w.app.saved, w.app.farewell,
                   w.app.link, w.app.helper, open, w.app.late)
    BY <2>1
  <2>3. SteamInv(v) /\ v \in Views /\ v.app.running
    BY <1>1, <2>1, <2>2 DEF SteamSame, SteamInv, AppIs
  <2>4. PresenceOf(v) = "restoring" /\ PresenceOf(w) = "restoring"
    BY <1>1, <1>2, <2>2, <2>3, PresenceIs DEF AppIs
  <2>5. StateInv(v) /\ CallInv(v) /\ InUse(v)
    BY <1>1, <1>7, <2>2
       DEF StateInv, CallInv, AppIs, InSession, HasNetwork, Waiting, InUse
  <2>6. Way(s, v)
    BY <1>1, <1>2, <2>2, <2>4 DEF Way, Kept, AppIs, InSession, HasNetwork, Waiting
  <2> QED BY <2>3, <2>5, <2>6 DEF Mid, Core
<1> QED BY <1>3, <1>4, <1>5, <1>6, <1>7 DEF Restore

LEMMA WatchMid ==
  ASSUME NEW s \in Views, Core(s), Settled(s), s.app.running,
         NEW w, After(s, w), NEW v \in Watch(w)
  PROVE  Mid(s, v)
<1>1. /\ w \in Views /\ Pends(w) /\ w.app.running
      /\ Core(w) /\ StateInv(w) /\ CallInv(w) /\ SteamInv(w) /\ InUse(w)
      /\ Way(s, w) /\ Early(s, w) /\ Kept(s, w)
  BY DEF After, Core, CallInv, Pends, Way, Kept
<1>2. Mid(s, w)
  BY <1>1 DEF Mid
<1>3. w.app.link \in {"none", "reconnecting", "restoring"}
  BY <1>1 DEF Views, AppState
<1>4. ASSUME HasNetwork(w), w.app.link # "restoring", ~Waiting(w)
      PROVE  "call" \notin w.app.late /\ w.app.pending = NoPending
  BY <1>1, <1>4 DEF CallInv
<1>5. CASE HasNetwork(w) /\ w.app.link = "none" /\ InSession(w) /\ v = LoseConnection(w)
  <2>1. /\ AppIs(v, w, w.app.pending, w.app.session, w.app.saved, w.app.farewell,
                 IF w.steam.logged THEN "restoring" ELSE "reconnecting",
                 w.app.helper, w.app.listening,
                 IF w.steam.logged THEN w.app.late \ {"restore"} ELSE w.app.late)
        /\ SteamSame(v, w)
    BY <1>1, <1>5, LoseConnectionIs
  <2>2. SteamInv(v) /\ v \in Views /\ v.app.running
    BY <1>1, <2>1 DEF SteamSame, SteamInv, AppIs
  <2>3. ~Waiting(w)
    <3>1. Waiting(w) => w.app.pending.kind \in Kind
      BY <1>1 DEF Views, AppState, Pending, Waiting
    <3> QED BY <1>1, <1>5, <3>1 DEF CallInv, Asked, Kind
  <2>4. ~w.app.farewell
    BY <1>1, <1>5 DEF StateInv
  <2>5. PresenceOf(v) = "restoring"
    BY <2>1, <2>2, <2>4, PresenceIs DEF AppIs
  <2>6. StateInv(v) /\ CallInv(v) /\ InUse(v)
    BY <1>1, <1>5, <2>1, <2>3
       DEF StateInv, CallInv, AppIs, InSession, HasNetwork, Waiting, InUse
  <2>7. Way(s, v)
    BY <1>1, <1>5, <2>1, <2>5 DEF Way, Kept, AppIs, InSession, HasNetwork, Waiting
  <2> QED BY <2>2, <2>6, <2>7 DEF Mid, Core
<1>6. CASE HasNetwork(w) /\ w.app.link = "restoring"
             /\ v = [DropCall(w) EXCEPT !.app.link = "reconnecting"]
  <2> DEFINE d == DropCall(w)
  <2>1. /\ AppIs(d, w, NoPending, w.app.session, w.app.saved, w.app.farewell, w.app.link,
                 w.app.helper, w.app.listening, w.app.late \ {"call"})
        /\ SteamSame(d, w)
    BY <1>1, DropCallIs
  <2>2. v = [d EXCEPT !.app.link = "reconnecting"]
    BY <1>6
  <2> HIDE DEF d
  <2>3. /\ AppIs(v, d, d.app.pending, d.app.session, d.app.saved, d.app.farewell,
                 "reconnecting", d.app.helper, d.app.listening, d.app.late)
        /\ SteamSame(v, d)
    BY <2>1, <2>2 DEF Views, AppState, SteamState, AppIs, SteamSame
  <2>4. /\ AppIs(v, w, NoPending, w.app.session, w.app.saved, w.app.farewell,
                 "reconnecting", w.app.helper, w.app.listening, w.app.late \ {"call"})
        /\ SteamSame(v, w)
    BY <2>1, <2>3 DEF AppIs, SteamSame
  <2>5. SteamInv(v) /\ v \in Views /\ v.app.running
    BY <1>1, <2>4 DEF SteamSame, SteamInv, AppIs
  <2>6. ~w.app.farewell
    BY <1>1, <1>6 DEF StateInv
  <2>7. PresenceOf(v) = "restoring"
    BY <2>4, <2>5, <2>6, PresenceIs DEF AppIs
  <2>8. StateInv(v) /\ CallInv(v) /\ InUse(v)
    BY <1>1, <1>6, <2>4, Constants
       DEF StateInv, CallInv, AppIs, InSession, HasNetwork, Waiting, InUse
  <2>9. Way(s, v)
    BY <1>1, <1>6, <2>4, <2>7 DEF Way, Kept, AppIs, InSession, HasNetwork, Waiting
  <2> QED BY <2>5, <2>8, <2>9 DEF Mid, Core
<1>7. CASE HasNetwork(w) /\ w.app.link = "restoring" /\ v \in Restore(w)
  BY <1>7, RestoreMid
<1>8. CASE HasNetwork(w) /\ w.app.link = "reconnecting" /\ v \in Restore(BeginRestoring(w))
  <2> DEFINE b == BeginRestoring(w)
  <2>1. /\ AppIs(b, w, w.app.pending, w.app.session, w.app.saved, w.app.farewell,
                 "restoring", w.app.helper, w.app.listening, w.app.late \ {"restore"})
        /\ SteamSame(b, w)
    BY <1>1, BeginRestoringIs
  <2>2. v \in Restore(b)
    BY <1>8
  <2> HIDE DEF b
  <2>3. SteamInv(b) /\ b \in Views /\ b.app.running
    BY <1>1, <2>1 DEF SteamSame, SteamInv, AppIs
  <2>4. ~Waiting(w)
    <3>1. Waiting(w) => w.app.pending.kind \in Kind
      BY <1>1 DEF Views, AppState, Pending, Waiting
    <3> QED BY <1>1, <1>8, <3>1 DEF CallInv, Asked, Kind
  <2>5. ~w.app.farewell
    BY <1>1, <1>8 DEF StateInv
  <2>6. PresenceOf(b) = "restoring" /\ PresenceOf(w) = "restoring"
    BY <1>1, <1>8, <2>1, <2>3, <2>5, PresenceIs DEF AppIs
  <2>7. StateInv(b) /\ CallInv(b) /\ InUse(b)
    BY <1>1, <1>8, <2>1, <2>4
       DEF StateInv, CallInv, AppIs, InSession, HasNetwork, Waiting, InUse
  <2>8. Way(s, b) /\ Early(s, b)
    BY <1>1, <1>8, <2>1, <2>6
       DEF Way, Kept, Early, AppIs, InSession, HasNetwork, Waiting
  <2>9. HasNetwork(b) /\ b.app.link = "restoring" /\ After(s, b)
    BY <1>8, <2>1, <2>3, <2>7, <2>8 DEF After, Core, AppIs, HasNetwork
  <2> QED BY <2>2, <2>9, RestoreMid
<1>9. \/ v = w
      \/ HasNetwork(w) /\ w.app.link = "none" /\ InSession(w) /\ v = LoseConnection(w)
      \/ HasNetwork(w) /\ w.app.link = "restoring"
           /\ v = [DropCall(w) EXCEPT !.app.link = "reconnecting"]
      \/ HasNetwork(w) /\ w.app.link = "restoring" /\ v \in Restore(w)
      \/ HasNetwork(w) /\ w.app.link = "reconnecting" /\ v \in Restore(BeginRestoring(w))
  <2> DEFINE lost == ~w.steam.logged \/ w.steam.lost \cap {NoLobby, w.app.session.lobby} # {}
  <2>1. CASE ~HasNetwork(w) \/ (w.app.link = "none" /\ ~(InSession(w) /\ lost))
    BY <2>1 DEF Watch
  <2>2. CASE HasNetwork(w) /\ w.app.link = "none" /\ InSession(w) /\ lost
    BY <2>2 DEF Watch
  <2>3. CASE HasNetwork(w) /\ w.app.link = "restoring" /\ ~w.steam.logged
    BY <2>3 DEF Watch
  <2>4. CASE HasNetwork(w) /\ w.app.link = "reconnecting" /\ ~w.steam.logged
    BY <2>4 DEF Watch
  <2>5. CASE HasNetwork(w) /\ w.app.link # "none" /\ w.steam.logged
    BY <1>3, <2>5 DEF Watch
  <2> QED BY <1>3, <2>1, <2>2, <2>3, <2>4, <2>5
<1> QED BY <1>2, <1>5, <1>6, <1>7, <1>8, <1>9

-----------------------------------------------------------------------------
\* A step of Presence, or none.
Moves(n0, o0, p0, n, o, p) ==
  \/ n = n0 /\ o = o0 /\ p = p0
  \/ n0 = NoLobby /\ n = n0 /\ o = o0 /\ p \in {"closed", "none", "connecting"}
  \/ /\ n0 = NoLobby /\ p0 # "closed" /\ n \in Lobby /\ o \in BOOLEAN
     /\ p = IF o THEN "online" ELSE "offline"
  \/ n0 # NoLobby /\ p0 # "closed" /\ n = NoLobby /\ ~o /\ p = "none"
  \/ /\ n0 # NoLobby /\ o0 /\ n = n0 /\ o = o0
     /\ \/ p0 = "closed" /\ p \in {"closed", "connecting", "restoring"}
        \/ p0 = "connecting" /\ p \in {"closed", "connecting", "restoring", "online"}
        \/ p0 = "online" /\ p \in {"closed", "online", "restoring"}
        \/ p0 = "restoring" /\ p \in {"closed", "connecting", "restoring", "online", "offline"}
        \/ p0 = "offline" /\ p \in {"closed", "connecting", "restoring", "offline"}
  \/ n0 # NoLobby /\ o0 /\ p0 \notin {"closed", "offline"} /\ n = n0 /\ ~o /\ p = "offline"
  \/ n0 # NoLobby /\ ~o0 /\ n = n0 /\ o = o0 /\ p \in {"closed", "offline"}
  \/ n0 # NoLobby /\ p0 = "offline" /\ n = n0 /\ o /\ p \in {"connecting", "restoring"}

Move(s, w) == Moves(s.app.saved.lobby, s.app.saved.online, PresenceOf(s),
                    w.app.saved.lobby, w.app.saved.online, PresenceOf(w))

\* What a step leaves.
Done(s, w) == Core(w) /\ Settled(w) /\ Move(s, w)

LEMMA BooleanIs ==
  ASSUME NEW w \in Views
  PROVE  /\ w.app.saved.online \in BOOLEAN /\ w.app.running \in BOOLEAN
         /\ w.app.session.joined \in BOOLEAN /\ w.app.farewell \in BOOLEAN
BY DEF Views, AppState, Saved, Session

\* Whoever is offline is not connected in any way.
LEMMA OfflineIs ==
  ASSUME NEW w, Core(w), w.app.running, HasNetwork(w), ~w.app.saved.online
  PROVE  /\ PresenceOf(w) = "offline" /\ ~InSession(w) /\ ~Waiting(w)
         /\ w.app.link = "none" /\ ~w.app.farewell
<1>1. w \in Views /\ StateInv(w) /\ CallInv(w)
  BY DEF Core
<1>2. ~InSession(w) /\ w.app.link = "none" /\ ~w.app.farewell
  BY <1>1 DEF StateInv
<1>3. ~Waiting(w)
  <2>1. Waiting(w) => w.app.pending.kind \in Kind
    BY <1>1 DEF Views, AppState, Pending, Waiting
  <2> QED BY <1>1, <2>1 DEF CallInv, Asked, Kind
<1> QED BY <1>1, <1>2, <1>3, PresenceIs DEF Waiting

LEMMA KeptMoves ==
  ASSUME NEW s, Core(s), s.app.running, NEW w, Core(w), Settled(w), Kept(s, w)
  PROVE  Move(s, w)
<1>1. s \in Views /\ w \in Views /\ StateInv(s) /\ StateInv(w) /\ w.app.running
  BY DEF Core, Kept
<1>2. CASE ~HasNetwork(s)
  <2>1. ~HasNetwork(w)
    BY <1>2 DEF Kept, HasNetwork
  <2>2. s.app.saved.online = FALSE /\ w.app.saved.online = FALSE
    BY <1>1, <1>2, <2>1, BooleanIs DEF StateInv
  <2>3. w.app.link = "none" /\ (w.app.session.joined => w.app.farewell)
    BY <1>1, <2>1 DEF StateInv, Settled
  <2>4. w.app.pending.kind = "rejoin" \/ w.app.pending.kind # "rejoin"
    OBVIOUS
  <2>5. PresenceOf(w) \in {"none", "connecting"}
    <3>1. CASE w.app.farewell
      BY <1>1, <3>1, PresenceIs
    <3>2. CASE ~w.app.farewell /\ InSession(w)
      BY <1>1, <2>3, <3>2, PresenceIs
    <3>3. CASE ~w.app.farewell /\ ~InSession(w)
      BY <1>1, <2>1, <2>3, <3>3, PresenceIs
    <3> QED BY <3>1, <3>2, <3>3
  <2> QED BY <1>2, <2>1, <2>2, <2>5 DEF Move, Moves, HasNetwork
<1>3. CASE HasNetwork(s) /\ ~HasNetwork(w)
  <2>1. ~InSession(w) /\ ~Waiting(w) /\ w.app.link = "none" /\ ~w.app.farewell
    BY <1>1, <1>3 DEF Kept, StateInv
  <2>2. PresenceOf(w) = "none"
    BY <1>1, <1>3, <2>1, PresenceIs DEF Waiting
  <2>3. ~w.app.saved.online
    BY <1>1, <1>3 DEF StateInv
  <2>4. PresenceOf(s) # "closed"
    BY DEF PresenceOf
  <2> QED BY <1>3, <2>2, <2>3, <2>4 DEF Move, Moves, HasNetwork
<1>4. CASE HasNetwork(s) /\ HasNetwork(w)
  <2>1. w.app.saved.lobby = s.app.saved.lobby /\ s.app.saved.lobby # NoLobby
    BY <1>4 DEF Kept, HasNetwork
  <2>2. ~s.app.farewell /\ ~w.app.farewell
    BY <1>1, <1>4 DEF StateInv
  <2>3. /\ PresenceOf(s) \in {"connecting", "online", "restoring", "offline"}
        /\ PresenceOf(w) \in {"connecting", "online", "restoring", "offline"}
    BY <1>1, <1>4, <2>2 DEF PresenceOf
  <2>4. CASE w.app.saved.online
    <3>1. s.app.saved.online
      BY <1>4, <2>4 DEF Kept
    <3>2. w.app.saved.online = s.app.saved.online
      BY <1>1, <2>4, <3>1, BooleanIs
    <3>3. /\ PresenceOf(w) = "offline" => PresenceOf(s) \in {"restoring", "offline"}
          /\ PresenceOf(w) = "online" => PresenceOf(s) \in {"connecting", "restoring", "online"}
          /\ PresenceOf(w) = "connecting" => PresenceOf(s) \in {"connecting", "restoring"}
      BY <1>4, <2>4 DEF Kept
    <3> QED BY <2>1, <2>3, <3>1, <3>2, <3>3 DEF Move, Moves
  <2>5. CASE ~w.app.saved.online /\ s.app.saved.online
    <3>1. PresenceOf(s) # "offline"
      BY <1>4, <2>5 DEF Kept
    <3>2. PresenceOf(w) = "offline"
      BY <1>1, <1>4, <2>5, OfflineIs
    <3> QED BY <2>1, <2>3, <2>5, <3>1, <3>2 DEF Move, Moves
  <2>6. CASE ~w.app.saved.online /\ ~s.app.saved.online
    <3>1. w.app.saved.online = s.app.saved.online
      BY <1>1, <2>6, BooleanIs
    <3>2. PresenceOf(w) = "offline"
      BY <1>1, <1>4, <2>6, OfflineIs
    <3> QED BY <2>1, <2>6, <3>1, <3>2 DEF Move, Moves
  <2> QED BY <2>4, <2>5, <2>6
<1> QED BY <1>2, <1>3, <1>4

LEMMA NoneMoves ==
  ASSUME NEW s, Core(s), s.app.running, NEW w, Core(w), ~HasNetwork(w),
         PresenceOf(w) = "none"
  PROVE  Move(s, w)
<1>1. s \in Views /\ w \in Views /\ StateInv(s) /\ StateInv(w)
  BY DEF Core
<1>2. PresenceOf(s) # "closed"
  BY DEF PresenceOf
<1>3. w.app.saved.online = FALSE
  BY <1>1, BooleanIs DEF StateInv
<1>4. ~HasNetwork(s) => s.app.saved.online = FALSE
  BY <1>1, BooleanIs DEF StateInv
<1> QED BY <1>2, <1>3, <1>4 DEF Move, Moves, HasNetwork

\* With no session and no call, the PC goes back online.
LEMMA GoBackOnlineIs ==
  ASSUME NEW w \in Views, StateInv(w), CallInv(w), SteamInv(w), w.app.running,
         HasNetwork(w), w.app.saved.online, ~InSession(w), ~Waiting(w),
         w.app.link = "none", NEW v \in GoBackOnline(w)
  PROVE  /\ Core(v) /\ Settled(v) /\ v.app.running /\ v.app.saved = w.app.saved
         /\ PresenceOf(v) \in {"connecting", "restoring"}
<1>1. /\ ~w.app.farewell /\ Pends(w) /\ w.app.helper = "none" /\ ~w.app.session.joined
      /\ "call" \notin w.app.late
  BY DEF StateInv, Pends, CallInv
<1>2. ASSUME AppIs(v, w, w.app.pending, v.app.session, w.app.saved, w.app.farewell,
                   IF w.steam.logged THEN "restoring" ELSE "reconnecting", "none",
                   v.app.listening,
                   IF w.steam.logged THEN w.app.late \ {"restore"} ELSE w.app.late),
             v.app.session \in {NoSession, w.app.session}, SteamSame(v, w)
      PROVE  /\ Core(v) /\ Settled(v) /\ v.app.running /\ v.app.saved = w.app.saved
             /\ PresenceOf(v) \in {"connecting", "restoring"}
  <2>1. SteamInv(v) /\ v \in Views /\ v.app.running /\ v.app.saved = w.app.saved
    BY <1>2 DEF SteamSame, SteamInv, AppIs
  <2>2. ~InSession(v) /\ ~v.app.session.joined
    BY <1>1, <1>2, Constants DEF InSession
  <2>3. StateInv(v) /\ CallInv(v)
    BY <1>1, <1>2, <2>2
       DEF StateInv, CallInv, AppIs, InSession, HasNetwork, Waiting
  <2>4. Settled(v)
    BY <1>1, <1>2, <2>1, <2>2 DEF Settled, AppIs
  <2>5. PresenceOf(v) = "restoring"
    BY <1>1, <1>2, <2>1, PresenceIs DEF AppIs
  <2> QED BY <2>1, <2>3, <2>4, <2>5 DEF Core
<1>3. CASE v \in Ask(w, "rejoin", w.app.saved.lobby)
  <2>1. PICK c \in Call : AskResult(v, w, "rejoin", w.app.saved.lobby, c)
    BY <1>3, AskIs, SavedIs DEF Kind
  <2>2. v \in Views /\ v.app.running /\ v.app.saved = w.app.saved
    BY <2>1 DEF AskResult, AppIs
  <2>3. SteamInv(v)
    BY <2>1 DEF AskResult, SteamInv
  <2>4. Waiting(v) /\ ~InSession(v)
    BY <2>1 DEF AskResult, AppIs, Waiting, InSession
  <2>5. StateInv(v) /\ Settled(v)
    BY <1>1, <2>1, <2>2, <2>4 DEF AskResult, StateInv, Settled, AppIs, InSession, HasNetwork
  <2>6. Asked(v, "rejoin", v.steam.calls[c].lobby) /\ v.steam.calls[c].status # "free"
    BY <1>1, <2>1 DEF AskResult, Asked, AppIs, HasNetwork, InSession
  <2>7. CallInv(v)
    BY <2>1, <2>4, <2>6 DEF AskResult, CallInv
  <2>8. PresenceOf(v) = "connecting"
    BY <1>1, <2>1, <2>2, <2>4, PresenceIs DEF AskResult, AppIs
  <2> QED BY <2>2, <2>3, <2>5, <2>7, <2>8 DEF Core
<1>4. CASE v \in StartJoin(w, "rejoin", w.app.saved.lobby)
             /\ v \notin Ask(w, "rejoin", w.app.saved.lobby)
  <2>1. /\ SteamSame(v, w)
        /\ AppIs(v, w, w.app.pending, NoSession, w.app.saved, w.app.farewell,
                 IF w.steam.logged THEN "restoring" ELSE "reconnecting", "none", FALSE,
                 IF w.steam.logged THEN w.app.late \ {"restore"} ELSE w.app.late)
    BY <1>1, <1>4, StartJoinIs, SavedIs DEF Kind
  <2>2. /\ AppIs(v, w, w.app.pending, v.app.session, w.app.saved, w.app.farewell,
                 IF w.steam.logged THEN "restoring" ELSE "reconnecting", "none",
                 v.app.listening,
                 IF w.steam.logged THEN w.app.late \ {"restore"} ELSE w.app.late)
        /\ v.app.session = NoSession
    BY <2>1 DEF AppIs
  <2> QED BY <1>2, <2>1, <2>2
<1>5. CASE v = LoseConnection(w)
  <2>1. /\ SteamSame(v, w)
        /\ AppIs(v, w, w.app.pending, w.app.session, w.app.saved, w.app.farewell,
                 IF w.steam.logged THEN "restoring" ELSE "reconnecting",
                 w.app.helper, w.app.listening,
                 IF w.steam.logged THEN w.app.late \ {"restore"} ELSE w.app.late)
    BY <1>5, LoseConnectionIs
  <2>2. /\ AppIs(v, w, w.app.pending, v.app.session, w.app.saved, w.app.farewell,
                 IF w.steam.logged THEN "restoring" ELSE "reconnecting", "none",
                 v.app.listening,
                 IF w.steam.logged THEN w.app.late \ {"restore"} ELSE w.app.late)
        /\ v.app.session = w.app.session
    BY <1>1, <2>1 DEF AppIs
  <2> QED BY <1>2, <2>1, <2>2
<1> QED BY <1>3, <1>4, <1>5 DEF GoBackOnline

\* Outside of any network, the PC asks for one, or cannot.
LEMMA AskedIs ==
  ASSUME NEW w \in Views, StateInv(w), CallInv(w), SteamInv(w), w.app.running,
         ~HasNetwork(w), ~InSession(w), ~Waiting(w), ~w.app.farewell,
         NEW kind \in {"create", "join"}, NEW lobby \in Lobby \cup {NoLobby},
         NEW v, v \in StartJoin(w, kind, lobby) \/ v = CloseNetwork(w)
  PROVE  /\ Core(v) /\ Settled(v) /\ v.app.running /\ ~HasNetwork(v)
         /\ PresenceOf(v) = "none"
<1>1. /\ w.app.helper = "none" /\ ~w.app.session.joined /\ w.app.link = "none"
      /\ "call" \notin w.app.late /\ w.app.pending = NoPending /\ Pends(w)
  BY DEF StateInv, CallInv, Pends
<1>2. ASSUME AppIs(v, w, w.app.pending, NoSession, w.app.saved, w.app.farewell, w.app.link,
                   "none", FALSE, w.app.late), SteamSame(v, w)
      PROVE  /\ Core(v) /\ Settled(v) /\ v.app.running /\ ~HasNetwork(v)
             /\ PresenceOf(v) = "none"
  <2>1. SteamInv(v) /\ v \in Views /\ v.app.running /\ ~HasNetwork(v)
    BY <1>2 DEF SteamSame, SteamInv, AppIs, HasNetwork
  <2>2. StateInv(v) /\ CallInv(v)
    BY <1>1, <1>2, Constants
       DEF StateInv, CallInv, AppIs, InSession, HasNetwork, Waiting
  <2>3. Settled(v)
    BY <1>2, <2>1, Constants DEF Settled, AppIs
  <2>4. PresenceOf(v) = "none"
    BY <1>1, <1>2, <2>1, PresenceIs, Constants DEF AppIs, InSession
  <2> QED BY <2>1, <2>2, <2>3, <2>4 DEF Core
<1>3. CASE v \in Ask(w, kind, lobby)
  <2>1. PICK c \in Call : AskResult(v, w, kind, lobby, c)
    BY <1>3, AskIs DEF Kind
  <2>2. v \in Views /\ v.app.running /\ ~HasNetwork(v) /\ ~InSession(v)
    BY <2>1 DEF AskResult, AppIs, HasNetwork, InSession
  <2>3. SteamInv(v)
    BY <2>1 DEF AskResult, SteamInv
  <2>4. Waiting(v) /\ v.app.pending.kind \in {"create", "join"}
    BY <2>1 DEF AskResult, AppIs, Waiting
  <2>5. StateInv(v) /\ Settled(v)
    BY <1>1, <2>1, <2>2, <2>4 DEF AskResult, StateInv, Settled, AppIs, InSession, HasNetwork
  <2>6. Asked(v, kind, v.steam.calls[c].lobby) /\ v.steam.calls[c].status # "free"
    BY <1>1, <2>1, <2>2 DEF AskResult, Asked, AppIs, HasNetwork, InSession
  <2>7. CallInv(v)
    BY <2>1, <2>4, <2>6 DEF AskResult, CallInv
  <2>8. PresenceOf(v) = "none"
    BY <1>1, <2>1, <2>2, <2>4, PresenceIs DEF AskResult, AppIs
  <2> QED BY <2>2, <2>3, <2>5, <2>7, <2>8 DEF Core
<1>4. CASE v \in StartJoin(w, kind, lobby) /\ v \notin Ask(w, kind, lobby)
  BY <1>1, <1>2, <1>4, StartJoinIs DEF Kind
<1>5. CASE v = CloseNetwork(w)
  BY <1>2, <1>5, CloseNetworkIs
<1> QED BY <1>3, <1>4, <1>5

-----------------------------------------------------------------------------
\* The session was driven; now its results.

LEMMA ProcessedMid ==
  ASSUME NEW s, NEW w, Mid(s, w), w.app.running, InSession(w), ~w.app.farewell,
         NEW v \in Processed(w)
  PROVE  Mid(s, v) /\ InSession(v) /\ ~v.app.farewell /\ v.app.running
<1>1. /\ w \in Views /\ StateInv(w) /\ CallInv(w) /\ SteamInv(w) /\ InUse(w)
      /\ Way(s, w) /\ Kept(s, w)
  BY DEF Mid, Core, Way
<1>2. PICK joined \in {w.app.session.joined, w.app.session.joined \/ Follows(w)},
           refused \in {w.app.session.refused} \cup
             (IF w.app.session.joined THEN {} ELSE {"denied", "unavailable"}) :
        v = [w EXCEPT !.app.session = [lobby |-> w.app.session.lobby, joined |-> joined,
                                       refused |-> refused]]
  BY DEF Processed
<1> DEFINE t == [lobby |-> w.app.session.lobby, joined |-> joined, refused |-> refused]
<1>3. w.app.session \in Session
  BY <1>1 DEF Views, AppState
<1>4. joined \in BOOLEAN /\ (w.app.session.joined => joined)
      /\ (joined /\ ~w.app.session.joined => w.app.link = "none")
  BY <1>1, <1>2, BooleanIs DEF Follows
<1>5. refused \in {"", "denied", "unavailable"}
  BY <1>2, <1>3 DEF Session
<1>6. t \in Session /\ t.lobby = w.app.session.lobby /\ t.joined = joined
  BY <1>3, <1>4, <1>5 DEF Session
<1>7. v = [w EXCEPT !.app.session = t]
  BY <1>2
<1> HIDE DEF t
<1>9. /\ AppIs(v, w, w.app.pending, t, w.app.saved, w.app.farewell, w.app.link,
               w.app.helper, w.app.listening, w.app.late)
      /\ SteamSame(v, w)
  BY <1>1, <1>6, <1>7, SessionIs
<1>10. SteamInv(v) /\ v \in Views /\ v.app.running /\ InSession(v) /\ ~v.app.farewell
  BY <1>1, <1>6, <1>9 DEF SteamSame, SteamInv, AppIs, InSession
<1>11. StateInv(v) /\ CallInv(v) /\ InUse(v)
  <2>1. StateInv(v) /\ InUse(v)
    BY <1>1, <1>6, <1>9 DEF StateInv, AppIs, InSession, HasNetwork, Waiting, InUse
  <2>2. CASE ~Waiting(w)
    BY <1>1, <1>9, <2>1, <2>2 DEF CallInv, AppIs, Waiting
  <2>3. CASE Waiting(w)
    <3> DEFINE p == w.app.pending
    <3>1. /\ p.call \in Call /\ w.steam.calls[p.call].status # "free"
          /\ Asked(w, p.kind, w.steam.calls[p.call].lobby)
      BY <1>1, <2>3 DEF CallInv
    <3>2. Asked(v, p.kind, w.steam.calls[p.call].lobby)
      BY <1>6, <1>9, <3>1 DEF Asked, AppIs, InSession, HasNetwork
    <3>3. v.app.pending = p /\ v.steam.calls = w.steam.calls /\ Waiting(v)
      BY <1>9, <2>3 DEF AppIs, SteamSame, Waiting
    <3> QED BY <2>1, <3>1, <3>2, <3>3 DEF CallInv
  <2> QED BY <2>2, <2>3
<1>12. CASE w.app.link # "none"
  <2>1. PresenceOf(v) = "restoring" /\ PresenceOf(w) = "restoring"
    BY <1>1, <1>9, <1>10, <1>12, PresenceIs DEF AppIs
  <2>2. Way(s, v)
    BY <1>1, <1>9, <1>10, <2>1 DEF Way, Kept, AppIs, InSession, HasNetwork, Waiting
  <2> QED BY <1>10, <1>11, <2>2 DEF Mid, Core
<1>13. CASE w.app.link = "none"
  <2>1. PresenceOf(w) = IF w.app.session.joined THEN "online" ELSE "connecting"
    BY <1>1, <1>13, PresenceIs
  <2>2. PresenceOf(v) = IF joined THEN "online" ELSE "connecting"
    BY <1>6, <1>9, <1>10, <1>13, PresenceIs DEF AppIs
  <2>3. Way(s, v)
    BY <1>1, <1>4, <1>9, <1>10, <1>13, <2>1, <2>2
       DEF Way, Kept, AppIs, InSession, HasNetwork, Waiting
  <2> QED BY <1>10, <1>11, <2>3 DEF Mid, Core
<1> QED BY <1>12, <1>13

\* A session with no call under way, or one that is being restored.
LEMMA SessionWaits ==
  ASSUME NEW w, Core(w), InSession(w), w.app.link = "none"
  PROVE  ~Waiting(w) /\ w.app.pending = NoPending /\ "call" \notin w.app.late
<1>1. Waiting(w) => w.app.pending.kind \in {"create", "join", "rejoin", "restore", "farewell"}
  BY DEF Core, Views, AppState, Pending, Waiting, Kind
<1> QED BY <1>1 DEF Core, CallInv, Asked

LEMMA GoneKept ==
  ASSUME NEW s, NEW w, Mid(s, w), Settled(w), w.app.running, InSession(w), ~w.app.farewell,
         NEW v, v = HelperGone(w)
  PROVE  Core(v) /\ Settled(v) /\ Kept(s, v)
<1>1. /\ w \in Views /\ Core(w) /\ StateInv(w) /\ CallInv(w) /\ SteamInv(w) /\ InUse(w)
      /\ Way(s, w) /\ Kept(s, w) /\ Pends(w)
  BY DEF Mid, Core, Way, CallInv, Pends
<1>2. CASE v = w
  BY <1>1, <1>2
<1>3. CASE HasNetwork(w) /\ v = BeOffline(w)
  <2>1. /\ AppIs(v, w, NoPending, NoSession, OfflineIn(w), w.app.farewell,
                 "none", "none", FALSE, w.app.late \ {"call", "restore"})
        /\ SteamSame(v, w)
    BY <1>1, <1>3, BeOfflineIs
  <2>2. OfflineIn(w).lobby = w.app.saved.lobby /\ OfflineIn(w).online = FALSE
    BY <1>1, <1>3 DEF OfflineIn, StateInv
  <2>3. SteamInv(v) /\ v \in Views /\ v.app.running
    BY <1>1, <2>1 DEF SteamSame, SteamInv, AppIs
  <2>4. StateInv(v) /\ CallInv(v)
    BY <1>1, <1>3, <2>1, <2>2, Constants
       DEF StateInv, CallInv, AppIs, InSession, HasNetwork, Waiting
  <2>5. Settled(v)
    BY <2>1, <2>3, Constants DEF Settled, AppIs
  <2>6. PresenceOf(v) = "offline"
    BY <1>3, <2>1, <2>2, <2>3, PresenceIs, Constants DEF AppIs, InSession, HasNetwork
  <2>7. w.app.saved.online
    BY <1>1, <1>3 DEF StateInv
  <2>8. Kept(s, v)
    BY <1>1, <1>3, <2>1, <2>2, <2>6, <2>7, Constants
       DEF Kept, AppIs, InSession, HasNetwork, Waiting
  <2> QED BY <2>3, <2>4, <2>5, <2>8 DEF Core
<1>4. CASE ~HasNetwork(w) /\ v = CloseNetwork(w)
  <2>1. /\ AppIs(v, w, w.app.pending, NoSession, w.app.saved, w.app.farewell, w.app.link,
                 "none", FALSE, w.app.late)
        /\ SteamSame(v, w)
    BY <1>1, <1>4, CloseNetworkIs
  <2>2. w.app.link = "none"
    BY <1>1, <1>4 DEF StateInv
  <2>3. ~Waiting(w) /\ w.app.pending = NoPending /\ "call" \notin w.app.late
    BY <1>1, <2>2, SessionWaits
  <2>4. SteamInv(v) /\ v \in Views /\ v.app.running
    BY <1>1, <2>1 DEF SteamSame, SteamInv, AppIs
  <2>5. StateInv(v) /\ CallInv(v)
    BY <1>1, <1>4, <2>1, <2>3, Constants
       DEF StateInv, CallInv, AppIs, InSession, HasNetwork, Waiting
  <2>6. Settled(v)
    BY <2>1, <2>4, Constants DEF Settled, AppIs
  <2>7. Kept(s, v)
    BY <1>1, <1>4, <2>1, <2>3, Constants
       DEF Kept, AppIs, InSession, HasNetwork, Waiting
  <2> QED BY <2>4, <2>5, <2>6, <2>7 DEF Core
<1> QED BY <1>2, <1>3, <1>4 DEF HelperGone

LEMMA RefusedKept ==
  ASSUME NEW s, NEW w, Mid(s, w), w.app.running, InSession(w), ~w.app.farewell,
         w.app.link = "none", NEW v, v = Refused(w)
  PROVE  Core(v) /\ Settled(v) /\ Kept(s, v)
<1> DEFINE c == CloseNetwork(w)
<1>1. /\ w \in Views /\ Core(w) /\ StateInv(w) /\ CallInv(w) /\ SteamInv(w) /\ InUse(w)
      /\ Way(s, w) /\ Kept(s, w)
  BY DEF Mid, Core, Way
<1>2. /\ AppIs(c, w, w.app.pending, NoSession, w.app.saved, w.app.farewell, w.app.link,
               "none", FALSE, w.app.late)
      /\ SteamSame(c, w)
  BY <1>1, CloseNetworkIs
<1>3. ~Waiting(w) /\ w.app.pending = NoPending /\ "call" \notin w.app.late
  BY <1>1, SessionWaits
<1>4. v = [c EXCEPT !.app.saved.online = FALSE] \/ v = ForgetNetwork(c)
  BY DEF Refused
<1> HIDE DEF c
<1>5. c \in Views
  BY <1>2 DEF AppIs
<1>6. PICK n \in {NoNetwork, [lobby |-> w.app.saved.lobby, online |-> FALSE]} :
        /\ AppIs(v, c, c.app.pending, c.app.session, n, c.app.farewell, c.app.link,
                 c.app.helper, c.app.listening, c.app.late)
        /\ SteamSame(v, c)
  <2>1. CASE v = [c EXCEPT !.app.saved.online = FALSE]
    <3>1. c.app.saved.lobby = w.app.saved.lobby
      BY <1>2 DEF AppIs
    <3> QED BY <1>5, <2>1, <3>1, WishIs
  <2>2. CASE v = ForgetNetwork(c)
    BY <1>5, <2>2, ForgetNetworkIs
  <2> QED BY <1>4, <2>1, <2>2
<1>7. n.online = FALSE /\ n.lobby \in {NoLobby, w.app.saved.lobby}
  BY Constants
<1>8. /\ AppIs(v, w, w.app.pending, NoSession, n, w.app.farewell, w.app.link, "none",
               FALSE, w.app.late)
      /\ SteamSame(v, w)
  BY <1>2, <1>6 DEF AppIs, SteamSame
<1>9. SteamInv(v) /\ v \in Views /\ v.app.running
  BY <1>1, <1>8 DEF SteamSame, SteamInv, AppIs
<1>10. StateInv(v) /\ CallInv(v)
  BY <1>1, <1>3, <1>7, <1>8, Constants
     DEF StateInv, CallInv, AppIs, InSession, HasNetwork, Waiting
<1>11. Settled(v)
  BY <1>8, <1>9, Constants DEF Settled, AppIs
<1>12. HasNetwork(v) => w.app.saved.online /\ PresenceOf(v) = "offline"
  BY <1>1, <1>7, <1>8, <1>9, <1>10, OfflineIs DEF AppIs, StateInv, HasNetwork, Core
<1>13. Kept(s, v)
  BY <1>1, <1>3, <1>7, <1>8, <1>12, Constants
     DEF Kept, AppIs, InSession, HasNetwork, Waiting
<1> QED BY <1>9, <1>10, <1>11, <1>13 DEF Core

LEMMA SnapshotIs ==
  ASSUME NEW w \in Views, w.app.session.joined
  PROVE  /\ AppIs(Snapshot(w), w, w.app.pending, w.app.session,
                  [lobby |-> w.app.session.lobby, online |-> TRUE],
                  w.app.farewell, w.app.link, w.app.helper, w.app.listening, w.app.late)
         /\ SteamSame(Snapshot(w), w)
<1> DEFINE n == [lobby |-> w.app.session.lobby, online |-> TRUE]
<1>1. w.app.session.lobby \in Lobby \cup {NoLobby}
  BY DEF Views, AppState, Session
<1>2. n \in Saved
  BY <1>1 DEF Saved
<1>3. Snapshot(w) = [w EXCEPT !.app.saved = n]
  BY DEF Snapshot
<1> HIDE DEF n
<1>4. /\ AppIs(Snapshot(w), w, w.app.pending, w.app.session, n,
               w.app.farewell, w.app.link, w.app.helper, w.app.listening, w.app.late)
      /\ SteamSame(Snapshot(w), w)
  BY <1>2, <1>3, SaveIs
<1> QED BY <1>4 DEF n

\* The network that has just let this PC in is saved, unless it has no adapter
\* any more.
LEMMA NewNetworkDone ==
  ASSUME NEW s, Core(s), s.app.running, NEW w, Mid(s, w), w.app.running, InSession(w),
         ~w.app.farewell, w.app.link = "none", w.app.session.joined, ~HasNetwork(w),
         NEW v, v = HelperGone(Snapshot(w))
  PROVE  Done(s, v)
<1> DEFINE y == Snapshot(w)
<1>1. /\ w \in Views /\ Core(w) /\ StateInv(w) /\ CallInv(w) /\ SteamInv(w) /\ InUse(w)
      /\ Way(s, w) /\ Kept(s, w) /\ StateInv(s) /\ s \in Views
  BY DEF Mid, Core, Way
<1>2. /\ AppIs(y, w, w.app.pending, w.app.session,
               [lobby |-> w.app.session.lobby, online |-> TRUE],
               w.app.farewell, w.app.link, w.app.helper, w.app.listening, w.app.late)
      /\ SteamSame(y, w)
  BY <1>1, SnapshotIs
<1>3. v = HelperGone(y)
  OBVIOUS
<1> HIDE DEF y
<1>4. ~Waiting(w) /\ w.app.pending = NoPending /\ "call" \notin w.app.late
  BY <1>1, SessionWaits
<1>5. /\ y \in Views /\ SteamInv(y) /\ y.app.running /\ InSession(y) /\ HasNetwork(y)
      /\ y.app.saved.lobby = w.app.session.lobby /\ y.app.saved.online = TRUE
      /\ y.app.session = w.app.session /\ Pends(y)
  BY <1>1, <1>2, <1>4 DEF SteamSame, SteamInv, AppIs, InSession, HasNetwork, Pends, Waiting
<1>6. w.app.session.lobby \in Lobby
  BY <1>1 DEF Views, AppState, Session, InSession
<1>7. s.app.saved.lobby = NoLobby /\ PresenceOf(s) # "closed"
  BY <1>1 DEF Kept, HasNetwork, PresenceOf
<1>8. CASE v = y
  <2>1. StateInv(y) /\ CallInv(y)
    BY <1>1, <1>2, <1>4, <1>5
       DEF StateInv, CallInv, AppIs, InSession, HasNetwork, Waiting
  <2>2. Settled(y)
    BY <1>2, <1>5 DEF Settled, AppIs
  <2>3. PresenceOf(y) = "online"
    BY <1>2, <1>5, PresenceIs DEF AppIs
  <2>4. Move(s, y)
    BY <1>5, <1>6, <1>7, <2>3 DEF Move, Moves
  <2> QED BY <1>5, <1>8, <2>1, <2>2, <2>4 DEF Done, Core
<1>9. CASE v = BeOffline(y)
  <2>1. /\ AppIs(v, y, NoPending, NoSession, OfflineIn(y), y.app.farewell,
                 "none", "none", FALSE, y.app.late \ {"call", "restore"})
        /\ SteamSame(v, y)
    BY <1>5, <1>9, BeOfflineIs
  <2>2. OfflineIn(y).lobby = w.app.session.lobby /\ OfflineIn(y).online = FALSE
    BY <1>5 DEF OfflineIn
  <2>3. ~y.app.farewell
    BY <1>2 DEF AppIs
  <2>4. /\ SteamInv(v) /\ v \in Views /\ v.app.running /\ HasNetwork(v)
        /\ v.app.saved.lobby = w.app.session.lobby /\ v.app.saved.online = FALSE
    BY <1>5, <1>6, <2>1, <2>2, LobbyAssumption DEF SteamSame, SteamInv, AppIs, HasNetwork
  <2>5. StateInv(v) /\ CallInv(v)
    BY <2>1, <2>3, <2>4, Constants
       DEF StateInv, CallInv, AppIs, InSession, HasNetwork, Waiting
  <2>6. Settled(v)
    BY <2>1, <2>3, <2>4, Constants DEF Settled, AppIs
  <2>7. PresenceOf(v) = "offline"
    BY <2>4, <2>5, OfflineIs DEF Core
  <2>8. Move(s, v)
    BY <1>6, <1>7, <2>4, <2>7 DEF Move, Moves
  <2> QED BY <2>4, <2>5, <2>6, <2>8 DEF Done, Core
<1> QED BY <1>3, <1>5, <1>8, <1>9 DEF HelperGone

LEMMA CheckDone ==
  ASSUME NEW s, Core(s), s.app.running, NEW w, Mid(s, w), w.app.running, InSession(w),
         ~w.app.farewell, NEW v, v = CheckNetwork(w)
  PROVE  Done(s, v)
<1>1. /\ w \in Views /\ Core(w) /\ StateInv(w) /\ CallInv(w) /\ SteamInv(w) /\ InUse(w)
  BY DEF Mid, Core
<1>2. ASSUME Core(v), Settled(v), Kept(s, v)
      PROVE  Done(s, v)
  BY <1>2, KeptMoves DEF Done
<1>3. CASE w.app.link # "none"
  <2>1. Settled(w)
    BY <1>1, <1>3 DEF StateInv, Settled
  <2> QED BY <1>2, <1>3, <2>1, GoneKept DEF CheckNetwork
<1>4. CASE w.app.link = "none" /\ w.app.session.refused # "" /\ ~w.app.session.joined
  BY <1>2, <1>4, RefusedKept DEF CheckNetwork
<1>5. CASE w.app.link = "none" /\ w.app.session.refused = "" /\ ~w.app.session.joined
  <2>1. v = HelperGone(w)
    BY <1>5 DEF CheckNetwork, Snapshot
  <2>2. Settled(w)
    BY <1>5 DEF Settled
  <2> QED BY <1>2, <2>1, <2>2, GoneKept
<1>6. CASE w.app.link = "none" /\ w.app.session.joined /\ ~HasNetwork(w)
  BY <1>6, NewNetworkDone DEF CheckNetwork
<1>7. CASE w.app.link = "none" /\ w.app.session.joined /\ HasNetwork(w)
  <2> DEFINE y == Snapshot(w)
  <2>1. /\ AppIs(y, w, w.app.pending, w.app.session,
                 [lobby |-> w.app.session.lobby, online |-> TRUE],
                 w.app.farewell, w.app.link, w.app.helper, w.app.listening, w.app.late)
        /\ SteamSame(y, w)
    BY <1>1, <1>7, SnapshotIs
  <2>2. v = HelperGone(y)
    BY <1>7 DEF CheckNetwork
  <2> HIDE DEF y
  <2>3. w.app.session.lobby = w.app.saved.lobby /\ w.app.saved.online = TRUE
    BY <1>1, <1>7, BooleanIs DEF StateInv
  <2>4. AppIs(y, w, w.app.pending, w.app.session, w.app.saved,
              w.app.farewell, w.app.link, w.app.helper, w.app.listening, w.app.late)
    BY <1>1, <2>1, <2>3, SavedIs DEF AppIs
  <2>5. y \in Views /\ SteamInv(y) /\ y.app.running /\ InSession(y) /\ ~y.app.farewell
    BY <1>1, <2>1, <2>4 DEF SteamSame, SteamInv, AppIs, InSession
  <2>6. ~Waiting(w) /\ w.app.pending = NoPending /\ "call" \notin w.app.late
    BY <1>1, <1>7, SessionWaits
  <2>7. StateInv(y) /\ CallInv(y) /\ InUse(y) /\ Settled(y)
    BY <1>1, <1>7, <2>4, <2>5, <2>6
       DEF StateInv, CallInv, Settled, InUse, AppIs, InSession, HasNetwork, Waiting
  <2>8. PresenceOf(y) = PresenceOf(w)
    BY <2>4 DEF PresenceOf, AppIs, InSession, HasNetwork
  <2>9. Way(s, y)
    BY <2>4, <2>8 DEF Mid, Way, Kept, AppIs, InSession, HasNetwork, Waiting
  <2>10. Mid(s, y)
    BY <2>5, <2>7, <2>9 DEF Mid, Core
  <2> QED BY <1>2, <2>2, <2>5, <2>7, <2>10, GoneKept
<1> QED BY <1>3, <1>4, <1>5, <1>6, <1>7

LEMMA InviteDone ==
  ASSUME NEW s, Core(s), s.app.running, NEW w, Mid(s, w), w.app.running, ~InSession(w),
         ~w.app.farewell, ~Waiting(w), w.app.link = "none", NEW v \in Invite(w)
  PROVE  Done(s, v)
<1>1. /\ w \in Views /\ Core(w) /\ StateInv(w) /\ CallInv(w) /\ SteamInv(w) /\ InUse(w)
      /\ Way(s, w) /\ Kept(s, w) /\ s \in Views /\ StateInv(s)
  BY DEF Mid, Core, Way
<1>2. CASE HasNetwork(w)
  <2> DEFINE y == [w EXCEPT !.app.saved.online = TRUE]
  <2>1. /\ AppIs(y, w, w.app.pending, w.app.session,
                 [lobby |-> w.app.saved.lobby, online |-> TRUE],
                 w.app.farewell, w.app.link, w.app.helper, w.app.listening, w.app.late)
        /\ SteamSame(y, w)
    BY <1>1, WishIs
  <2>2. v \in GoBackOnline(y)
    BY <1>2 DEF Invite
  <2> HIDE DEF y
  <2>3. /\ y \in Views /\ SteamInv(y) /\ y.app.running /\ ~InSession(y) /\ ~Waiting(y)
        /\ HasNetwork(y) /\ y.app.saved.online = TRUE /\ y.app.link = "none"
        /\ y.app.saved.lobby = w.app.saved.lobby
    BY <1>1, <1>2, <2>1 DEF SteamSame, SteamInv, AppIs, InSession, HasNetwork, Waiting
  <2>4. StateInv(y) /\ CallInv(y)
    BY <1>1, <1>2, <2>1, <2>3
       DEF StateInv, CallInv, AppIs, InSession, HasNetwork, Waiting
  <2>5. /\ Core(v) /\ Settled(v) /\ v.app.running /\ v.app.saved = y.app.saved
        /\ PresenceOf(v) \in {"connecting", "restoring"}
    BY <2>2, <2>3, <2>4, GoBackOnlineIs
  <2>6. PresenceOf(w) = "offline"
    BY <1>1, <1>2, PresenceIs DEF Waiting
  <2>7. s.app.saved.lobby = v.app.saved.lobby /\ s.app.saved.lobby # NoLobby
    BY <1>1, <1>2, <2>3, <2>5 DEF Kept, HasNetwork
  <2>8. /\ PresenceOf(s) \in {"connecting", "restoring", "offline"}
        /\ ~s.app.saved.online => PresenceOf(s) = "offline"
    <3>1. PresenceOf(s) # "online"
      BY <1>1, <1>2, <2>6 DEF Way
    <3>2. ~s.app.farewell /\ HasNetwork(s)
      BY <1>1, <2>7 DEF StateInv, HasNetwork
    <3>3. ~s.app.saved.online => PresenceOf(s) = "offline"
      BY <3>2, OfflineIs
    <3> QED BY <1>1, <3>1, <3>2, <3>3 DEF PresenceOf
  <2>9. Move(s, v)
    <3>1. CASE s.app.saved.online
      <4>1. s.app.saved.online = v.app.saved.online
        BY <1>1, <2>3, <2>5, <3>1, BooleanIs
      <4> QED BY <2>5, <2>7, <2>8, <3>1, <4>1 DEF Move, Moves
    <3>2. CASE ~s.app.saved.online
      BY <2>3, <2>5, <2>7, <2>8, <3>2 DEF Move, Moves
    <3> QED BY <3>1, <3>2
  <2> QED BY <2>5, <2>9 DEF Done
<1>3. CASE ~HasNetwork(w)
  <2>1. PICK lobby \in Lobby : v \in StartJoin(w, "join", lobby)
    BY <1>3 DEF Invite
  <2>2. /\ Core(v) /\ Settled(v) /\ v.app.running /\ ~HasNetwork(v)
        /\ PresenceOf(v) = "none"
    BY <1>1, <1>3, <2>1, AskedIs
  <2> QED BY <2>2, NoneMoves DEF Done
<1> QED BY <1>2, <1>3

LEMMA AfterWatchDone ==
  ASSUME NEW s, Core(s), s.app.running, NEW w, Mid(s, w), w.app.running, ~w.app.farewell,
         NEW invited, NEW v \in AfterWatch(w, invited)
  PROVE  Done(s, v)
<1>1. CASE InSession(w)
  <2>1. PICK u \in Processed(w) : v = CheckNetwork(u)
    BY <1>1 DEF AfterWatch
  <2>2. Mid(s, u) /\ InSession(u) /\ ~u.app.farewell /\ u.app.running
    BY <1>1, <2>1, ProcessedMid
  <2> QED BY <2>1, <2>2, CheckDone
<1>2. CASE ~InSession(w) /\ invited /\ ~Waiting(w) /\ w.app.link = "none"
  BY <1>2, InviteDone DEF AfterWatch
<1>3. CASE ~InSession(w) /\ ~(invited /\ ~Waiting(w) /\ w.app.link = "none")
  <2>1. v = w
    BY <1>3 DEF AfterWatch
  <2>2. Core(w) /\ Kept(s, w) /\ Settled(w)
    BY <1>3 DEF Mid, Core, StateInv, InUse, Settled, Way
  <2> QED BY <2>1, <2>2, KeptMoves DEF Done
<1> QED BY <1>1, <1>2, <1>3

LEMMA FarewellDone ==
  ASSUME NEW s, Core(s), s.app.running, NEW w, Mid(s, w), w.app.running,
         w.app.farewell, InSession(w), NEW v \in Farewell(w)
  PROVE  Done(s, v)
<1>1. /\ w \in Views /\ Core(w) /\ StateInv(w) /\ CallInv(w) /\ SteamInv(w) /\ InUse(w)
      /\ Kept(s, w)
  BY DEF Mid, Core, Way
<1>2. CASE v = w
  <2>1. Settled(w)
    BY <1>1 DEF InUse, Settled
  <2> QED BY <1>1, <1>2, <2>1, KeptMoves DEF Done
<1>3. CASE v = EndFarewell(CloseNetwork(w))
  <2> DEFINE c == CloseNetwork(w)
  <2>1. /\ AppIs(c, w, w.app.pending, NoSession, w.app.saved, w.app.farewell, w.app.link,
                 "none", FALSE, w.app.late)
        /\ SteamSame(c, w)
    BY <1>1, CloseNetworkIs
  <2>2. v = EndFarewell(c)
    BY <1>3
  <2> HIDE DEF c
  <2>3. c \in Views
    BY <2>1 DEF AppIs
  <2>4. /\ AppIs(v, c, c.app.pending, c.app.session, c.app.saved, FALSE, c.app.link,
                 c.app.helper, c.app.listening, c.app.late \ {"farewell"})
        /\ SteamSame(v, c)
    BY <2>2, <2>3, EndFarewellIs
  <2>5. /\ AppIs(v, w, w.app.pending, NoSession, w.app.saved, FALSE, w.app.link,
                 "none", FALSE, w.app.late \ {"farewell"})
        /\ SteamSame(v, w)
    BY <2>1, <2>4 DEF AppIs, SteamSame
  <2>6. ~HasNetwork(w) /\ w.app.link = "none"
    BY <1>1 DEF StateInv
  <2>7. ~Waiting(w) /\ w.app.pending = NoPending /\ "call" \notin w.app.late
    BY <1>1, <2>6, SessionWaits
  <2>8. SteamInv(v) /\ v \in Views /\ v.app.running /\ ~HasNetwork(v)
    BY <1>1, <2>5, <2>6 DEF SteamSame, SteamInv, AppIs, HasNetwork
  <2>9. StateInv(v) /\ CallInv(v)
    BY <1>1, <2>5, <2>6, <2>7, Constants
       DEF StateInv, CallInv, AppIs, InSession, HasNetwork, Waiting
  <2>10. Settled(v)
    BY <2>5, <2>8, Constants DEF Settled, AppIs
  <2>11. PresenceOf(v) = "none"
    BY <2>5, <2>6, <2>7, <2>8, PresenceIs, Constants DEF AppIs, InSession
  <2> QED BY <2>8, <2>9, <2>10, <2>11, NoneMoves DEF Done, Core
<1> QED BY <1>2, <1>3 DEF Farewell

\* Handing out what was lost changes nothing else.
LEMMA LostDone ==
  ASSUME NEW s, NEW w, Done(s, w)
  PROVE  Done(s, [w EXCEPT !.steam.lost = {}])
<1> DEFINE v == [w EXCEPT !.steam.lost = {}]
<1>1. w \in Views /\ StateInv(w) /\ CallInv(w) /\ SteamInv(w) /\ Settled(w) /\ Move(s, w)
  BY DEF Done, Core
<1>2. v.app = w.app /\ v.steam.calls = w.steam.calls /\ v \in Views
  BY <1>1 DEF Views, SteamState
<1> HIDE DEF v
<1>3. InSession(v) = InSession(w) /\ HasNetwork(v) = HasNetwork(w) /\ Waiting(v) = Waiting(w)
  BY <1>2 DEF InSession, HasNetwork, Waiting
<1>4. StateInv(v) /\ SteamInv(v) /\ Settled(v)
  BY <1>1, <1>2, <1>3 DEF StateInv, SteamInv, Settled
<1>5. CallInv(v)
  BY <1>1, <1>2, <1>3 DEF CallInv, Asked
<1>6. Move(s, v)
  BY <1>1, <1>2, <1>3 DEF Move, PresenceOf
<1> QED BY <1>2, <1>4, <1>5, <1>6 DEF Done, Core, v

LEMMA TickDone ==
  ASSUME NEW s, Core(s), Settled(s), s.app.running,
         NEW r \in Results(LeaveAbandoned(s)), NEW invited, NEW v \in AfterResults(r, invited)
  PROVE  Done(s, v)
<1>1. s \in Views
  BY DEF Core
<1>2. After(s, r)
  BY <1>1, ResultsAfter
<1>3. r.app.running /\ Mid(s, r) /\ InUse(r) /\ Core(r) /\ Kept(s, r)
  BY <1>2 DEF After, Mid, Way, Kept
<1>4. CASE r.app.farewell /\ InSession(r)
  BY <1>3, <1>4, FarewellDone DEF AfterResults
<1>5. CASE r.app.farewell /\ ~InSession(r)
  <2>1. v = r
    BY <1>5 DEF AfterResults
  <2>2. Settled(r)
    BY <1>3, <1>5 DEF InUse, Settled
  <2> QED BY <1>3, <2>1, <2>2, KeptMoves DEF Done
<1>6. CASE ~r.app.farewell
  <2>1. PICK w \in Watch(r) : v \in AfterWatch(w, invited)
    BY <1>6 DEF AfterResults
  <2>2. Mid(s, w)
    BY <1>1, <1>2, <2>1, WatchMid
  <2>3. w.app.running
    BY <2>2 DEF Mid, Way, Kept
  <2>4. ~w.app.farewell
    <3>1. CASE ~HasNetwork(r)
      <4>1. w = r
        BY <2>1, <3>1 DEF Watch
      <4> QED BY <1>6, <4>1
    <3>2. CASE HasNetwork(r)
      BY <1>3, <2>2, <3>2 DEF Mid, Way, Kept, HasNetwork
    <3> QED BY <3>1, <3>2
  <2> QED BY <2>1, <2>2, <2>3, <2>4, AfterWatchDone
<1> QED BY <1>4, <1>5, <1>6

-----------------------------------------------------------------------------
\* The user's steps.

LEMMA GoOnlineDone ==
  ASSUME NEW s, Core(s), Settled(s), PresenceOf(s) = "offline", ~Waiting(s),
         NEW v \in GoBackOnline([s EXCEPT !.app.saved.online = TRUE])
  PROVE  Done(s, v)
<1>1. s \in Views /\ StateInv(s) /\ CallInv(s) /\ SteamInv(s)
  BY DEF Core
<1>2. /\ s.app.running /\ ~s.app.farewell /\ s.app.link = "none" /\ ~InSession(s)
      /\ HasNetwork(s)
  BY DEF PresenceOf
<1> DEFINE y == [s EXCEPT !.app.saved.online = TRUE]
<1>3. /\ AppIs(y, s, s.app.pending, s.app.session,
               [lobby |-> s.app.saved.lobby, online |-> TRUE],
               s.app.farewell, s.app.link, s.app.helper, s.app.listening, s.app.late)
      /\ SteamSame(y, s)
  BY <1>1, WishIs
<1>4. v \in GoBackOnline(y)
  OBVIOUS
<1> HIDE DEF y
<1>5. /\ y \in Views /\ SteamInv(y) /\ y.app.running /\ ~InSession(y) /\ ~Waiting(y)
      /\ HasNetwork(y) /\ y.app.saved.online = TRUE /\ y.app.link = "none"
      /\ y.app.saved.lobby = s.app.saved.lobby
  BY <1>1, <1>2, <1>3 DEF SteamSame, SteamInv, AppIs, InSession, HasNetwork, Waiting
<1>6. StateInv(y) /\ CallInv(y)
  BY <1>1, <1>2, <1>3, <1>5
     DEF StateInv, CallInv, AppIs, InSession, HasNetwork, Waiting
<1>7. /\ Core(v) /\ Settled(v) /\ v.app.saved = y.app.saved
      /\ PresenceOf(v) \in {"connecting", "restoring"}
  BY <1>4, <1>5, <1>6, GoBackOnlineIs
<1>8. Move(s, v)
  BY <1>2, <1>5, <1>7 DEF Move, Moves, HasNetwork
<1> QED BY <1>7, <1>8 DEF Done

LEMMA GoOfflineDone ==
  ASSUME NEW s, Core(s), Settled(s), PresenceOf(s) \in {"connecting", "online", "restoring"}
  PROVE  Done(s, BeOffline(s))
<1> DEFINE v == BeOffline(s)
<1>1. s \in Views /\ StateInv(s) /\ CallInv(s) /\ SteamInv(s) /\ Pends(s)
  BY DEF Core, CallInv, Pends
<1>2. s.app.running /\ ~s.app.farewell
  BY DEF PresenceOf
<1>3. /\ AppIs(v, s, NoPending, NoSession, OfflineIn(s), s.app.farewell,
               "none", "none", FALSE, s.app.late \ {"call", "restore"})
      /\ SteamSame(v, s)
  BY <1>1, BeOfflineIs
<1> HIDE DEF v
<1>4. /\ OfflineIn(s).online = FALSE
      /\ OfflineIn(s).lobby = s.app.saved.lobby
  BY <1>1, <1>2 DEF OfflineIn, StateInv, Settled
<1>5. /\ SteamInv(v) /\ v \in Views /\ v.app.running
      /\ v.app.saved.online = FALSE /\ v.app.saved.lobby = s.app.saved.lobby
  BY <1>1, <1>2, <1>3, <1>4 DEF SteamSame, SteamInv, AppIs
<1>6. StateInv(v) /\ CallInv(v)
  BY <1>1, <1>2, <1>3, <1>5, Constants
     DEF StateInv, CallInv, AppIs, InSession, HasNetwork, Waiting
<1>7. Settled(v)
  BY <1>2, <1>3, <1>5, Constants DEF Settled, AppIs
<1>8. CASE HasNetwork(s)
  <2>1. HasNetwork(v)
    BY <1>5, <1>8 DEF HasNetwork
  <2>2. PresenceOf(v) = "offline"
    BY <1>5, <1>6, <2>1, OfflineIs DEF Core
  <2>3. s.app.saved.online
    BY <1>2, <1>8, OfflineIs
  <2>4. Move(s, v)
    BY <1>5, <1>8, <2>2, <2>3 DEF Move, Moves, HasNetwork
  <2> QED BY <1>5, <1>6, <1>7, <2>4 DEF Done, Core, v
<1>9. CASE ~HasNetwork(s)
  <2>1. ~HasNetwork(v)
    BY <1>5, <1>9 DEF HasNetwork
  <2>2. PresenceOf(v) = "none"
    BY <1>2, <1>3, <1>5, <2>1, PresenceIs, Constants DEF AppIs, InSession
  <2> QED BY <1>2, <1>5, <1>6, <1>7, <2>1, <2>2, NoneMoves DEF Done, Core, v
<1> QED BY <1>8, <1>9

\* Out of any network, and not saying goodbye.
LEMMA LeftDone ==
  ASSUME NEW s, Core(s), s.app.running, NEW v,
         AppIs(v, s, NoPending, NoSession, NoNetwork, FALSE, "none", "none", FALSE, v.app.late),
         "call" \notin v.app.late, SteamSame(v, s)
  PROVE  Done(s, v)
<1>1. /\ SteamInv(v) /\ v \in Views /\ v.app.running /\ ~HasNetwork(v) /\ ~InSession(v)
      /\ ~Waiting(v)
  BY Constants DEF Core, SteamSame, SteamInv, AppIs, HasNetwork, InSession, Waiting
<1>2. StateInv(v) /\ CallInv(v) /\ Settled(v)
  BY <1>1, Constants DEF StateInv, CallInv, Settled, AppIs
<1>3. PresenceOf(v) = "none"
  BY <1>1, PresenceIs DEF AppIs, Waiting
<1> QED BY <1>1, <1>2, <1>3, NoneMoves DEF Done, Core

\* Out of the network, the other members are told.
LEMMA ToldDone ==
  ASSUME NEW s, Core(s), s.app.running, NEW v, v \in Views, v.app.running,
         v.app.farewell, ~HasNetwork(v), v.app.saved = NoNetwork, v.app.link = "none",
         v.app.helper = "none", v.app.session.joined => InSession(v), v.app.listening,
         InSession(v) \/ Waiting(v), CallInv(v), SteamInv(v)
  PROVE  Done(s, v)
<1>1. StateInv(v) /\ Settled(v)
  BY Constants DEF StateInv, Settled
<1>2. PresenceOf(v) = "none"
  BY PresenceIs
<1> QED BY <1>1, <1>2, NoneMoves DEF Done, Core

LEMMA GoodbyeIs ==
  ASSUME NEW w \in Views, NEW b \in BOOLEAN
  PROVE  /\ AppIs([w EXCEPT !.app.farewell = b], w, w.app.pending, w.app.session,
                  w.app.saved, b, w.app.link, w.app.helper, w.app.listening, w.app.late)
         /\ SteamSame([w EXCEPT !.app.farewell = b], w)
BY DEF Views, AppState, SteamState, AppIs, SteamSame

LEMMA LeavingDone ==
  ASSUME NEW s, Core(s), Settled(s), s.app.running, ~s.app.farewell,
         HasNetwork(s) \/ InSession(s), NEW v \in Leaving(s)
  PROVE  Done(s, v)
<1> DEFINE f == ForgetNetwork(s)
           told == [f EXCEPT !.app.helper = "none", !.app.farewell = TRUE]
<1>1. s \in Views /\ StateInv(s) /\ CallInv(s) /\ SteamInv(s) /\ Pends(s)
  BY DEF Core, CallInv, Pends
<1>2. /\ AppIs(f, s, s.app.pending, s.app.session, NoNetwork, s.app.farewell, s.app.link,
               s.app.helper, s.app.listening, s.app.late)
      /\ SteamSame(f, s)
  BY <1>1, ForgetNetworkIs
<1>3. \/ s.app.link # "none" /\ v = GiveUp(f)
      \/ s.app.link = "none" /\ InSession(s) /\ (v \in Farewell(told) \/ v = CloseNetwork(f))
      \/ s.app.link = "none" /\ ~InSession(s) /\ Waiting(s)
           /\ v = [told EXCEPT !.app.pending.kind = "farewell"]
      \/ /\ s.app.link = "none" /\ ~InSession(s) /\ ~Waiting(s)
         /\ \E u \in StartJoin(f, "farewell", s.app.saved.lobby) :
              v = [u EXCEPT !.app.farewell = Waiting(u)]
  <2>1. CASE s.app.link # "none"
    BY <2>1 DEF Leaving
  <2>2. CASE s.app.link = "none" /\ InSession(s)
    BY <2>2 DEF Leaving
  <2>3. CASE s.app.link = "none" /\ ~InSession(s) /\ Waiting(s)
    BY <2>3 DEF Leaving
  <2>4. CASE s.app.link = "none" /\ ~InSession(s) /\ ~Waiting(s)
    BY <2>4 DEF Leaving
  <2> QED BY <2>1, <2>2, <2>3, <2>4
<1> HIDE DEF f
<1>4. f \in Views /\ Pends(f)
  BY <1>1, <1>2 DEF AppIs, Pends, Waiting
<1>5. /\ AppIs(told, f, f.app.pending, f.app.session, f.app.saved, TRUE, f.app.link,
               "none", f.app.listening, f.app.late)
      /\ SteamSame(told, f)
  BY <1>4 DEF Views, AppState, SteamState, AppIs, SteamSame
<1> HIDE DEF told
<1>6. /\ AppIs(told, s, s.app.pending, s.app.session, NoNetwork, TRUE, s.app.link,
               "none", s.app.listening, s.app.late)
      /\ SteamSame(told, s)
  BY <1>2, <1>5 DEF AppIs, SteamSame
<1>7. told \in Views
  BY <1>6 DEF AppIs
<1>8. CASE s.app.link # "none" /\ v = GiveUp(f)
  <2>1. /\ AppIs(v, f, NoPending, NoSession, f.app.saved, f.app.farewell, "none", "none",
                 FALSE, f.app.late \ {"call", "restore"})
        /\ SteamSame(v, f)
    BY <1>4, <1>8, GiveUpIs
  <2>2. /\ AppIs(v, s, NoPending, NoSession, NoNetwork, FALSE, "none", "none",
                 FALSE, v.app.late)
        /\ SteamSame(v, s) /\ "call" \notin v.app.late
    BY <1>1, <1>2, <2>1, BooleanIs DEF AppIs, SteamSame
  <2> QED BY <2>2, LeftDone
<1>9. CASE s.app.link = "none" /\ InSession(s) /\ (v \in Farewell(told) \/ v = CloseNetwork(f))
  <2>1. ~Waiting(s) /\ s.app.pending = NoPending /\ "call" \notin s.app.late
    BY <1>9, SessionWaits
  <2>2. CASE v = told
    <3>1. /\ v \in Views /\ v.app.running /\ v.app.farewell /\ v.app.saved = NoNetwork
          /\ v.app.link = "none" /\ v.app.helper = "none" /\ v.app.listening
          /\ v.app.session = s.app.session /\ v.app.pending = NoPending
          /\ v.app.late = s.app.late
      BY <1>1, <1>6, <1>9, <2>1, <2>2 DEF AppIs, StateInv
    <3>2. ~HasNetwork(v) /\ InSession(v) /\ SteamInv(v) /\ CallInv(v)
      BY <1>1, <1>6, <1>9, <2>1, <2>2, <3>1, Constants
         DEF HasNetwork, InSession, SteamInv, SteamSame, CallInv, Waiting
    <3> QED BY <3>1, <3>2, ToldDone
  <2>3. CASE v = EndFarewell(CloseNetwork(told))
    <3> DEFINE c == CloseNetwork(told)
    <3>1. /\ AppIs(c, told, told.app.pending, NoSession, told.app.saved, told.app.farewell,
                   told.app.link, "none", FALSE, told.app.late)
          /\ SteamSame(c, told)
      BY <1>7, CloseNetworkIs
    <3>2. v = EndFarewell(c)
      BY <2>3
    <3> HIDE DEF c
    <3>3. c \in Views
      BY <3>1 DEF AppIs
    <3>4. /\ AppIs(v, c, c.app.pending, c.app.session, c.app.saved, FALSE, c.app.link,
                   c.app.helper, c.app.listening, c.app.late \ {"farewell"})
          /\ SteamSame(v, c)
      BY <3>2, <3>3, EndFarewellIs
    <3>5. /\ AppIs(v, s, NoPending, NoSession, NoNetwork, FALSE, "none", "none", FALSE,
                   v.app.late)
          /\ SteamSame(v, s) /\ "call" \notin v.app.late
      BY <1>6, <1>9, <2>1, <3>1, <3>4 DEF AppIs, SteamSame
    <3> QED BY <3>5, LeftDone
  <2>4. CASE v = CloseNetwork(f)
    <3>1. /\ AppIs(v, f, f.app.pending, NoSession, f.app.saved, f.app.farewell,
                   f.app.link, "none", FALSE, f.app.late)
          /\ SteamSame(v, f)
      BY <1>4, <2>4, CloseNetworkIs
    <3>2. /\ AppIs(v, s, NoPending, NoSession, NoNetwork, FALSE, "none", "none", FALSE,
                   v.app.late)
          /\ SteamSame(v, s) /\ "call" \notin v.app.late
      BY <1>1, <1>2, <1>9, <2>1, <3>1, BooleanIs DEF AppIs, SteamSame
    <3> QED BY <3>2, LeftDone
  <2> QED BY <1>9, <2>2, <2>3, <2>4 DEF Farewell
<1>10. CASE s.app.link = "none" /\ ~InSession(s) /\ Waiting(s)
             /\ v = [told EXCEPT !.app.pending.kind = "farewell"]
  <2> DEFINE p == [kind |-> "farewell", call |-> s.app.pending.call]
  <2>1. told.app.pending = s.app.pending /\ s.app.pending \in Pending
    BY <1>1, <1>6 DEF AppIs, Views, AppState
  <2>2. [s.app.pending EXCEPT !.kind = "farewell"] = p
    BY <2>1 DEF Pending
  <2>3. p \in Pending /\ p.kind = "farewell" /\ p.call = s.app.pending.call
    BY <2>1 DEF Pending, Kind
  <2>4. v = [told EXCEPT !.app.pending = p]
    BY <1>7, <1>10, <2>1, <2>2 DEF Views, AppState
  <2> HIDE DEF p
  <2>5. /\ AppIs(v, told, p, told.app.session, told.app.saved, told.app.farewell,
                 told.app.link, told.app.helper, told.app.listening, told.app.late)
        /\ SteamSame(v, told)
    BY <1>7, <2>3, <2>4 DEF Views, AppState, SteamState, AppIs, SteamSame
  <2>6. /\ AppIs(v, s, p, s.app.session, NoNetwork, TRUE, "none", "none",
                 s.app.listening, s.app.late)
        /\ SteamSame(v, s)
    BY <1>6, <1>10, <2>5 DEF AppIs, SteamSame
  <2>7. /\ s.app.pending.call \in Call
        /\ s.steam.calls[s.app.pending.call].status # "free" /\ s.app.listening
    BY <1>1, <1>10 DEF CallInv, Asked
  <2>8. /\ v \in Views /\ v.app.running /\ v.app.farewell /\ v.app.saved = NoNetwork
        /\ v.app.link = "none" /\ v.app.helper = "none" /\ v.app.listening
        /\ ~HasNetwork(v) /\ ~InSession(v) /\ Waiting(v) /\ SteamInv(v)
    BY <1>1, <1>10, <2>3, <2>6, <2>7, Constants
       DEF AppIs, HasNetwork, InSession, Waiting, SteamInv, SteamSame
  <2>9. v.app.session.joined => InSession(v)
    BY <1>1, <2>6 DEF StateInv, AppIs, InSession
  <2>10. v.app.pending = p /\ v.steam.calls = s.steam.calls
    BY <2>6 DEF AppIs, SteamSame
  <2>11. Asked(v, "farewell", s.steam.calls[s.app.pending.call].lobby)
    BY <2>8 DEF Asked
  <2>12. CallInv(v)
    BY <2>3, <2>7, <2>8, <2>10, <2>11 DEF CallInv
  <2> QED BY <2>8, <2>9, <2>12, ToldDone
<1>11. ASSUME s.app.link = "none", ~InSession(s), ~Waiting(s),
              NEW u \in StartJoin(f, "farewell", s.app.saved.lobby),
              v = [u EXCEPT !.app.farewell = Waiting(u)]
       PROVE  Done(s, v)
  <2>1. /\ s.app.pending = NoPending /\ "call" \notin s.app.late
        /\ ~s.app.session.joined /\ s.app.helper = "none"
    BY <1>1, <1>11 DEF CallInv, StateInv
  <2>2. CASE u \in Ask(f, "farewell", s.app.saved.lobby)
    <3>1. PICK c \in Call : AskResult(u, f, "farewell", s.app.saved.lobby, c)
      BY <1>1, <1>4, <2>2, AskIs, SavedIs DEF Kind
    <3>2. u \in Views /\ Waiting(u)
      BY <3>1 DEF AskResult, AppIs, Waiting
    <3>3. v = [u EXCEPT !.app.farewell = TRUE]
      BY <1>11, <3>2
    <3>4. /\ AppIs(v, u, u.app.pending, u.app.session, u.app.saved, TRUE, u.app.link,
                   u.app.helper, u.app.listening, u.app.late)
          /\ SteamSame(v, u)
      BY <3>2, <3>3, GoodbyeIs
    <3>5. /\ v \in Views /\ v.app.running /\ v.app.farewell /\ v.app.saved = NoNetwork
          /\ v.app.link = "none" /\ v.app.helper = "none" /\ v.app.listening
          /\ v.app.session = s.app.session
      <4>1. /\ u.app.session = s.app.session /\ u.app.saved = NoNetwork /\ u.app.link = "none"
            /\ u.app.helper = "none"
        BY <1>2, <1>11, <2>1, <3>1 DEF AskResult, AppIs
      <4>2. u.app.listening /\ u.app.running
        BY <1>2, <3>1 DEF AskResult, AppIs
      <4>3. v.app.listening /\ v.app.running /\ v.app.farewell
        BY <3>4, <4>2 DEF AppIs
      <4> QED BY <3>4, <4>1, <4>3 DEF AppIs
    <3>6. v.app.pending.kind = "farewell" /\ v.app.pending.call = c
      BY <3>1, <3>4 DEF AskResult, AppIs
    <3>7. /\ v.steam.calls[c].status = "asked"
          /\ \A d \in Call : d # c => v.steam.calls[d] = s.steam.calls[d]
      BY <1>2, <3>1, <3>4 DEF AskResult, SteamSame
    <3>8. ~HasNetwork(v) /\ ~InSession(v) /\ Waiting(v) /\ SteamInv(v)
      BY <1>1, <1>11, <3>5, <3>6, <3>7, Constants
         DEF HasNetwork, InSession, Waiting, SteamInv
    <3>9. Asked(v, "farewell", v.steam.calls[c].lobby)
      BY <3>5, <3>8 DEF Asked
    <3>10. CallInv(v)
      BY <3>6, <3>7, <3>8, <3>9 DEF CallInv
    <3> QED BY <2>1, <3>5, <3>8, <3>10, ToldDone
  <2>3. CASE u \notin Ask(f, "farewell", s.app.saved.lobby)
    <3>1. /\ SteamSame(u, f)
          /\ AppIs(u, f, f.app.pending, NoSession, f.app.saved, FALSE, f.app.link,
                   "none", FALSE, f.app.late \ {"farewell"})
      BY <1>1, <1>4, <1>11, <2>3, StartJoinIs, SavedIs DEF Kind
    <3>2. u \in Views /\ ~Waiting(u)
      BY <1>2, <2>1, <3>1, Constants DEF AppIs, Waiting
    <3>3. v = [u EXCEPT !.app.farewell = FALSE]
      BY <1>11, <3>2 DEF Waiting
    <3>4. /\ AppIs(v, u, u.app.pending, u.app.session, u.app.saved, FALSE, u.app.link,
                   u.app.helper, u.app.listening, u.app.late)
          /\ SteamSame(v, u)
      BY <3>2, <3>3, GoodbyeIs
    <3>5. /\ AppIs(v, s, NoPending, NoSession, NoNetwork, FALSE, "none", "none", FALSE,
                   v.app.late)
          /\ SteamSame(v, s) /\ "call" \notin v.app.late
      BY <1>2, <1>11, <2>1, <3>1, <3>4 DEF AppIs, SteamSame
    <3> QED BY <3>5, LeftDone
  <2> QED BY <2>2, <2>3
<1> QED BY <1>3, <1>8, <1>9, <1>10, <1>11

-----------------------------------------------------------------------------
\* The steps of everything around the app.

\* The app goes on as it was.
LEMMA SteamDone ==
  ASSUME NEW s, Core(s), Settled(s), NEW v \in Views, v.app = s.app, CallInv(v), SteamInv(v)
  PROVE  Done(s, v)
<1>1. /\ InSession(v) = InSession(s) /\ HasNetwork(v) = HasNetwork(s)
      /\ Waiting(v) = Waiting(s)
  BY DEF InSession, HasNetwork, Waiting
<1>2. StateInv(v) /\ Settled(v)
  BY <1>1 DEF Core, StateInv, Settled
<1>3. PresenceOf(v) = PresenceOf(s)
  BY <1>1 DEF PresenceOf
<1> QED BY <1>2, <1>3 DEF Done, Core, Move, Moves

LEMMA SameCallsDone ==
  ASSUME NEW s, Core(s), Settled(s), NEW v \in Views, v.app = s.app,
         v.steam.calls = s.steam.calls
  PROVE  Done(s, v)
<1>1. CallInv(v) /\ SteamInv(v)
  BY DEF Core, CallInv, Asked, SteamInv, InSession, HasNetwork, Waiting
<1> QED BY <1>1, SteamDone

LEMMA NotRunningIs ==
  ASSUME NEW n \in Saved, NEW v, v.app = NotRunning(n), v.steam \in SteamState, v \in Views,
         \A c \in Call : v.steam.calls[c].status = "free"
  PROVE  /\ NotRunning(n).saved = n /\ NotRunning(n).running = FALSE
         /\ CallInv(v) /\ SteamInv(v) /\ Settled(v)
         /\ (n.online => n.lobby # NoLobby) => Core(v)
<1> DEFINE a == NotRunning(n)
<1>1. /\ a.saved = n /\ a.running = FALSE /\ a.pending = NoPending /\ a.session = NoSession
      /\ a.farewell = FALSE /\ a.link = "none" /\ a.helper = "none" /\ a.listening = FALSE
      /\ a.late = {}
  BY DEF NotRunning
<1> HIDE DEF a
<1>2. v.app = a
  BY DEF a
<1>3. ~Waiting(v) /\ ~InSession(v)
  BY <1>1, <1>2, Constants DEF Waiting, InSession
<1>4. CallInv(v) /\ SteamInv(v)
  BY <1>1, <1>2, <1>3 DEF CallInv, SteamInv
<1>5. Settled(v)
  BY <1>1, <1>2, Constants DEF Settled, a
<1>6. ASSUME n.online => n.lobby # NoLobby
      PROVE  Core(v)
  <2>1. StateInv(v)
    BY <1>1, <1>2, <1>3, <1>6, Constants DEF StateInv, HasNetwork
  <2> QED BY <1>4, <2>1 DEF Core
<1> QED BY <1>1, <1>4, <1>5, <1>6 DEF a

\* The last thing that is saved when the app ends is what was saved before.
LEMMA LastSaved ==
  ASSUME NEW s, Core(s), Settled(s)
  PROVE  (IF s.app.farewell THEN s ELSE Snapshot(s)).app.saved = s.app.saved
<1>1. s \in Views /\ StateInv(s)
  BY DEF Core
<1>2. CASE s.app.farewell \/ ~s.app.session.joined
  BY <1>2 DEF Snapshot
<1>3. CASE ~s.app.farewell /\ s.app.session.joined
  <2>1. Snapshot(s).app.saved = [lobby |-> s.app.session.lobby, online |-> TRUE]
    BY <1>1, <1>3, SnapshotIs DEF AppIs
  <2>2. s.app.session.lobby = s.app.saved.lobby /\ s.app.saved.online = TRUE
    BY <1>1, <1>3, BooleanIs DEF StateInv, Settled
  <2> QED BY <1>1, <1>3, <2>1, <2>2, SavedIs
<1> QED BY <1>2, <1>3

LEMMA ExitDone ==
  ASSUME NEW s, Core(s), Settled(s), s.app.running
  PROVE  Done(s, [app |-> NotRunning(s.app.saved),
                  steam |-> [s.steam EXCEPT !.inside = {}, !.lost = {},
                                            !.calls = [c \in Call |-> FreeCall]]])
<1> DEFINE k == [c \in Call |-> FreeCall]
           t == [s.steam EXCEPT !.inside = {}, !.lost = {}, !.calls = k]
           n == s.app.saved
           a == NotRunning(n)
           v == [app |-> a, steam |-> t]
<1>1. s \in Views /\ StateInv(s) /\ n \in Saved
  BY SavedIs DEF Core
<1>2. k \in [Call -> CallState] /\ \A c \in Call : k[c].status = "free"
  BY DEF FreeCall, CallState
<1> HIDE DEF k
<1>3. t \in SteamState /\ t.calls = k
  BY <1>1, <1>2 DEF Views, SteamState
<1> HIDE DEF t
<1>4. a \in AppState
  BY <1>1, Constants DEF NotRunning, AppState
<1>5. v.app = NotRunning(n) /\ v.steam = t
  OBVIOUS
<1>6. v \in Views
  BY <1>3, <1>4 DEF Views
<1> HIDE DEF v, n
<1>7. /\ v.app.saved = n /\ v.app.running = FALSE /\ Settled(v)
      /\ (n.online => n.lobby # NoLobby) => Core(v)
  BY <1>1, <1>2, <1>3, <1>5, <1>6, NotRunningIs
<1>8. n.online => n.lobby # NoLobby
  BY <1>1 DEF n, StateInv, HasNetwork
<1>9. PresenceOf(v) = "closed"
  BY <1>7 DEF PresenceOf
<1>10. n.online \in BOOLEAN
  BY <1>1 DEF Saved
<1>11. Move(s, v)
  <2>1. CASE n.lobby = NoLobby
    BY <1>7, <1>9, <2>1 DEF Move, Moves, n
  <2>2. CASE n.lobby # NoLobby /\ n.online
    <3>1. ~s.app.farewell
      BY <1>1, <2>2 DEF StateInv, HasNetwork, n
    <3>2. PresenceOf(s) \in {"connecting", "online", "restoring", "offline"}
      BY <2>2, <3>1 DEF PresenceOf, HasNetwork, n
    <3> QED BY <1>7, <1>9, <2>2, <3>2 DEF Move, Moves, n
  <2>3. CASE n.lobby # NoLobby /\ ~n.online
    BY <1>7, <1>9, <2>3 DEF Move, Moves, n
  <2> QED BY <2>1, <2>2, <2>3
<1> QED BY <1>7, <1>8, <1>11 DEF Done, v, t, k, n

LEMMA StartDone ==
  ASSUME NEW s, Core(s), Settled(s), ~s.app.running,
         NEW v \in IF s.app.saved.online THEN GoBackOnline([s EXCEPT !.app.running = TRUE])
                   ELSE {[s EXCEPT !.app.running = TRUE]}
  PROVE  Done(s, v)
<1> DEFINE w == [s EXCEPT !.app.running = TRUE]
           n == s.app.saved
<1>1. s \in Views /\ StateInv(s) /\ CallInv(s) /\ SteamInv(s) /\ n \in Saved
  BY SavedIs DEF Core
<1>2. s.app = NotRunning(n)
  BY DEF Settled
<1>3. /\ s.app.pending = NoPending /\ s.app.session = NoSession
      /\ s.app.farewell = FALSE /\ s.app.link = "none" /\ s.app.helper = "none"
      /\ s.app.listening = FALSE /\ s.app.late = {}
  BY <1>2 DEF NotRunning
<1>4. /\ w \in Views /\ w.app.running /\ w.app.saved = n
      /\ w.app.pending = NoPending /\ w.app.session = NoSession
      /\ w.app.farewell = FALSE /\ w.app.link = "none" /\ w.app.helper = "none"
      /\ w.app.listening = FALSE /\ w.app.late = {} /\ w.steam = s.steam
  BY <1>1, <1>3 DEF Views, AppState
<1>5. v \in IF n.online THEN GoBackOnline(w) ELSE {w}
  OBVIOUS
<1>6. PresenceOf(s) = "closed"
  BY DEF PresenceOf
<1> HIDE DEF w
<1>7. ~Waiting(w) /\ ~InSession(w) /\ (HasNetwork(w) <=> n.lobby # NoLobby)
  BY <1>4, Constants DEF Waiting, InSession, HasNetwork
<1>8. StateInv(w) /\ CallInv(w) /\ SteamInv(w) /\ Settled(w)
  BY <1>1, <1>4, <1>7, Constants DEF StateInv, CallInv, SteamInv, Settled, HasNetwork
<1>9. CASE n.online
  <2>1. n.lobby # NoLobby
    BY <1>1, <1>9 DEF StateInv, HasNetwork
  <2>2. /\ Core(v) /\ Settled(v) /\ v.app.saved = n
        /\ PresenceOf(v) \in {"connecting", "restoring"}
    BY <1>4, <1>5, <1>7, <1>8, <1>9, <2>1, GoBackOnlineIs
  <2>3. Move(s, v)
    BY <1>6, <1>9, <2>1, <2>2 DEF Move, Moves
  <2> QED BY <2>2, <2>3 DEF Done
<1>10. CASE ~n.online
  <2>1. v = w
    BY <1>5, <1>10
  <2>2. PresenceOf(w) = IF n.lobby # NoLobby THEN "offline" ELSE "none"
    BY <1>4, <1>7, PresenceIs, Constants
  <2>3. Move(s, w)
    <3>1. CASE n.lobby = NoLobby
      BY <1>4, <2>2, <3>1 DEF Move, Moves
    <3>2. CASE n.lobby # NoLobby
      BY <1>4, <1>10, <2>2, <3>2 DEF Move, Moves
    <3> QED BY <3>1, <3>2
  <2> QED BY <1>4, <1>8, <2>1, <2>3 DEF Done, Core
<1> QED BY <1>9, <1>10

\* Steam answers a call.
LEMMA AnswerDone ==
  ASSUME NEW s, Core(s), Settled(s), NEW c \in Call, s.steam.calls[c].status = "asked",
         NEW lobby \in Lobby, NEW answer \in Answer, NEW inside \in SUBSET Lobby,
         s.steam.calls[c].lobby = NoLobby \/ lobby = s.steam.calls[c].lobby
  PROVE  Done(s, [s EXCEPT !.steam = [s.steam EXCEPT
                    !.calls = [s.steam.calls EXCEPT ![c] =
                      [status |-> "answered", lobby |-> lobby, answer |-> answer]],
                    !.inside = inside]])
<1> DEFINE r == [status |-> "answered", lobby |-> lobby, answer |-> answer]
           k == [s.steam.calls EXCEPT ![c] = r]
           t == [s.steam EXCEPT !.calls = k, !.inside = inside]
           v == [s EXCEPT !.steam = t]
<1>1. s \in Views /\ StateInv(s) /\ CallInv(s) /\ SteamInv(s)
  BY DEF Core
<1>2. /\ r \in CallState /\ r.status = "answered" /\ r.lobby = lobby /\ r.answer = answer
  BY DEF CallState
<1> HIDE DEF r
<1>3. s.steam.calls \in [Call -> CallState]
  BY <1>1 DEF Views, SteamState
<1>4. k \in [Call -> CallState] /\ k[c] = r /\ \A d \in Call : d # c => k[d] = s.steam.calls[d]
  BY <1>2, <1>3
<1> HIDE DEF k
<1>5. t \in SteamState /\ t.calls = k
  BY <1>1, <1>4 DEF Views, SteamState
<1> HIDE DEF t
<1>6. v \in Views /\ v.app = s.app /\ v.steam = t
  BY <1>1, <1>5 DEF Views
<1> HIDE DEF v
<1>7. SteamInv(v)
  BY <1>1, <1>2, <1>4, <1>5, <1>6 DEF SteamInv
<1>8. CallInv(v)
  <2> DEFINE p == s.app.pending
  <2>1. CASE ~Waiting(s)
    BY <1>1, <1>6, <2>1 DEF CallInv, Waiting
  <2>2. CASE Waiting(s)
    <3>1. /\ p.call \in Call /\ s.steam.calls[p.call].status # "free"
          /\ Asked(s, p.kind, s.steam.calls[p.call].lobby)
      BY <1>1, <2>2 DEF CallInv
    <3>2. Asked(v, p.kind, k[p.call].lobby)
      <4>1. p.call = c /\ p.kind \in {"rejoin", "restore"} => k[c].lobby = s.steam.calls[c].lobby
        BY <1>2, <1>4, <3>1, LobbyAssumption DEF Asked, HasNetwork
      <4>2. p.kind \in {"rejoin", "restore"} => k[p.call].lobby = s.steam.calls[p.call].lobby
        BY <1>4, <3>1, <4>1
      <4> QED BY <1>6, <3>1, <4>2 DEF Asked, HasNetwork, InSession
    <3>3. k[p.call].status # "free"
      BY <1>2, <1>4, <3>1
    <3>4. v.app.pending = p /\ v.steam.calls = k /\ Waiting(v)
      BY <1>5, <1>6, <2>2 DEF Waiting
    <3> QED BY <3>1, <3>2, <3>3, <3>4 DEF CallInv
  <2> QED BY <2>1, <2>2
<1> QED BY <1>6, <1>7, <1>8, SteamDone DEF v, t, k, r

LEMMA HelperFailsDone ==
  ASSUME NEW s, Core(s), Settled(s), s.app.helper = "up"
  PROVE  Done(s, [s EXCEPT !.app.helper = "failed"])
<1> DEFINE v == [s EXCEPT !.app.helper = "failed"]
<1>1. s \in Views /\ StateInv(s) /\ CallInv(s) /\ SteamInv(s)
  BY DEF Core
<1>2. /\ AppIs(v, s, s.app.pending, s.app.session, s.app.saved, s.app.farewell, s.app.link,
               "failed", s.app.listening, s.app.late)
      /\ SteamSame(v, s)
  BY <1>1 DEF Views, AppState, SteamState, AppIs, SteamSame
<1> HIDE DEF v
<1>3. /\ v \in Views /\ SteamInv(v) /\ InSession(v) = InSession(s)
      /\ HasNetwork(v) = HasNetwork(s) /\ Waiting(v) = Waiting(s)
  BY <1>1, <1>2 DEF AppIs, SteamSame, SteamInv, InSession, HasNetwork, Waiting
<1>4. StateInv(v)
  BY <1>1, <1>2, <1>3 DEF StateInv, AppIs
<1>5. InSession(s)
  BY <1>1 DEF StateInv
<1>6. CallInv(v)
  <2>1. CASE ~Waiting(s)
    BY <1>1, <1>2, <1>3, <2>1 DEF CallInv, AppIs
  <2>2. CASE Waiting(s)
    <3> DEFINE p == s.app.pending
    <3>1. /\ p.call \in Call /\ s.steam.calls[p.call].status # "free"
          /\ Asked(s, p.kind, s.steam.calls[p.call].lobby)
      BY <1>1, <2>2 DEF CallInv
    <3>2. Asked(v, p.kind, s.steam.calls[p.call].lobby)
      BY <1>2, <1>3, <1>5, <3>1 DEF Asked, AppIs
    <3>3. v.app.pending = p /\ v.steam.calls = s.steam.calls
      BY <1>2 DEF AppIs, SteamSame
    <3> QED BY <1>3, <2>2, <3>1, <3>2, <3>3 DEF CallInv
  <2> QED BY <2>1, <2>2
<1>7. Settled(v)
  <2>1. s.app.running
    BY <1>5, Constants DEF Settled, NotRunning, InSession
  <2> QED BY <1>2, <1>3, <2>1 DEF Settled, AppIs
<1>8. Move(s, v)
  BY <1>2, <1>3 DEF Move, Moves, PresenceOf, AppIs
<1> QED BY <1>3, <1>4, <1>6, <1>7, <1>8 DEF Done, Core, v

LEMMA ExpireDone ==
  ASSUME NEW s, Core(s), Settled(s), s.app.running, NEW clock \in Clock,
         clock = "call" => Waiting(s)
  PROVE  Done(s, [s EXCEPT !.app.late = @ \cup {clock}])
<1> DEFINE v == [s EXCEPT !.app.late = @ \cup {clock}]
<1>1. s \in Views /\ StateInv(s) /\ CallInv(s) /\ SteamInv(s)
  BY DEF Core
<1>2. /\ AppIs(v, s, s.app.pending, s.app.session, s.app.saved, s.app.farewell, s.app.link,
               s.app.helper, s.app.listening, s.app.late \cup {clock})
      /\ SteamSame(v, s)
  BY <1>1 DEF Views, AppState, SteamState, AppIs, SteamSame
<1> HIDE DEF v
<1>3. /\ v \in Views /\ SteamInv(v) /\ InSession(v) = InSession(s)
      /\ HasNetwork(v) = HasNetwork(s) /\ Waiting(v) = Waiting(s)
  BY <1>1, <1>2 DEF AppIs, SteamSame, SteamInv, InSession, HasNetwork, Waiting
<1>4. StateInv(v)
  BY <1>1, <1>2, <1>3 DEF StateInv, AppIs
<1>5. CallInv(v)
  <2>1. CASE ~Waiting(s)
    BY <1>1, <1>2, <1>3, <2>1 DEF CallInv, AppIs
  <2>2. CASE Waiting(s)
    <3> DEFINE p == s.app.pending
    <3>1. /\ p.call \in Call /\ s.steam.calls[p.call].status # "free"
          /\ Asked(s, p.kind, s.steam.calls[p.call].lobby)
      BY <1>1, <2>2 DEF CallInv
    <3>2. Asked(v, p.kind, s.steam.calls[p.call].lobby)
      BY <1>2, <1>3, <3>1 DEF Asked, AppIs
    <3>3. v.app.pending = p /\ v.steam.calls = s.steam.calls
      BY <1>2 DEF AppIs, SteamSame
    <3> QED BY <1>3, <2>2, <3>1, <3>2, <3>3 DEF CallInv
  <2> QED BY <2>1, <2>2
<1>6. Settled(v)
  BY <1>2, <1>3 DEF Settled, AppIs
<1>7. Move(s, v)
  BY <1>2, <1>3 DEF Move, Moves, PresenceOf, AppIs
<1> QED BY <1>3, <1>4, <1>5, <1>6, <1>7 DEF Done, Core, v

\* Every step does what the lemmas say.
LEMMA StepDone ==
  ASSUME IInv, [Next]_vars
  PROVE  \E v : Become(v) /\ Done(View, v)
<1> DEFINE s == View
<1>1. s \in Views /\ Core(s) /\ Settled(s) /\ s.app = app /\ s.steam = steam
  BY DEF IInv, Core, View
<1>2. StateInv(s) /\ CallInv(s) /\ SteamInv(s) /\ app \in AppState /\ steam \in SteamState
  BY <1>1 DEF Core, Views
<1>3. ASSUME NEW invited, Tick(invited)
      PROVE  \E v : Become(v) /\ Done(View, v)
  <2>1. s.app.running
    BY <1>1, <1>3 DEF Tick
  <2>2. PICK r \in Results(LeaveAbandoned(s)) : \E w \in AfterResults(r, invited) :
          Become([w EXCEPT !.steam.lost = {}])
    BY <1>3 DEF Tick
  <2>3. PICK w \in AfterResults(r, invited) : Become([w EXCEPT !.steam.lost = {}])
    BY <2>2
  <2> HIDE DEF s
  <2>4. Done(s, w)
    BY <1>1, <2>1, <2>2, <2>3, TickDone
  <2>5. Done(s, [w EXCEPT !.steam.lost = {}])
    BY <2>4, LostDone
  <2> QED BY <2>3, <2>5 DEF s
<1>4. ASSUME Idle, NEW kind \in {"create", "join"}, NEW lobby \in Lobby \cup {NoLobby},
             NEW v, v \in StartJoin(s, kind, lobby) \/ v = CloseNetwork(s)
      PROVE  Done(s, v)
  <2>1. s.app.running /\ ~HasNetwork(s) /\ ~InSession(s) /\ ~Waiting(s)
    BY <1>1, <1>4 DEF Idle
  <2>2. ~s.app.farewell
    BY <1>1, <2>1 DEF Settled
  <2> HIDE DEF s
  <2>3. /\ Core(v) /\ Settled(v) /\ v.app.running /\ ~HasNetwork(v)
        /\ PresenceOf(v) = "none"
    BY <1>1, <1>2, <1>4, <2>1, <2>2, AskedIs
  <2> QED BY <1>1, <2>1, <2>3, NoneMoves DEF Done
<1>5. CASE CreateLobby
  <2>1. PICK v \in Ask(s, "create", NoLobby) \cup {CloseNetwork(s)} : Become(v)
    BY <1>5 DEF CreateLobby
  <2>2. v \in StartJoin(s, "create", NoLobby) \/ v = CloseNetwork(s)
    BY <2>1 DEF StartJoin
  <2>3. Done(s, v)
    BY <1>4, <1>5, <2>2 DEF CreateLobby
  <2> QED BY <2>1, <2>3
<1>6. CASE Join
  <2>1. PICK lobby \in Lobby : \E w \in StartJoin(s, "join", lobby) : Become(w)
    BY <1>6 DEF Join
  <2>2. PICK v \in StartJoin(s, "join", lobby) : Become(v)
    BY <2>1
  <2>3. Done(s, v)
    BY <1>4, <1>6, <2>2 DEF Join
  <2> QED BY <2>2, <2>3
<1>7. CASE GoOnline
  <2>1. PICK v \in GoBackOnline([s EXCEPT !.app.saved.online = TRUE]) : Become(v)
    BY <1>7 DEF GoOnline
  <2>2. Done(s, v)
    BY <1>1, <1>7, <2>1, GoOnlineDone DEF GoOnline
  <2> QED BY <2>1, <2>2
<1>8. CASE GoOffline
  BY <1>1, <1>8, GoOfflineDone DEF GoOffline
<1>9. CASE LeaveNetwork
  <2>1. PICK v \in Leaving(s) : Become(v)
    BY <1>9 DEF LeaveNetwork
  <2>2. Done(s, v)
    BY <1>1, <1>9, <2>1, LeavingDone DEF LeaveNetwork
  <2> QED BY <2>1, <2>2
<1>10. CASE Exit(app.saved)
  <2> DEFINE v == [app |-> NotRunning(s.app.saved),
                   steam |-> [s.steam EXCEPT !.inside = {}, !.lost = {},
                                             !.calls = [c \in Call |-> FreeCall]]]
  <2>1. Become(v)
    BY <1>1, <1>10 DEF Exit, Become
  <2>2. s.app.running
    BY <1>1, <1>10 DEF Exit
  <2> HIDE DEF s
  <2>3. Done(s, v)
    BY <1>1, <2>2, ExitDone
  <2> QED BY <2>1, <2>3 DEF s
<1>11. CASE Shutdown
  <2>1. (IF s.app.farewell THEN s ELSE Snapshot(s)).app.saved = s.app.saved
    BY <1>1, LastSaved
  <2>2. Exit(app.saved)
    BY <1>1, <1>11, <2>1 DEF Shutdown
  <2> QED BY <1>10, <2>2
<1>12. CASE Crash
  BY <1>10, <1>12 DEF Crash
<1>13. CASE Start
  <2>1. PICK v \in IF s.app.saved.online THEN GoBackOnline([s EXCEPT !.app.running = TRUE])
                   ELSE {[s EXCEPT !.app.running = TRUE]} : Become(v)
    BY <1>1, <1>13 DEF Start
  <2>2. ~s.app.running
    BY <1>1, <1>13 DEF Start
  <2> HIDE DEF s
  <2>3. Done(s, v)
    BY <1>1, <2>1, <2>2, StartDone
  <2> QED BY <2>1, <2>3 DEF s
<1>14. ASSUME NEW t \in SteamState, t.calls = steam.calls, steam' = t, app' = app
       PROVE  \E v : Become(v) /\ Done(View, v)
  <2> DEFINE v == [app |-> app, steam |-> t]
  <2>1. v \in Views /\ v.app = s.app /\ v.steam.calls = s.steam.calls /\ Become(v)
    BY <1>1, <1>2, <1>14 DEF Views, Become
  <2> HIDE DEF v, s
  <2>2. Done(s, v)
    BY <1>1, <2>1, SameCallsDone
  <2> QED BY <2>1, <2>2 DEF s
<1>15. CASE LogOff
  <2> DEFINE t == [steam EXCEPT !.logged = FALSE,
                                !.lost = IF app.running THEN @ \cup {NoLobby} ELSE @]
  <2>1. t \in SteamState /\ t.calls = steam.calls /\ steam' = t /\ app' = app
    BY <1>2, <1>15 DEF LogOff, SteamState
  <2> QED BY <1>14, <2>1
<1>16. CASE LogOn
  <2> DEFINE t == [steam EXCEPT !.logged = TRUE]
  <2>1. t \in SteamState /\ t.calls = steam.calls /\ steam' = t /\ app' = app
    BY <1>2, <1>16 DEF LogOn, SteamState
  <2> QED BY <1>14, <2>1
<1>17. CASE Removed
  <2>1. PICK lobby \in steam.inside :
          steam' = [steam EXCEPT !.inside = @ \ {lobby}, !.lost = @ \cup {lobby}]
    BY <1>17 DEF Removed
  <2> DEFINE t == [steam EXCEPT !.inside = @ \ {lobby}, !.lost = @ \cup {lobby}]
  <2>2. t \in SteamState /\ t.calls = steam.calls /\ steam' = t /\ app' = app
    BY <1>2, <1>17, <2>1 DEF Removed, SteamState
  <2> QED BY <1>14, <2>2
<1>18. CASE HelperFails
  <2> DEFINE v == [s EXCEPT !.app.helper = "failed"]
  <2>1. Become(v)
    BY <1>1, <1>18 DEF HelperFails, Become, View
  <2>2. s.app.helper = "up"
    BY <1>1, <1>18 DEF HelperFails
  <2> HIDE DEF s
  <2>3. Done(s, v)
    BY <1>1, <2>2, HelperFailsDone
  <2> QED BY <2>1, <2>3 DEF s
<1>19. ASSUME NEW c \in Call, AnswerCall(c)
       PROVE  \E v : Become(v) /\ Done(View, v)
  <2>1. PICK answer \in Answer, lobby \in Lobby :
          /\ IF steam.calls[c].lobby = NoLobby
             THEN lobby \notin Known /\ answer \in {"entered", "foreign", "failed"}
             ELSE lobby = steam.calls[c].lobby
          /\ steam' = [steam EXCEPT
               !.calls[c] = [status |-> "answered", lobby |-> lobby, answer |-> answer],
               !.inside = IF answer \in Refusal THEN @ ELSE @ \cup {lobby}]
    BY <1>19 DEF AnswerCall
  <2> DEFINE inside == IF answer \in Refusal THEN steam.inside ELSE steam.inside \cup {lobby}
             k == [s.steam.calls EXCEPT ![c] =
                     [status |-> "answered", lobby |-> lobby, answer |-> answer]]
             v == [s EXCEPT !.steam = [s.steam EXCEPT !.calls = k, !.inside = inside]]
  <2>2. Become(v)
    BY <1>1, <1>19, <2>1 DEF AnswerCall, Become, View
  <2>3. s.steam.calls[c].status = "asked"
        /\ (s.steam.calls[c].lobby = NoLobby \/ lobby = s.steam.calls[c].lobby)
    BY <1>1, <1>19, <2>1 DEF AnswerCall
  <2>4. inside \in SUBSET Lobby
    BY <1>2 DEF SteamState
  <2> HIDE DEF s, inside
  <2>5. Done(s, v)
    BY <1>1, <2>3, <2>4, AnswerDone
  <2> QED BY <2>2, <2>5 DEF s
<1>20. ASSUME NEW clock \in Clock, Expire(clock)
       PROVE  \E v : Become(v) /\ Done(View, v)
  <2> DEFINE v == [s EXCEPT !.app.late = @ \cup {clock}]
  <2>1. Become(v)
    BY <1>1, <1>20 DEF Expire, Become, View
  <2>2. s.app.running /\ (clock = "call" => Waiting(s))
    BY <1>1, <1>20 DEF Expire, Running
  <2> HIDE DEF s
  <2>3. Done(s, v)
    BY <1>1, <2>2, ExpireDone
  <2> QED BY <2>1, <2>3 DEF s
<1>21. CASE UNCHANGED vars
  <2>1. steam' = steam /\ app' = app
    BY <1>21 DEF vars
  <2> QED BY <1>2, <1>14, <2>1
<1> QED BY <1>3, <1>5, <1>6, <1>7, <1>8, <1>9, <1>11, <1>12, <1>13, <1>15, <1>16, <1>17,
           <1>18, <1>19, <1>20, <1>21 DEF Next

-----------------------------------------------------------------------------
\* The invariant holds.
LEMMA InitInv == Init => IInv
<1> SUFFICES ASSUME Init PROVE IInv
  OBVIOUS
<1> DEFINE v == View
<1>1. v.app = NotRunning(NoNetwork) /\ v.steam = steam
  BY DEF View, Init
<1>2. steam \in SteamState /\ \A c \in Call : steam.calls[c].status = "free"
  <2>1. FreeCall \in CallState /\ FreeCall.status = "free"
    BY DEF FreeCall, CallState
  <2>2. [c \in Call |-> FreeCall] \in [Call -> CallState]
    BY <2>1
  <2> QED BY <2>1, <2>2 DEF Init, SteamState
<1>3. NotRunning(NoNetwork) \in AppState
  BY Constants DEF NotRunning, AppState
<1>4. v \in Views
  BY <1>1, <1>2, <1>3 DEF View, Views
<1> HIDE DEF v
<1>5. Settled(v) /\ ((NoNetwork.online => NoNetwork.lobby # NoLobby) => Core(v))
  BY <1>1, <1>2, <1>4, NotRunningIs, Constants
<1> QED BY <1>5, Constants DEF IInv, v

LEMMA NextInv == IInv /\ [Next]_vars => IInv'
<1> SUFFICES ASSUME IInv, [Next]_vars PROVE IInv'
  OBVIOUS
<1>1. PICK v : Become(v) /\ Done(View, v)
  BY StepDone
<1>2. v \in Views /\ Core(v) /\ Settled(v)
  BY <1>1 DEF Done, Core
<1> QED BY <1>1, <1>2, BecomeInv

\* What it says about the properties.
LEMMA InvImplies == IInv => TypeOK /\ OfflineIsQuiet /\ NothingLeaks /\ OneNetwork
<1> SUFFICES ASSUME IInv PROVE TypeOK /\ OfflineIsQuiet /\ NothingLeaks /\ OneNetwork
  OBVIOUS
<1> DEFINE w == View
<1>1. w.app = app /\ w.steam = steam
  BY DEF View
<1>2. w \in Views /\ StateInv(w) /\ CallInv(w) /\ SteamInv(w) /\ Settled(w) /\ Core(w)
  BY DEF IInv, Core
<1>3. TypeOK
  BY <1>1, <1>2 DEF Views, TypeOK
<1> HIDE DEF w
<1>4. w.app.pending.kind \in Kind \cup {"none"}
  BY <1>2 DEF Views, AppState, Pending
<1>5. ASSUME HasNetwork(w), ~w.app.saved.online
      PROVE  ~InSession(w) /\ ~Waiting(w) /\ w.app.link = "none"
  <2>1. CASE w.app.running
    BY <1>2, <1>5, <2>1, OfflineIs
  <2>2. CASE ~w.app.running
    <3>1. w.app = NotRunning(w.app.saved)
      BY <1>2, <2>2 DEF Settled
    <3>2. w.app.session = NoSession /\ w.app.pending = NoPending /\ w.app.link = "none"
      BY <3>1 DEF NotRunning
    <3> QED BY <3>2, Constants DEF InSession, Waiting
  <2> QED BY <2>1, <2>2
<1>6. /\ w.app.helper # "none" => InSession(w) /\ ~w.app.farewell
      /\ w.app.listening => InSession(w) \/ Waiting(w) \/ w.app.link # "none"
      /\ InSession(w) => w.app.listening
  BY <1>2 DEF StateInv, Settled
<1>7. InSession(w) /\ HasNetwork(w) => w.app.session.lobby = w.app.saved.lobby
  BY <1>2 DEF StateInv
<1>8. ASSUME Waiting(w)
      PROVE  Asked(w, w.app.pending.kind, w.steam.calls[w.app.pending.call].lobby)
  BY <1>2, <1>8 DEF CallInv
<1>9. ASSUME HasNetwork(w), Waiting(w)
      PROVE  w.steam.calls[w.app.pending.call].lobby = w.app.saved.lobby
  BY <1>4, <1>8, <1>9 DEF Asked, Kind, Waiting
<1>10. ASSUME InSession(w), Waiting(w)
       PROVE  /\ w.app.pending.kind = "restore"
              /\ w.steam.calls[w.app.pending.call].lobby = w.app.session.lobby
  <2>1. w.app.pending.kind = "restore"
    BY <1>4, <1>8, <1>10 DEF Asked, Kind, Waiting
  <2>2. HasNetwork(w)
    BY <1>8, <1>10, <2>1 DEF Asked
  <2> QED BY <1>7, <1>9, <1>10, <2>1, <2>2
<1>11. OfflineIsQuiet
  BY <1>1, <1>5 DEF OfflineIsQuiet, w
<1>12. NothingLeaks
  BY <1>1, <1>6 DEF NothingLeaks, w
<1>13. OneNetwork
  BY <1>1, <1>7, <1>9, <1>10 DEF OneNetwork, w
<1> QED BY <1>3, <1>11, <1>12, <1>13

LEMMA Invariance == Spec => []IInv
<1>1. Init => IInv
  BY InitInv
<1>2. IInv /\ [Next]_vars => IInv'
  BY NextInv
<1> QED BY <1>1, <1>2, PTL DEF Spec

\* The controller and the Steam client stay within their types, whatever the
\* order of the user's requests, Steam's answers and the timeouts
\* (app/controller.py, AppController).
THEOREM TypesStay == Spec => []TypeOK
BY Invariance, InvImplies, PTL

\* In a network the user chose to be offline in, there is no session, no
\* call and no recovering, whichever way the controller went offline
\* (go_offline(), _go_offline_with(), _call_failed(), _refused()).
THEOREM QuietStays == Spec => []OfflineIsQuiet
BY Invariance, InvImplies, PTL

\* The adapter is up only for a session that takes part, and the listen
\* socket is open only for a lobby that is entered, used or restored: every
\* path that ends one goes through _close_network().
THEOREM LeaksNothing == Spec => []NothingLeaks
BY Invariance, InvImplies, PTL

\* The session, the saved network and the call that is under way are about
\* one and the same network (create_lobby(), join(), _handle_invites(),
\* _watch_connection(), leave_network()).
THEOREM OneNetworkAtATime == Spec => []OneNetwork
BY Invariance, InvImplies, PTL

-----------------------------------------------------------------------------
\* The controller implements Presence.
LEMMA PromiseInit == Init => Promise!Init
<1> SUFFICES ASSUME Init PROVE Promise!Init
  OBVIOUS
<1>1. View.app = app /\ app = NotRunning(NoNetwork)
  BY DEF View, Init
<1>2. app.saved = NoNetwork /\ app.running = FALSE
  BY <1>1 DEF NotRunning
<1>3. PresenceOf(View) = "closed"
  BY <1>1, <1>2 DEF PresenceOf
<1> QED BY <1>2, <1>3, Constants DEF Promise!Init

LEMMA PromiseNext == IInv /\ [Next]_vars => [Promise!Next]_(Promise!presenceVars)
<1> SUFFICES ASSUME IInv, [Next]_vars PROVE [Promise!Next]_(Promise!presenceVars)
  OBVIOUS
<1>1. PICK v : Become(v) /\ Done(View, v)
  BY StepDone
<1>2. v \in Views /\ Move(View, v)
  BY <1>1 DEF Done, Core
<1>3. View' = v
  BY <1>1, <1>2 DEF Become, View, Views
<1>4. PICK n0, o0, p0 : n0 = app.saved.lobby /\ o0 = app.saved.online /\ p0 = PresenceOf(View)
  OBVIOUS
<1>5. PICK n, o, p : n = app'.saved.lobby /\ o = app'.saved.online /\ p = PresenceOf(View')
  OBVIOUS
<1>6. Moves(n0, o0, p0, n, o, p)
  <2>1. View.app = app /\ v.app = app'
    BY <1>1 DEF View, Become
  <2> QED BY <1>2, <1>3, <1>4, <1>5, <2>1 DEF Move
<1>7. CASE n = n0 /\ o = o0 /\ p = p0
  BY <1>4, <1>5, <1>7 DEF Promise!presenceVars
<1>8. CASE n0 = NoLobby /\ n = n0 /\ o = o0 /\ p \in {"closed", "none", "connecting"}
  <2>1. Promise!Wander
    BY <1>4, <1>5, <1>8 DEF Promise!Wander, Promise!Outside
  <2> QED BY <2>1 DEF Promise!Next
<1>9. CASE /\ n0 = NoLobby /\ p0 # "closed" /\ n \in Lobby /\ o \in BOOLEAN
           /\ p = IF o THEN "online" ELSE "offline"
  <2>1. Promise!Become
    BY <1>4, <1>5, <1>9 DEF Promise!Become
  <2> QED BY <2>1 DEF Promise!Next
<1>10. CASE n0 # NoLobby /\ p0 # "closed" /\ n = NoLobby /\ ~o /\ p = "none"
  <2>1. Promise!Forget
    BY <1>4, <1>5, <1>10 DEF Promise!Forget
  <2> QED BY <2>1 DEF Promise!Next
<1>11. CASE /\ n0 # NoLobby /\ o0 /\ n = n0 /\ o = o0
            /\ \/ p0 = "closed" /\ p \in {"closed", "connecting", "restoring"}
               \/ p0 = "connecting" /\ p \in {"closed", "connecting", "restoring", "online"}
               \/ p0 = "online" /\ p \in {"closed", "online", "restoring"}
               \/ /\ p0 = "restoring"
                  /\ p \in {"closed", "connecting", "restoring", "online", "offline"}
               \/ p0 = "offline" /\ p \in {"closed", "connecting", "restoring", "offline"}
  <2>1. p \in Promise!Arrow[p0]
    BY <1>11 DEF Promise!Arrow
  <2>2. Promise!Recover
    BY <1>4, <1>5, <1>11, <2>1 DEF Promise!Recover
  <2> QED BY <2>2 DEF Promise!Next
<1>12. CASE /\ n0 # NoLobby /\ o0 /\ p0 \notin {"closed", "offline"} /\ n = n0 /\ ~o
            /\ p = "offline"
  <2>1. Promise!GoOffline
    BY <1>4, <1>5, <1>12 DEF Promise!GoOffline
  <2> QED BY <2>1 DEF Promise!Next
<1>13. CASE n0 # NoLobby /\ ~o0 /\ n = n0 /\ o = o0 /\ p \in {"closed", "offline"}
  <2>1. Promise!StayOffline
    BY <1>4, <1>5, <1>13 DEF Promise!StayOffline
  <2> QED BY <2>1 DEF Promise!Next
<1>14. CASE n0 # NoLobby /\ p0 = "offline" /\ n = n0 /\ o /\ p \in {"connecting", "restoring"}
  <2>1. Promise!GoOnline
    BY <1>4, <1>5, <1>14 DEF Promise!GoOnline
  <2> QED BY <2>1 DEF Promise!Next
<1> QED BY <1>6, <1>7, <1>8, <1>9, <1>10, <1>11, <1>12, <1>13, <1>14 DEF Moves

\* Whatever happens to one PC, its user sees what Presence promises: one
\* network, remembered between runs; offline until Go Online; a lost
\* connection restored (the first lines of app/controller.py and the whole
\* of AppController).
THEOREM PresenceKept == Spec => PresencePromised
<1>1. Init => Promise!Init
  BY PromiseInit
<1>2. IInv /\ [Next]_vars => [Promise!Next]_(Promise!presenceVars)
  BY PromiseNext
<1> QED BY <1>1, <1>2, Invariance, PTL DEF Spec, PresencePromised, Promise!Spec

-----------------------------------------------------------------------------
(***************************************************************************)
(* With one call at a time.                                                *)
(***************************************************************************)
OneCall == \A c, d \in Call : c = d

\* While the call is one given up on there is neither a session nor a call.
Lonely(w) ==
  w.app.abandoned # {} =>
    /\ ~InSession(w) /\ ~Waiting(w)
    /\ \A c \in w.app.abandoned : w.steam.calls[c].status # "free"

TakesPart(w) == w.app.session.joined /\ w.app.link = "none" /\ ~w.app.farewell

\* A session that takes part is in the lobby, or will be told that it is not.
InIt(w) ==
  TakesPart(w) /\ (HasNetwork(w) => w.app.session.lobby \notin w.steam.lost)
    => w.app.session.lobby \in w.steam.inside

\* So is a call that let this PC in, until the controller looks at it.
Arrived(w) ==
  LET call == w.steam.calls[w.app.pending.call]
  IN Waiting(w) /\ call.status = "answered" /\ call.answer \notin Refusal
       => call.lobby \in w.steam.inside \cup w.steam.lost

Fresh(w) == Waiting(w) => w.steam.calls[w.app.pending.call].status # "answered"

\* Between two steps; after Results(); and after Watch().
Near(w) == Lonely(w) /\ InIt(w) /\ Arrived(w)
Looked(w) == Lonely(w) /\ InIt(w) /\ Fresh(w)
There(w) ==
  /\ Lonely(w) /\ Fresh(w)
  /\ TakesPart(w) => w.app.session.lobby \in w.steam.inside

Same(v, w) ==
  /\ v.app.abandoned = w.app.abandoned
  /\ v.steam.inside = w.steam.inside /\ v.steam.lost = w.steam.lost

LEMMA SmallSame ==
  ASSUME NEW w \in Views
  PROVE  /\ Same(DropCall(w), w) /\ Same(StopRecovering(w), w)
         /\ Same(ForgetNetwork(w), w) /\ Same(EndFarewell(w), w)
         /\ Same(BeginRestoring(w), w) /\ Same(LoseConnection(w), w)
         /\ Same(Restored(w), w) /\ Same(Snapshot(w), w) /\ Same(Consumed(w), w)
<1>1. Same(DropCall(w), w) /\ Same(StopRecovering(w), w) /\ Same(ForgetNetwork(w), w)
  BY DEF Same, DropCall, StopRecovering, ForgetNetwork, Views, AppState, SteamState
<1>2. Same(EndFarewell(w), w) /\ Same(BeginRestoring(w), w)
  BY DEF Same, EndFarewell, BeginRestoring, Views, AppState, SteamState
<1>3. Same(LoseConnection(w), w)
  BY <1>2 DEF Same, LoseConnection, Views, AppState, SteamState
<1>4. Same(Restored(w), w)
  <2> DEFINE v == StopRecovering(w)
  <2>1. v \in Views
    BY StopRecoveringIs DEF AppIs
  <2> HIDE DEF v
  <2>2. \A r : Same([v EXCEPT !.app.session.refused = r], v)
    BY <2>1 DEF Same, Views, AppState, SteamState
  <2>3. Same(Restored(w), v)
    BY <2>2 DEF Restored, v
  <2> QED BY <1>1, <2>3 DEF Same, v
<1>5. Same(Snapshot(w), w)
  BY DEF Same, Snapshot, Views, AppState, SteamState
<1>6. Same(Consumed(w), w)
  BY DEF Same, Consumed, Views, AppState, SteamState
<1> QED BY <1>1, <1>2, <1>3, <1>4, <1>5, <1>6

\* Closing the network changes neither what was given up on nor what is lost.
SameCalls(v, w) ==
  v.app.abandoned = w.app.abandoned /\ v.steam.calls = w.steam.calls /\ v.steam.lost = w.steam.lost

LEMMA CloseCalls ==
  ASSUME NEW w \in Views, NEW lobby
  PROVE  SameCalls(CloseAt(w, lobby), w) /\ SameCalls(CloseNetwork(w), w)
BY DEF SameCalls, CloseAt, CloseNetwork, Views, AppState, SteamState

LEMMA AbandonCalls ==
  ASSUME NEW w \in Views
  PROVE  /\ ~Waiting(w) => Abandon(w).app.abandoned = w.app.abandoned
         /\ Abandon(w).app.abandoned \subseteq w.app.abandoned \cup {w.app.pending.call}
         /\ Abandon(w).steam = w.steam
<1> DEFINE v == DropCall(w)
<1>1. v \in Views /\ Same(v, w) /\ v.steam = w.steam
  BY DropCallIs, SmallSame DEF AppIs, DropCall, Views
<1> HIDE DEF v
<1>2. \A x : [v EXCEPT !.app.abandoned = @ \cup x].app.abandoned = v.app.abandoned \cup x
             /\ [v EXCEPT !.app.abandoned = @ \cup x].steam = v.steam
  BY <1>1 DEF Views, AppState
<1> QED BY <1>1, <1>2 DEF Abandon, Waiting, Same, v

LEMMA GiveUpCalls ==
  ASSUME NEW w \in Views, Pends(w)
  PROVE  /\ ~Waiting(w) => GiveUp(w).app.abandoned = w.app.abandoned
         /\ GiveUp(w).app.abandoned \subseteq w.app.abandoned \cup {w.app.pending.call}
<1> DEFINE a == Abandon(w)
           b == StopRecovering(a)
<1>1. a \in Views
  BY AbandonIs DEF AppIs
<1>2. b \in Views /\ Same(b, a)
  BY <1>1, StopRecoveringIs, SmallSame DEF AppIs
<1>3. GiveUp(w).app.abandoned = b.app.abandoned
  BY <1>2, CloseCalls DEF GiveUp, SameCalls
<1> QED BY <1>2, <1>3, AbandonCalls DEF Same

LEMMA ForgetGoneCalls ==
  ASSUME NEW w \in Views, Pends(w)
  PROVE  /\ ~Waiting(w) => ForgetGone(w).app.abandoned = w.app.abandoned
         /\ ForgetGone(w).app.abandoned \subseteq w.app.abandoned \cup {w.app.pending.call}
<1> DEFINE g == GiveUp(w)
<1>1. g \in Views
  BY GiveUpIs DEF AppIs
<1>2. Same(ForgetGone(w), g)
  BY <1>1, SmallSame DEF ForgetGone
<1> QED BY <1>2, GiveUpCalls DEF Same

LEMMA BeOfflineCalls ==
  ASSUME NEW w \in Views, Pends(w)
  PROVE  /\ ~Waiting(w) => BeOffline(w).app.abandoned = w.app.abandoned
         /\ BeOffline(w).app.abandoned \subseteq w.app.abandoned \cup {w.app.pending.call}
<1>1. ASSUME NEW x \in Views, x.app.pending = w.app.pending,
             x.app.abandoned = w.app.abandoned
      PROVE  /\ ~Waiting(w) => GiveUp(x).app.abandoned = w.app.abandoned
             /\ GiveUp(x).app.abandoned \subseteq w.app.abandoned \cup {w.app.pending.call}
  <2>1. Pends(x) /\ (Waiting(x) <=> Waiting(w))
    BY <1>1 DEF Pends, Waiting
  <2> QED BY <1>1, <2>1, GiveUpCalls
<1>2. CASE w.app.session.joined
  <2> DEFINE n == [lobby |-> w.app.session.lobby, online |-> FALSE]
             x == [w EXCEPT !.app.saved = n]
  <2>1. n \in Saved
    BY DEF Views, AppState, Session, Saved
  <2>2. x.app.abandoned = w.app.abandoned
    BY DEF Views, AppState
  <2> HIDE DEF n
  <2>3. x \in Views /\ x.app.pending = w.app.pending
    BY <2>1, SaveIs DEF AppIs
  <2>4. BeOffline(w) = GiveUp(x)
    BY <1>2 DEF BeOffline, n
  <2> QED BY <1>1, <2>2, <2>3, <2>4
<1>3. CASE ~w.app.session.joined
  <2> DEFINE x == [w EXCEPT !.app.saved.online = FALSE]
  <2>2. x.app.abandoned = w.app.abandoned
    BY DEF Views, AppState
  <2>3. x \in Views /\ x.app.pending = w.app.pending
    BY WishIs DEF AppIs
  <2>4. BeOffline(w) = GiveUp(x)
    BY <1>3 DEF BeOffline
  <2> QED BY <1>1, <2>2, <2>3, <2>4
<1> QED BY <1>2, <1>3

\* The network is closed, and no call is under way.
Cut(v, w) ==
  /\ ~Waiting(v) /\ ~InSession(v) /\ ~v.app.session.joined
  /\ v.steam.calls = w.steam.calls
  /\ v.app.abandoned \subseteq w.app.abandoned \cup {w.app.pending.call}
  /\ ~Waiting(w) => v.app.abandoned = w.app.abandoned

LEMMA CutThere ==
  ASSUME NEW w, Lonely(w), NEW v, Cut(v, w),
         Waiting(w) => w.steam.calls[w.app.pending.call].status # "free"
  PROVE  There(v)
<1>1. Waiting(w) => w.app.abandoned = {}
  BY DEF Lonely
<1>2. \A c \in v.app.abandoned : v.steam.calls[c].status # "free"
  <2>1. CASE Waiting(w)
    <3>1. \A c \in v.app.abandoned : c = w.app.pending.call
      BY <1>1, <2>1 DEF Cut
    <3> QED BY <2>1, <3>1 DEF Cut
  <2>2. CASE ~Waiting(w)
    BY <2>2 DEF Cut, Lonely
  <2> QED BY <2>1, <2>2
<1> QED BY <1>2 DEF There, Lonely, Fresh, TakesPart, Cut

LEMMA GiveUpCut ==
  ASSUME NEW w \in Views, Pends(w)
  PROVE  Cut(GiveUp(w), w) /\ Cut(ForgetGone(w), w) /\ Cut(BeOffline(w), w)
<1>1. Cut(GiveUp(w), w)
  BY GiveUpIs, GiveUpCalls, Constants DEF Cut, AppIs, SteamSame, Waiting, InSession
<1>2. Cut(ForgetGone(w), w)
  BY ForgetGoneIs, ForgetGoneCalls, Constants DEF Cut, AppIs, SteamSame, Waiting, InSession
<1>3. Cut(BeOffline(w), w)
  BY BeOfflineIs, BeOfflineCalls, Constants DEF Cut, AppIs, SteamSame, Waiting, InSession
<1> QED BY <1>1, <1>2, <1>3

LEMMA CloseCut ==
  ASSUME NEW w \in Views, ~Waiting(w), NEW lobby
  PROVE  Cut(CloseAt(w, lobby), w) /\ Cut(CloseNetwork(w), w)
<1>1. Cut(CloseAt(w, lobby), w)
  BY CloseAtIs, CloseCalls, Constants DEF Cut, AppIs, SameCalls, Waiting, InSession
<1>2. Cut(CloseNetwork(w), w)
  BY CloseNetworkIs, CloseCalls, Constants DEF Cut, AppIs, SameCalls, Waiting, InSession
<1> QED BY <1>1, <1>2

\* A later step of the cut keeps what it is about.
LEMMA CutOn ==
  ASSUME NEW w, NEW u, Cut(u, w), NEW v, SteamSame(v, u),
         v.app.abandoned = u.app.abandoned,
         v.app.pending = u.app.pending, v.app.session = u.app.session
  PROVE  Cut(v, w)
BY DEF Cut, SteamSame, Waiting, InSession

LEMMA CallFailedCut ==
  ASSUME NEW w \in Views, ~Waiting(w), NEW kind \in Kind, NEW why \in Refusal,
         NEW v, v = CallFailed(w, kind, why)
  PROVE  Cut(v, w) \/ (kind = "restore" /\ v = w)
<1> DEFINE c == CloseNetwork(w)
<1>1. Pends(w) /\ Cut(c, w) /\ c \in Views
  BY CloseCut, CloseNetworkIs DEF Pends, AppIs
<1> HIDE DEF c
<1>2. CASE kind = "restore"
  BY <1>1, <1>2, GiveUpCut DEF CallFailed
<1>3. CASE kind = "farewell"
  <2>1. v = EndFarewell(c)
    BY <1>3 DEF CallFailed, c
  <2>2. /\ SteamSame(v, c) /\ v.app.abandoned = c.app.abandoned
        /\ v.app.pending = c.app.pending /\ v.app.session = c.app.session
    <3>1. Same(v, c)
      BY <1>1, <2>1, SmallSame
    <3>2. /\ AppIs(v, c, c.app.pending, c.app.session, c.app.saved, FALSE, c.app.link,
                   c.app.helper, c.app.listening, c.app.late \ {"farewell"})
          /\ SteamSame(v, c)
      BY <1>1, <2>1, EndFarewellIs
    <3> QED BY <3>1, <3>2 DEF Same, AppIs
  <2> QED BY <1>1, <2>2, CutOn
<1>4. CASE kind = "rejoin" /\ why = "denied"
  <2>1. v = [c EXCEPT !.app.saved.online = FALSE]
    BY <1>4 DEF CallFailed, c
  <2>2. /\ SteamSame(v, c)
        /\ v.app.pending = c.app.pending /\ v.app.session = c.app.session
    <3>1. /\ AppIs(v, c, c.app.pending, c.app.session,
                   [lobby |-> c.app.saved.lobby, online |-> FALSE],
                   c.app.farewell, c.app.link, c.app.helper, c.app.listening, c.app.late)
          /\ SteamSame(v, c)
      BY <1>1, <2>1, WishIs
    <3> QED BY <3>1 DEF AppIs
  <2>3. v.app.abandoned = c.app.abandoned
    BY <1>1, <2>1 DEF Views, AppState
  <2> QED BY <1>1, <2>2, <2>3, CutOn
<1>5. CASE kind = "rejoin" /\ why # "denied"
  <2>1. v = LoseConnection(c)
    BY <1>5 DEF CallFailed, c
  <2>2. /\ SteamSame(v, c) /\ v.app.abandoned = c.app.abandoned
        /\ v.app.pending = c.app.pending /\ v.app.session = c.app.session
    <3>1. Same(v, c)
      BY <1>1, <2>1, SmallSame
    <3>2. /\ AppIs(v, c, c.app.pending, c.app.session, c.app.saved, c.app.farewell,
                   IF c.steam.logged THEN "restoring" ELSE "reconnecting",
                   c.app.helper, c.app.listening,
                   IF c.steam.logged THEN c.app.late \ {"restore"} ELSE c.app.late)
          /\ SteamSame(v, c)
      BY <1>1, <2>1, LoseConnectionIs
    <3> QED BY <3>1, <3>2 DEF Same, AppIs
  <2> QED BY <1>1, <2>2, CutOn
<1>6. CASE kind \in {"create", "join"}
  <2>1. v = c
    BY <1>6 DEF CallFailed, c
  <2> QED BY <1>1, <2>1
<1> QED BY <1>2, <1>3, <1>4, <1>5, <1>6 DEF Kind

\* While a call is given up on, no other can be made.
LEMMA NoneFree ==
  ASSUME OneCall, NEW w \in Views, Lonely(w), w.app.abandoned # {}
  PROVE  Free(w) = {}
<1>1. PICK c \in w.app.abandoned : w.steam.calls[c].status # "free"
  BY DEF Lonely
<1>2. c \in Call
  BY <1>1 DEF Views, AppState
<1> QED BY <1>1, <1>2 DEF Free, OneCall

LEMMA AskThere ==
  ASSUME OneCall, NEW w \in Views, Lonely(w), ~TakesPart(w),
         NEW kind \in Kind, NEW lobby \in Lobby \cup {NoLobby}, NEW v \in Ask(w, kind, lobby)
  PROVE  There(v)
<1>1. PICK c \in Call : AskResult(v, w, kind, lobby, c)
  BY AskIs
<1>2. Free(w) # {} /\ v.app.abandoned = w.app.abandoned
  <2>1. PICK d \in Free(w) :
          v = [w EXCEPT !.app.listening = TRUE, !.app.pending = [kind |-> kind, call |-> d],
                        !.steam.calls[d] = [status |-> "asked", lobby |-> lobby, answer |-> ""]]
    BY DEF Ask
  <2> QED BY <2>1 DEF Views, AppState
<1>3. v.app.abandoned = {}
  BY <1>2, NoneFree
<1>4. ~TakesPart(v) /\ v.steam.calls[v.app.pending.call].status # "answered"
  BY <1>1 DEF AskResult, AppIs, TakesPart
<1> QED BY <1>3, <1>4 DEF There, Lonely, Fresh

LEMMA StartJoinThere ==
  ASSUME OneCall, NEW w \in Views, Lonely(w), ~Waiting(w), ~TakesPart(w),
         NEW kind \in Kind, NEW lobby \in Lobby \cup {NoLobby}, NEW v \in StartJoin(w, kind, lobby)
  PROVE  There(v)
<1>1. CASE v \in Ask(w, kind, lobby)
  BY <1>1, AskThere
<1>2. CASE v \notin Ask(w, kind, lobby)
  <2>1. PICK open \in {w.app.listening, TRUE} :
          v = CallFailed([w EXCEPT !.app.listening = open], kind, "failed")
    BY <1>2 DEF StartJoin
  <2> DEFINE o == [w EXCEPT !.app.listening = open]
  <2>2. open \in BOOLEAN
    BY <2>1 DEF Views, AppState
  <2>3. /\ AppIs(o, w, w.app.pending, w.app.session, w.app.saved, w.app.farewell,
                 w.app.link, w.app.helper, open, w.app.late)
        /\ SteamSame(o, w)
    BY <2>2, ListeningIs
  <2>4. o.app.abandoned = w.app.abandoned
    BY DEF Views, AppState
  <2> HIDE DEF o
  <2>5. o \in Views /\ ~Waiting(o) /\ ~TakesPart(o) /\ Lonely(o)
    BY <2>3, <2>4 DEF AppIs, SteamSame, Waiting, TakesPart, Lonely, InSession
  <2>6. v = CallFailed(o, kind, "failed") /\ "failed" \in Refusal
    BY <2>1 DEF o, Refusal
  <2>7. Cut(v, o) \/ v = o
    BY <2>5, <2>6, CallFailedCut
  <2>8. CASE Cut(v, o)
    BY <2>5, <2>8, CutThere
  <2>9. CASE v = o
    BY <2>5, <2>9 DEF There, Fresh
  <2> QED BY <2>7, <2>8, <2>9
<1> QED BY <1>1, <1>2

LEMMA ThereLooked ==
  ASSUME NEW w, There(w)
  PROVE  Looked(w)
BY DEF There, Looked, InIt

LEMMA EnterLooked ==
  ASSUME NEW d \in Views, ~Waiting(d), d.app.abandoned = {},
         NEW lobby \in Lobby, NEW joined \in BOOLEAN,
         \/ d.app.farewell \/ ~joined \/ lobby \in d.steam.inside
         \/ HasNetwork(d) /\ lobby \in d.steam.lost,
         NEW v \in Enter(d, lobby, joined)
  PROVE  Looked(v)
<1> DEFINE s == [lobby |-> lobby, joined |-> joined, refused |-> ""]
           in == [d EXCEPT !.app.session = s]
<1>1. s \in Session /\ s.lobby = lobby /\ s.joined = joined
  BY DEF Session
<1>2. v \in IF d.app.farewell \/ d.app.helper # "none" THEN {in}
            ELSE {[in EXCEPT !.app.helper = "up"],
                  IF HasNetwork(d) THEN BeOffline(in) ELSE CloseNetwork(in)}
  BY DEF Enter
<1> HIDE DEF s
<1>3. AppIs(in, d, d.app.pending, s, d.app.saved, d.app.farewell, d.app.link,
            d.app.helper, d.app.listening, d.app.late)
  BY <1>1, SessionIs
<1>4. Same(in, d)
  BY DEF Same, Views, AppState, SteamState
<1> HIDE DEF in
<1>5. in \in Views /\ ~Waiting(in) /\ Pends(in) /\ in.app.abandoned = {} /\ Lonely(in)
  BY <1>3, <1>4 DEF AppIs, Pends, Waiting, Same, Lonely
<1>6. ASSUME NEW x, x.app.session = s, x.app.pending = d.app.pending,
             x.app.saved = d.app.saved, x.app.farewell = d.app.farewell,
             x.app.link = d.app.link, Same(x, d)
      PROVE  Looked(x)
  BY <1>1, <1>6 DEF Looked, Lonely, InIt, TakesPart, Fresh, Same, Waiting, HasNetwork
<1>7. CASE v = in
  BY <1>3, <1>4, <1>6, <1>7 DEF AppIs
<1>8. CASE v = [in EXCEPT !.app.helper = "up"]
  <2>1. /\ v.app.session = in.app.session /\ v.app.pending = in.app.pending
        /\ v.app.saved = in.app.saved /\ v.app.farewell = in.app.farewell
        /\ v.app.link = in.app.link /\ Same(v, in)
    BY <1>5, <1>8 DEF Views, AppState, SteamState, Same
  <2>2. /\ v.app.session = s /\ v.app.pending = d.app.pending
        /\ v.app.saved = d.app.saved /\ v.app.farewell = d.app.farewell
        /\ v.app.link = d.app.link /\ Same(v, d)
    BY <1>3, <1>4, <2>1 DEF AppIs, Same
  <2> QED BY <1>6, <2>2
<1>9. CASE v = BeOffline(in) \/ v = CloseNetwork(in)
  <2>1. Cut(v, in)
    BY <1>5, <1>9, GiveUpCut, CloseCut
  <2> QED BY <1>5, <2>1, CutThere, ThereLooked
<1> QED BY <1>2, <1>7, <1>8, <1>9

\* w is s without its pending call, and without calls given up on.
Rid(s, w) ==
  /\ Rest(s, w) /\ w.app.abandoned = {}
  /\ w.steam.inside = s.steam.inside /\ w.steam.lost = s.steam.lost

LEMMA EnteredLooked ==
  ASSUME NEW s \in Views, Core(s), Waiting(s), NEW d, Rid(s, d),
         NEW lobby \in Lobby, Asked(s, s.app.pending.kind, lobby),
         lobby \in s.steam.inside \cup s.steam.lost,
         s.app.pending.kind = "create" => lobby \in s.steam.inside,
         NEW v \in Entered(d, s.app.pending.kind, lobby)
  PROVE  Looked(v)
<1> DEFINE kind == s.app.pending.kind
<1>1. kind \in {"create", "join", "farewell", "rejoin", "restore"}
  BY DEF Views, AppState, Pending, Waiting, Kind
<1>2. /\ d \in Views /\ ~Waiting(d) /\ d.app.abandoned = {}
      /\ d.app.session = s.app.session /\ d.app.saved = s.app.saved
      /\ d.app.farewell = s.app.farewell /\ d.app.pending = NoPending
      /\ d.steam.inside = s.steam.inside /\ d.steam.lost = s.steam.lost
  BY Constants DEF Rid, Rest, AppIs, Waiting
<1>3. (InSession(d) <=> InSession(s)) /\ (HasNetwork(d) <=> HasNetwork(s))
  BY <1>2 DEF InSession, HasNetwork
<1>4. CASE kind \in {"create", "join"}
  <2>1. PICK joined \in BOOLEAN : /\ v \in Enter(d, lobby, joined)
                                  /\ kind = "join" => ~joined
    BY <1>4 DEF Entered
  <2>2. ~joined \/ lobby \in d.steam.inside
    BY <1>2, <1>4, <2>1
  <2> QED BY <1>2, <2>1, <2>2, EnterLooked
<1>5. CASE kind = "restore" /\ InSession(s)
  <2>1. v = Restored(d)
    BY <1>3, <1>5 DEF Entered
  <2>2. PICK t \in Session :
          /\ t.lobby = d.app.session.lobby /\ t.joined = d.app.session.joined
          /\ AppIs(v, d, d.app.pending, t, d.app.saved, d.app.farewell, "none",
                   d.app.helper, d.app.listening, d.app.late \ {"restore"})
    BY <1>2, <2>1, RestoredIs
  <2>3. Same(v, d)
    BY <1>2, <2>1, SmallSame
  <2>4. s.app.session.lobby = lobby /\ HasNetwork(s)
    BY <1>5 DEF Core, StateInv, Asked
  <2>5. Lonely(v) /\ Fresh(v)
    BY <1>2, <2>2, <2>3 DEF AppIs, Same, Lonely, Fresh, Waiting
  <2>6. /\ v.app.session.lobby = lobby /\ HasNetwork(v)
        /\ v.steam.inside = s.steam.inside /\ v.steam.lost = s.steam.lost
    BY <1>2, <2>2, <2>3, <2>4 DEF AppIs, Same, HasNetwork
  <2> QED BY <2>5, <2>6 DEF Looked, InIt
<1>6. CASE kind \in {"rejoin", "farewell"} \/ (kind = "restore" /\ ~InSession(s))
  <2> DEFINE r == StopRecovering(d)
  <2>1. PICK joined \in BOOLEAN : v \in Enter(r, lobby, joined)
    BY <1>3, <1>6 DEF Entered
  <2>2. /\ AppIs(r, d, d.app.pending, d.app.session, d.app.saved, d.app.farewell, "none",
                 d.app.helper, d.app.listening, d.app.late \ {"restore"})
        /\ Same(r, d)
    BY <1>2, StopRecoveringIs, SmallSame
  <2> HIDE DEF r
  <2>3. /\ r \in Views /\ ~Waiting(r) /\ r.app.abandoned = {}
        /\ r.app.farewell = s.app.farewell /\ (HasNetwork(r) <=> HasNetwork(s))
        /\ r.steam.inside = s.steam.inside /\ r.steam.lost = s.steam.lost
    BY <1>2, <2>2 DEF AppIs, Same, Waiting, HasNetwork
  <2>4. s.app.farewell \/ HasNetwork(s)
    BY <1>6 DEF Asked
  <2>5. r.app.farewell \/ lobby \in r.steam.inside \/ (HasNetwork(r) /\ lobby \in r.steam.lost)
    BY <2>3, <2>4
  <2> QED BY <2>1, <2>3, <2>5, EnterLooked
<1> QED BY <1>1, <1>4, <1>5, <1>6

LEMMA ForeignThere ==
  ASSUME NEW d \in Views, ~Waiting(d), Lonely(d), NEW kind \in Kind, NEW lobby
  PROVE  There(Foreign(d, kind, lobby))
<1> DEFINE c == CloseAt(d, lobby)
           v == Foreign(d, kind, lobby)
<1>1. c \in Views /\ Cut(c, d)
  BY CloseAtIs, CloseCut DEF AppIs
<1> HIDE DEF c
<1>2. There(c) /\ Lonely(c) /\ ~Waiting(c) /\ Pends(c)
  BY <1>1, CutThere DEF There, Cut, Pends
<1>3. CASE kind = "farewell"
  <2>1. v = EndFarewell(c)
    BY <1>3 DEF Foreign, c
  <2> HIDE DEF v
  <2>2. Same(v, c)
    BY <1>1, <2>1, SmallSame
  <2>3. /\ AppIs(v, c, c.app.pending, c.app.session, c.app.saved, FALSE, c.app.link,
                 c.app.helper, c.app.listening, c.app.late \ {"farewell"})
        /\ SteamSame(v, c)
    BY <1>1, <2>1, EndFarewellIs
  <2>4. Cut(v, d)
    BY <1>1, <2>2, <2>3, CutOn DEF AppIs, Same
  <2>5. There(v)
    BY <2>4, CutThere
  <2> QED BY <2>5 DEF v
<1>4. CASE kind \in {"rejoin", "restore"}
  <2>1. v = ForgetGone(c)
    BY <1>4 DEF Foreign, c
  <2>2. Cut(ForgetGone(c), c)
    BY <1>1, <1>2, GiveUpCut
  <2> QED BY <1>2, <2>1, <2>2, CutThere
<1>5. CASE kind \in {"create", "join"}
  <2>1. v = c
    BY <1>5 DEF Foreign, c
  <2> QED BY <1>2, <2>1
<1> QED BY <1>3, <1>4, <1>5 DEF Kind

LEMMA FinishLooked ==
  ASSUME NEW s \in Views, Core(s), Near(s), Waiting(s), NEW d, Rid(s, d),
         NEW call, call = s.steam.calls[s.app.pending.call], call.status = "answered",
         NEW v \in Finish(d, s.app.pending.kind, call)
  PROVE  Looked(v)
<1> DEFINE kind == s.app.pending.kind
           outside == call.lobby \notin d.steam.inside
<1>1. /\ Asked(s, kind, call.lobby) /\ call.lobby \in Lobby /\ kind \in Kind
      /\ call.answer \in {"entered", "foreign", "gone", "denied", "failed"}
  BY DEF Core, CallInv, SteamInv, Answer, Refusal, Views, AppState, Pending, Waiting
<1>2. /\ d \in Views /\ ~Waiting(d) /\ Lonely(d) /\ Pends(d) /\ d.app.link = s.app.link
      /\ d.steam.inside = s.steam.inside
  BY Constants DEF Rid, Rest, AppIs, Waiting, Lonely, Pends
<1>3. CASE v = Foreign(d, kind, call.lobby)
  BY <1>1, <1>2, <1>3, ForeignThere, ThereLooked
<1>4. CASE v = ForgetGone(d)
  <2>1. Cut(v, d)
    BY <1>2, <1>4, GiveUpCut
  <2> QED BY <1>2, <2>1, CutThere, ThereLooked
<1>5. CASE call.answer \in Refusal /\ v = CallFailed(d, kind, call.answer)
  <2>1. Cut(v, d) \/ (kind = "restore" /\ v = d)
    BY <1>1, <1>2, <1>5, CallFailedCut
  <2>2. CASE Cut(v, d)
    BY <1>2, <2>2, CutThere, ThereLooked
  <2>3. CASE kind = "restore" /\ v = d
    BY <1>1, <1>2, <2>3 DEF Asked, Looked, InIt, TakesPart, Fresh
  <2> QED BY <2>1, <2>2, <2>3
<1>6. CASE call.answer = "entered" /\ v \in Entered(d, kind, call.lobby)
           /\ ~(outside /\ kind = "create")
  <2>1. call.lobby \in s.steam.inside \cup s.steam.lost
    BY <1>6 DEF Near, Arrived, Refusal
  <2>2. kind = "create" => call.lobby \in s.steam.inside
    BY <1>2, <1>6
  <2> QED BY <1>1, <1>6, <2>1, <2>2, EnteredLooked
<1>7. CASE call.answer = "entered"
  <2>1. v \in (IF outside /\ kind = "create" THEN {} ELSE Entered(d, kind, call.lobby))
                \cup (IF outside THEN {Foreign(d, kind, call.lobby)} ELSE {})
    BY <1>7 DEF Finish
  <2> HIDE DEF outside
  <2> QED BY <1>3, <1>6, <1>7, <2>1
<1>8. CASE call.answer = "foreign"
  BY <1>3, <1>8 DEF Finish
<1>9. CASE call.answer = "gone" /\ kind \in {"rejoin", "restore"}
  BY <1>4, <1>9 DEF Finish
<1>10. CASE call.answer \in Refusal /\ ~(call.answer = "gone" /\ kind \in {"rejoin", "restore"})
  BY <1>5, <1>10 DEF Finish, Refusal
<1> QED BY <1>1, <1>7, <1>8, <1>9, <1>10 DEF Refusal

LEMMA LeaveAbandonedCalls ==
  ASSUME NEW s \in Views
  PROVE  /\ LeaveAbandoned(s).app.abandoned = s.app.abandoned \ Answered(s)
         /\ LeaveAbandoned(s).steam.lost = s.steam.lost
         /\ s.app.abandoned = {} => LeaveAbandoned(s).steam.inside = s.steam.inside
<1> DEFINE done == s.app.abandoned \cap Answered(s)
           left == {s.steam.calls[c].lobby : c \in done}
           v == [s EXCEPT !.app.abandoned = @ \ done, !.steam.inside = @ \ left]
<1>1. LeaveAbandoned(s) = v
  BY DEF LeaveAbandoned
<1>2. s.app.abandoned = {} => left = {}
  OBVIOUS
<1>3. s.app.abandoned \ done = s.app.abandoned \ Answered(s)
  OBVIOUS
<1> HIDE DEF done, left
<1>4. /\ v.app.abandoned = s.app.abandoned \ done /\ v.steam.lost = s.steam.lost
      /\ v.steam.inside = s.steam.inside \ left
  BY DEF Views, AppState, SteamState
<1> QED BY <1>1, <1>2, <1>3, <1>4

LEMMA ResultsLooked ==
  ASSUME NEW s \in Views, Core(s), Near(s), NEW v \in Results(LeaveAbandoned(s))
  PROVE  Looked(v)
<1> DEFINE a == LeaveAbandoned(s)
           c == Consumed(a)
           d == DropCall(c)
           p == s.app.pending
<1>0. v \in Results(a)
  OBVIOUS
<1>1. /\ AppIs(a, s, s.app.pending, s.app.session, s.app.saved, s.app.farewell,
               s.app.link, s.app.helper, s.app.listening, s.app.late)
      /\ SteamSame(a, s)
      /\ a.app.abandoned = s.app.abandoned \ Answered(s)
      /\ a.steam.lost = s.steam.lost
      /\ s.app.abandoned = {} => a.steam.inside = s.steam.inside
  BY LeaveAbandonedIs, LeaveAbandonedCalls
<1> HIDE DEF a
<1>2. a \in Views
  BY <1>1 DEF AppIs
<1>3. /\ AppIs(c, a, a.app.pending, a.app.session, a.app.saved, a.app.farewell,
               a.app.link, a.app.helper, a.app.listening, a.app.late)
      /\ SteamInv(c) /\ c.steam.logged = a.steam.logged
      /\ \A k \in Call : a.steam.calls[k].status # "answered" =>
           c.steam.calls[k] = a.steam.calls[k]
      /\ Same(c, a)
  BY <1>2, ConsumedIs, SmallSame
<1> HIDE DEF c
<1>4. /\ AppIs(c, s, s.app.pending, s.app.session, s.app.saved, s.app.farewell,
               s.app.link, s.app.helper, s.app.listening, s.app.late)
      /\ SteamInv(c) /\ c.steam.logged = s.steam.logged
      /\ \A k \in Call : s.steam.calls[k].status # "answered" =>
           c.steam.calls[k] = s.steam.calls[k]
      /\ c.app.abandoned = s.app.abandoned \ Answered(s)
      /\ c.steam.lost = s.steam.lost
      /\ s.app.abandoned = {} => c.steam.inside = s.steam.inside
  BY <1>1, <1>3 DEF AppIs, SteamSame, Same
<1>5. c \in Views
  BY <1>4 DEF AppIs
<1>6. /\ AppIs(d, c, NoPending, c.app.session, c.app.saved, c.app.farewell, c.app.link,
               c.app.helper, c.app.listening, c.app.late \ {"call"})
      /\ SteamSame(d, c) /\ Same(d, c)
  BY <1>5, DropCallIs, SmallSame
<1> HIDE DEF d
<1>7. Rest(s, d)
  BY <1>4, <1>6 DEF Rest, AppIs, SteamSame, SteamInv
<1>8. a.app.pending = p /\ a.app.late = s.app.late /\ a.steam.calls = s.steam.calls
  BY <1>1 DEF AppIs, SteamSame
<1>9. Answered(a) = {k \in Call : s.steam.calls[k].status = "answered"}
        /\ Answered(s) = Answered(a)
  BY <1>8 DEF Answered
<1>10. p.call \in Call => Waiting(s)
  BY CallAssumption, Constants DEF Core, CallInv
<1>11. "call" \in s.app.late => Waiting(s)
  BY DEF Core, CallInv
<1>12. Waiting(s) \/ InSession(s) => s.app.abandoned = {}
  BY DEF Near, Lonely
<1>13. Waiting(s) => Rid(s, d)
  BY <1>4, <1>6, <1>7, <1>12 DEF Rid, Same
<1>14. CASE p.call \in Answered(a)
  <2>1. v \in Finish(d, p.kind, s.steam.calls[p.call])
    BY <1>0, <1>8, <1>14 DEF Results, d, c
  <2>2. s.steam.calls[p.call].status = "answered" /\ Waiting(s)
    BY <1>9, <1>10, <1>14
  <2> QED BY <1>13, <2>1, <2>2, FinishLooked
<1>15. CASE p.call \notin Answered(a) /\ "call" \in s.app.late
  <2>1. v = CallFailed(d, p.kind, "failed")
    BY <1>0, <1>8, <1>15 DEF Results, d, c
  <2>2. /\ Waiting(s) /\ d \in Views /\ ~Waiting(d) /\ Lonely(d)
        /\ d.app.link = s.app.link
    BY <1>11, <1>13, <1>15, Constants DEF Rid, Rest, AppIs, Waiting, Lonely
  <2>3. p.kind \in Kind /\ "failed" \in Refusal
    BY <2>2 DEF Views, AppState, Pending, Waiting, Refusal
  <2>4. Cut(v, d) \/ (p.kind = "restore" /\ v = d)
    BY <2>1, <2>2, <2>3, CallFailedCut
  <2>5. CASE Cut(v, d)
    BY <2>2, <2>5, CutThere, ThereLooked
  <2>6. CASE p.kind = "restore" /\ v = d
    <3>1. s.app.link = "restoring"
      BY <2>2, <2>6 DEF Core, CallInv, Asked
    <3> QED BY <2>2, <2>6, <3>1 DEF Looked, InIt, TakesPart, Fresh
  <2> QED BY <2>4, <2>5, <2>6
<1>16. CASE p.call \notin Answered(a) /\ "call" \notin s.app.late
  <2>1. v = c
    BY <1>0, <1>8, <1>16 DEF Results, c
  <2>2. Lonely(c)
    <3>1. ASSUME NEW k \in c.app.abandoned PROVE c.steam.calls[k].status # "free"
      <4>1. k \in Call /\ k \in s.app.abandoned /\ s.steam.calls[k].status # "answered"
        BY <1>4, <3>1 DEF Answered, Views, AppState
      <4>2. c.steam.calls[k] = s.steam.calls[k] /\ s.steam.calls[k].status # "free"
        BY <1>4, <4>1 DEF Near, Lonely
      <4> QED BY <4>2
    <3> QED BY <1>4, <1>12, <3>1 DEF Lonely, AppIs, Waiting, InSession
  <2>3. InIt(c)
    <3>1. TakesPart(c) => InSession(s)
      BY <1>4 DEF TakesPart, AppIs, Core, StateInv
    <3> QED BY <1>4, <1>12, <3>1 DEF Near, InIt, TakesPart, AppIs, HasNetwork
  <2>4. Fresh(c)
    <3>1. Waiting(c) => Waiting(s)
      BY <1>4 DEF AppIs, Waiting
    <3>2. Waiting(s) => p.call \in Call /\ s.steam.calls[p.call].status # "answered"
      BY <1>9, <1>16 DEF Core, CallInv
    <3> QED BY <1>4, <3>1, <3>2 DEF Fresh, AppIs
  <2> QED BY <2>1, <2>2, <2>3, <2>4 DEF Looked
<1> QED BY <1>14, <1>15, <1>16

\* Back in the lobby, given up, or asked once more.
LEMMA RestoreThere ==
  ASSUME OneCall, NEW w \in Views, Lonely(w), Fresh(w), Pends(w), w.app.link = "restoring",
         NEW v \in Restore(w)
  PROVE  There(v)
<1>1. CASE v = w
  BY <1>1 DEF There, TakesPart
<1>2. CASE ~Waiting(w) /\ w.app.session.lobby \in w.steam.inside /\ v = Restored(w)
  <2>1. PICK t \in Session :
          /\ t.lobby = w.app.session.lobby /\ t.joined = w.app.session.joined
          /\ AppIs(v, w, w.app.pending, t, w.app.saved, w.app.farewell, "none",
                   w.app.helper, w.app.listening, w.app.late \ {"restore"})
          /\ SteamSame(v, w)
    BY <1>2, RestoredIs
  <2>2. Same(v, w)
    BY <1>2, SmallSame
  <2>3. Lonely(v) /\ Fresh(v)
    BY <1>2, <2>1, <2>2 DEF AppIs, SteamSame, Same, Lonely, Fresh, Waiting, InSession
  <2> QED BY <1>2, <2>1, <2>2, <2>3 DEF There, AppIs, Same
<1>3. CASE ~Waiting(w) /\ v = GiveUp(w)
  <2>1. Cut(v, w)
    BY <1>3, GiveUpCut
  <2> QED BY <1>3, <2>1, CutThere
<1>4. CASE ~Waiting(w) /\ v \in StartJoin(w, "restore", w.app.saved.lobby)
  BY <1>4, StartJoinThere, SavedIs DEF TakesPart, Kind
<1> QED BY <1>1, <1>2, <1>3, <1>4 DEF Restore

LEMMA WatchThere ==
  ASSUME OneCall, NEW w, Core(w), Looked(w), NEW v \in Watch(w)
  PROVE  There(v)
<1> DEFINE lost == ~w.steam.logged \/ w.steam.lost \cap {NoLobby, w.app.session.lobby} # {}
<1>1. /\ w \in Views /\ Pends(w) /\ Lonely(w) /\ Fresh(w) /\ InIt(w)
      /\ w.app.link \in {"none", "reconnecting", "restoring"}
      /\ TakesPart(w) => InSession(w)
  BY DEF Core, CallInv, Pends, Looked, Views, AppState, TakesPart, StateInv
<1>2. CASE ~HasNetwork(w) \/ (w.app.link = "none" /\ ~(InSession(w) /\ lost))
  <2>1. v = w
    BY <1>2 DEF Watch
  <2> QED BY <1>1, <1>2, <2>1 DEF There, InIt
<1>3. CASE HasNetwork(w) /\ w.app.link = "none" /\ InSession(w) /\ lost
  <2>1. v = LoseConnection(w)
    BY <1>3 DEF Watch
  <2>2. /\ AppIs(v, w, w.app.pending, w.app.session, w.app.saved, w.app.farewell,
                 IF w.steam.logged THEN "restoring" ELSE "reconnecting",
                 w.app.helper, w.app.listening,
                 IF w.steam.logged THEN w.app.late \ {"restore"} ELSE w.app.late)
        /\ SteamSame(v, w)
    BY <1>1, <2>1, LoseConnectionIs
  <2>3. Same(v, w)
    BY <1>1, <2>1, SmallSame
  <2>4. Lonely(v) /\ Fresh(v)
    BY <1>1, <2>2, <2>3 DEF AppIs, SteamSame, Same, Lonely, Fresh, Waiting, InSession
  <2>5. v.app.link # "none"
    BY <2>2 DEF AppIs
  <2> QED BY <2>4, <2>5 DEF There, TakesPart
<1>4. CASE HasNetwork(w) /\ w.app.link = "restoring" /\ ~w.steam.logged
  <2> DEFINE d == DropCall(w)
  <2>1. /\ AppIs(d, w, NoPending, w.app.session, w.app.saved, w.app.farewell, w.app.link,
                 w.app.helper, w.app.listening, w.app.late \ {"call"})
        /\ SteamSame(d, w) /\ Same(d, w)
    BY <1>1, DropCallIs, SmallSame
  <2>2. v = [d EXCEPT !.app.link = "reconnecting"]
    BY <1>4 DEF Watch
  <2> HIDE DEF d
  <2>3. /\ v.app.pending = d.app.pending /\ v.app.session = d.app.session
        /\ v.app.link = "reconnecting" /\ SteamSame(v, d) /\ Same(v, d)
    BY <2>1, <2>2 DEF Views, AppState, SteamState, AppIs, SteamSame, Same
  <2> QED BY <1>1, <2>1, <2>3, Constants
          DEF There, TakesPart, Lonely, Fresh, AppIs, SteamSame, Same, Waiting, InSession
<1>5. CASE HasNetwork(w) /\ w.app.link = "reconnecting" /\ ~w.steam.logged
  <2>1. v = w
    BY <1>5 DEF Watch
  <2> QED BY <1>1, <1>5, <2>1 DEF There, TakesPart
<1>6. CASE HasNetwork(w) /\ w.app.link = "restoring" /\ w.steam.logged
  <2>1. v \in Restore(w)
    BY <1>6 DEF Watch
  <2> QED BY <1>1, <1>6, <2>1, RestoreThere
<1>7. CASE HasNetwork(w) /\ w.app.link = "reconnecting" /\ w.steam.logged
  <2> DEFINE b == BeginRestoring(w)
  <2>1. v \in Restore(b)
    BY <1>7 DEF Watch
  <2>2. /\ AppIs(b, w, w.app.pending, w.app.session, w.app.saved, w.app.farewell,
                 "restoring", w.app.helper, w.app.listening, w.app.late \ {"restore"})
        /\ SteamSame(b, w) /\ Same(b, w)
    BY <1>1, BeginRestoringIs, SmallSame
  <2> HIDE DEF b
  <2>3. /\ b \in Views /\ Pends(b) /\ Lonely(b) /\ Fresh(b) /\ b.app.link = "restoring"
    BY <1>1, <2>2 DEF AppIs, SteamSame, Same, Pends, Lonely, Fresh, Waiting, InSession
  <2> QED BY <2>1, <2>3, RestoreThere
<1> QED BY <1>1, <1>2, <1>3, <1>4, <1>5, <1>6, <1>7

LEMMA AlikeThere ==
  ASSUME NEW w, There(w), NEW v, Same(v, w), v.steam.calls = w.steam.calls,
         v.app.pending = w.app.pending, v.app.session = w.app.session,
         v.app.link = w.app.link, v.app.farewell = w.app.farewell
  PROVE  There(v)
BY DEF There, Lonely, Fresh, TakesPart, Same, Waiting, InSession

\* Who is let in is in the lobby.
LEMMA ProcessedThere ==
  ASSUME NEW w \in Views, There(w), NEW v \in Processed(w)
  PROVE  There(v)
<1>1. PICK joined \in {w.app.session.joined, w.app.session.joined \/ Follows(w)},
           refused \in {w.app.session.refused} \cup
             (IF w.app.session.joined THEN {} ELSE {"denied", "unavailable"}) :
        v = [w EXCEPT !.app.session = [lobby |-> w.app.session.lobby, joined |-> joined,
                                       refused |-> refused]]
  BY DEF Processed
<1> DEFINE t == [lobby |-> w.app.session.lobby, joined |-> joined, refused |-> refused]
<1>2. t.lobby = w.app.session.lobby /\ t.joined = joined
  OBVIOUS
<1>3. v = [w EXCEPT !.app.session = t]
  BY <1>1
<1> HIDE DEF t
<1>4. /\ v.app.session = t /\ v.app.pending = w.app.pending /\ v.app.link = w.app.link
      /\ v.app.farewell = w.app.farewell /\ v.app.abandoned = w.app.abandoned
      /\ v.steam = w.steam
  BY <1>3 DEF Views, AppState
<1>5. Lonely(v) /\ Fresh(v)
  BY <1>2, <1>4 DEF There, Lonely, Fresh, Waiting, InSession
<1>6. TakesPart(v) => w.app.session.joined \/ Follows(w)
  BY <1>1, <1>2, <1>4 DEF TakesPart
<1>7. TakesPart(v) => w.app.session.lobby \in w.steam.inside
  BY <1>4, <1>6 DEF TakesPart, There, Follows
<1> QED BY <1>2, <1>4, <1>5, <1>7 DEF There

LEMMA GoneThere ==
  ASSUME NEW w, Core(w), There(w), InSession(w)
  PROVE  There(HelperGone(w))
<1>1. /\ w \in Views /\ Pends(w) /\ Lonely(w)
      /\ Waiting(w) => w.steam.calls[w.app.pending.call].status # "free"
      /\ ~HasNetwork(w) => w.app.link = "none"
  BY DEF Core, CallInv, StateInv, Pends, There
<1>2. Cut(BeOffline(w), w)
  BY <1>1, GiveUpCut
<1>3. ASSUME ~HasNetwork(w) PROVE Cut(CloseNetwork(w), w)
  <2>1. ~Waiting(w)
    BY <1>1, <1>3, SessionWaits
  <2> QED BY <1>1, <2>1, CloseCut
<1>4. There(BeOffline(w)) /\ (~HasNetwork(w) => There(CloseNetwork(w)))
  BY <1>1, <1>2, <1>3, CutThere
<1> QED BY <1>4 DEF HelperGone

LEMMA RefusedThere ==
  ASSUME NEW w, Core(w), There(w), InSession(w), w.app.link = "none"
  PROVE  There(Refused(w))
<1> DEFINE c == CloseNetwork(w)
           v == Refused(w)
<1>1. w \in Views /\ ~Waiting(w) /\ Lonely(w)
  BY SessionWaits DEF Core, There
<1>2. c \in Views /\ Cut(c, w)
  BY <1>1, CloseNetworkIs, CloseCut DEF AppIs
<1>3. v = [c EXCEPT !.app.saved.online = FALSE] \/ v = ForgetNetwork(c)
  BY DEF Refused
<1> HIDE DEF c, v
<1>4. /\ v.app.pending = c.app.pending /\ v.app.session = c.app.session
      /\ v.app.abandoned = c.app.abandoned /\ SteamSame(v, c)
  BY <1>2, <1>3 DEF ForgetNetwork, Views, AppState, SteamState, SteamSame
<1>5. Cut(v, w)
  BY <1>2, <1>4, CutOn
<1>6. There(v)
  BY <1>1, <1>5, CutThere
<1> QED BY <1>6 DEF v

LEMMA CheckThere ==
  ASSUME NEW w, Core(w), There(w), InSession(w)
  PROVE  There(CheckNetwork(w))
<1>1. CASE w.app.link # "none"
  BY <1>1, GoneThere DEF CheckNetwork
<1>2. CASE w.app.link = "none" /\ w.app.session.refused # "" /\ ~w.app.session.joined
  BY <1>2, RefusedThere DEF CheckNetwork
<1>3. CASE w.app.link = "none" /\ ~(w.app.session.refused # "" /\ ~w.app.session.joined)
  <2> DEFINE n == Snapshot(w)
  <2>1. CheckNetwork(w) = HelperGone(n)
    BY <1>3 DEF CheckNetwork
  <2>2. CASE ~w.app.session.joined
    <3>1. n = w
      BY <2>2 DEF Snapshot
    <3> QED BY <2>1, <3>1, GoneThere
  <2>3. CASE w.app.session.joined
    <3>1. w \in Views /\ ~Waiting(w)
      BY <1>3, SessionWaits DEF Core
    <3>2. /\ AppIs(n, w, w.app.pending, w.app.session,
                   [lobby |-> w.app.session.lobby, online |-> TRUE],
                   w.app.farewell, w.app.link, w.app.helper, w.app.listening, w.app.late)
          /\ SteamSame(n, w)
      BY <2>3, <3>1, SnapshotIs
    <3>3. Same(n, w)
      BY <3>1, SmallSame
    <3> HIDE DEF n
    <3>4. There(n) /\ n \in Views /\ ~Waiting(n) /\ Pends(n)
      BY <3>1, <3>2, <3>3, AlikeThere DEF AppIs, SteamSame, Waiting, Pends
    <3>5. Cut(BeOffline(n), n) /\ Cut(CloseNetwork(n), n)
      BY <3>4, GiveUpCut, CloseCut
    <3>6. Lonely(n)
      BY <3>4 DEF There
    <3>7. There(BeOffline(n)) /\ There(CloseNetwork(n))
      BY <3>4, <3>5, <3>6, CutThere
    <3> QED BY <2>1, <3>4, <3>7 DEF HelperGone
  <2> QED BY <2>2, <2>3
<1> QED BY <1>1, <1>2, <1>3

\* Back online; also when the user's wish for it is not saved yet.
LEMMA GoBackOnlineThere ==
  ASSUME OneCall, NEW w \in Views, Lonely(w), ~Waiting(w), ~InSession(w),
         ~w.app.session.joined, NEW v \in GoBackOnline(w)
  PROVE  There(v)
<1>1. CASE v \in StartJoin(w, "rejoin", w.app.saved.lobby)
  BY <1>1, StartJoinThere, SavedIs DEF TakesPart, Kind
<1>2. CASE v = LoseConnection(w)
  <2>1. /\ AppIs(v, w, w.app.pending, w.app.session, w.app.saved, w.app.farewell,
                 IF w.steam.logged THEN "restoring" ELSE "reconnecting",
                 w.app.helper, w.app.listening,
                 IF w.steam.logged THEN w.app.late \ {"restore"} ELSE w.app.late)
        /\ SteamSame(v, w)
    BY <1>2, LoseConnectionIs
  <2>2. Same(v, w)
    BY <1>2, SmallSame
  <2> QED BY <2>1, <2>2
          DEF There, TakesPart, Lonely, Fresh, AppIs, SteamSame, Same, Waiting, InSession
<1> QED BY <1>1, <1>2 DEF GoBackOnline

LEMMA InviteThere ==
  ASSUME OneCall, NEW w, Core(w), There(w), ~Waiting(w), ~InSession(w), NEW v \in Invite(w)
  PROVE  There(v)
<1>1. w \in Views /\ Lonely(w) /\ ~w.app.session.joined
  BY DEF Core, StateInv, There
<1>2. CASE HasNetwork(w)
  <2> DEFINE o == [w EXCEPT !.app.saved.online = TRUE]
  <2>1. v \in GoBackOnline(o)
    BY <1>2 DEF Invite
  <2>2. /\ o.app.session = w.app.session /\ o.app.pending = w.app.pending
        /\ o.app.abandoned = w.app.abandoned /\ o.steam = w.steam
    BY <1>1 DEF Views, AppState
  <2>3. o \in Views
    BY <1>1, WishIs DEF AppIs
  <2> HIDE DEF o
  <2>4. Lonely(o) /\ ~Waiting(o) /\ ~InSession(o) /\ ~o.app.session.joined
    BY <1>1, <2>2 DEF Lonely, Waiting, InSession
  <2> QED BY <2>1, <2>3, <2>4, GoBackOnlineThere
<1>3. CASE ~HasNetwork(w)
  <2>1. PICK lobby \in Lobby : v \in StartJoin(w, "join", lobby)
    BY <1>3 DEF Invite
  <2> QED BY <1>1, <2>1, StartJoinThere DEF TakesPart, Kind
<1> QED BY <1>2, <1>3

LEMMA FarewellThere ==
  ASSUME NEW w \in Views, Lonely(w), ~Waiting(w), w.app.farewell, NEW v \in Farewell(w)
  PROVE  There(v)
<1>1. CASE v = w
  BY <1>1 DEF There, Fresh, TakesPart
<1>2. CASE v = EndFarewell(CloseNetwork(w))
  <2> DEFINE c == CloseNetwork(w)
  <2>1. c \in Views /\ Cut(c, w)
    BY CloseNetworkIs, CloseCut DEF AppIs
  <2>2. v = EndFarewell(c)
    BY <1>2
  <2> HIDE DEF c
  <2>3. Same(v, c)
    BY <2>1, <2>2, SmallSame
  <2>4. /\ AppIs(v, c, c.app.pending, c.app.session, c.app.saved, FALSE, c.app.link,
                 c.app.helper, c.app.listening, c.app.late \ {"farewell"})
        /\ SteamSame(v, c)
    BY <2>1, <2>2, EndFarewellIs
  <2>5. Cut(v, w)
    BY <2>1, <2>3, <2>4, CutOn DEF AppIs, Same
  <2> QED BY <2>5, CutThere
<1> QED BY <1>1, <1>2 DEF Farewell

LEMMA AfterWatchThere ==
  ASSUME OneCall, NEW s, NEW w, Mid(s, w), There(w), w.app.running, ~w.app.farewell,
         NEW invited, NEW v \in AfterWatch(w, invited)
  PROVE  There(v)
<1>1. CASE InSession(w)
  <2>1. PICK u \in Processed(w) : v = CheckNetwork(u)
    BY <1>1 DEF AfterWatch
  <2>2. Core(u) /\ InSession(u)
    BY <1>1, <2>1, ProcessedMid DEF Mid
  <2>3. There(u)
    BY <2>1, ProcessedThere DEF Mid, Core
  <2> QED BY <2>1, <2>2, <2>3, CheckThere
<1>2. CASE ~InSession(w) /\ invited /\ ~Waiting(w) /\ w.app.link = "none"
  <2>1. v \in Invite(w)
    BY <1>2 DEF AfterWatch
  <2> QED BY <1>2, <2>1, InviteThere DEF Mid
<1>3. CASE ~InSession(w) /\ ~(invited /\ ~Waiting(w) /\ w.app.link = "none")
  BY <1>3 DEF AfterWatch
<1> QED BY <1>1, <1>2, <1>3

LEMMA TickThere ==
  ASSUME OneCall, NEW s, Core(s), Settled(s), Near(s), s.app.running,
         NEW r \in Results(LeaveAbandoned(s)), NEW invited, NEW v \in AfterResults(r, invited)
  PROVE  There(v)
<1>1. s \in Views
  BY DEF Core
<1>2. After(s, r) /\ Looked(r)
  BY <1>1, ResultsAfter, ResultsLooked
<1>3. /\ r.app.running /\ r \in Views /\ Core(r) /\ StateInv(r) /\ Kept(s, r) /\ Lonely(r)
      /\ Fresh(r)
  BY <1>2 DEF After, Way, Kept, Core, Looked
<1>4. CASE r.app.farewell /\ InSession(r)
  <2>1. ~Waiting(r)
    BY <1>3, <1>4, SessionWaits DEF StateInv
  <2>2. v \in Farewell(r)
    BY <1>4 DEF AfterResults
  <2> QED BY <1>3, <1>4, <2>1, <2>2, FarewellThere
<1>5. CASE r.app.farewell /\ ~InSession(r)
  <2>1. v = r
    BY <1>5 DEF AfterResults
  <2> QED BY <1>3, <1>5, <2>1 DEF There, TakesPart
<1>6. CASE ~r.app.farewell
  <2>1. PICK w \in Watch(r) : v \in AfterWatch(w, invited)
    BY <1>6 DEF AfterResults
  <2>2. Mid(s, w) /\ There(w)
    BY <1>1, <1>2, <1>3, <2>1, WatchMid, WatchThere
  <2>3. w.app.running
    BY <2>2 DEF Mid, Way, Kept
  <2>4. ~w.app.farewell
    <3>1. CASE ~HasNetwork(r)
      <4>1. w = r
        BY <2>1, <3>1 DEF Watch
      <4> QED BY <1>6, <4>1
    <3>2. CASE HasNetwork(r)
      BY <1>3, <2>2, <3>2 DEF Mid, Way, Kept, HasNetwork
    <3> QED BY <3>1, <3>2
  <2> QED BY <2>1, <2>2, <2>3, <2>4, AfterWatchThere
<1> QED BY <1>4, <1>5, <1>6

LEMMA ThereNear ==
  ASSUME NEW w, There(w)
  PROVE  Near(w)
BY DEF There, Near, Fresh, Arrived, InIt

\* Leave Network.
LEMMA LeavingNear ==
  ASSUME OneCall, NEW s, Core(s), Near(s), ~s.app.farewell, NEW v \in Leaving(s)
  PROVE  Near(v)
<1> DEFINE f == ForgetNetwork(s)
           told == [f EXCEPT !.app.helper = "none", !.app.farewell = TRUE]
<1>1. s \in Views /\ StateInv(s) /\ CallInv(s) /\ Pends(s) /\ Lonely(s)
  BY DEF Core, CallInv, Pends, Near
<1>2. /\ AppIs(f, s, s.app.pending, s.app.session, NoNetwork, s.app.farewell, s.app.link,
               s.app.helper, s.app.listening, s.app.late)
      /\ SteamSame(f, s) /\ Same(f, s)
  BY <1>1, ForgetNetworkIs, SmallSame
<1>3. \/ s.app.link # "none" /\ v = GiveUp(f)
      \/ s.app.link = "none" /\ InSession(s) /\ (v \in Farewell(told) \/ v = CloseNetwork(f))
      \/ s.app.link = "none" /\ ~InSession(s) /\ Waiting(s)
           /\ v = [told EXCEPT !.app.pending.kind = "farewell"]
      \/ /\ s.app.link = "none" /\ ~InSession(s) /\ ~Waiting(s)
         /\ \E u \in StartJoin(f, "farewell", s.app.saved.lobby) :
              v = [u EXCEPT !.app.farewell = Waiting(u)]
  <2>1. CASE s.app.link # "none"
    BY <2>1 DEF Leaving
  <2>2. CASE s.app.link = "none" /\ InSession(s)
    BY <2>2 DEF Leaving
  <2>3. CASE s.app.link = "none" /\ ~InSession(s) /\ Waiting(s)
    BY <2>3 DEF Leaving
  <2>4. CASE s.app.link = "none" /\ ~InSession(s) /\ ~Waiting(s)
    BY <2>4 DEF Leaving
  <2> QED BY <2>1, <2>2, <2>3, <2>4
<1> HIDE DEF f
<1>4. /\ f \in Views /\ Pends(f) /\ Lonely(f) /\ (Waiting(f) <=> Waiting(s))
      /\ (Waiting(f) => f.steam.calls[f.app.pending.call].status # "free")
  BY <1>1, <1>2 DEF AppIs, SteamSame, Same, Pends, Waiting, Lonely, InSession, CallInv
<1>5. /\ AppIs(told, f, f.app.pending, f.app.session, f.app.saved, TRUE, f.app.link,
               "none", f.app.listening, f.app.late)
      /\ SteamSame(told, f) /\ Same(told, f)
  BY <1>4 DEF Views, AppState, SteamState, AppIs, SteamSame, Same
<1> HIDE DEF told
<1>6. /\ told \in Views /\ told.app.farewell /\ Lonely(told) /\ (Waiting(told) <=> Waiting(s))
      /\ told.app.pending = s.app.pending /\ told.app.session = s.app.session
      /\ told.steam.calls = s.steam.calls /\ Same(told, s)
  BY <1>2, <1>4, <1>5 DEF AppIs, SteamSame, Same, Waiting, Lonely, InSession
<1>7. CASE s.app.link # "none" /\ v = GiveUp(f)
  <2>1. Cut(v, f)
    BY <1>4, <1>7, GiveUpCut
  <2> QED BY <1>4, <2>1, CutThere, ThereNear
<1>8. CASE s.app.link = "none" /\ InSession(s) /\ (v \in Farewell(told) \/ v = CloseNetwork(f))
  <2>1. ~Waiting(s)
    BY <1>8, SessionWaits
  <2>2. CASE v \in Farewell(told)
    BY <1>6, <2>1, <2>2, FarewellThere, ThereNear
  <2>3. CASE v = CloseNetwork(f)
    <3>1. Cut(v, f)
      BY <1>4, <2>1, <2>3, CloseCut
    <3> QED BY <1>4, <3>1, CutThere, ThereNear
  <2> QED BY <1>8, <2>2, <2>3
<1>9. CASE s.app.link = "none" /\ ~InSession(s) /\ Waiting(s)
             /\ v = [told EXCEPT !.app.pending.kind = "farewell"]
  <2>1. /\ v.app.pending.call = s.app.pending.call /\ v.app.farewell
        /\ v.app.abandoned = s.app.abandoned /\ v.steam = told.steam
    BY <1>6, <1>9 DEF Views, AppState, Pending, Same
  <2>2. s.app.abandoned = {}
    BY <1>1, <1>9 DEF Lonely
  <2>3. Arrived(v)
    BY <1>6, <1>9, <2>1 DEF Near, Arrived, Same
  <2> QED BY <2>1, <2>2, <2>3 DEF Near, Lonely, InIt, TakesPart
<1>10. ASSUME s.app.link = "none", ~InSession(s), ~Waiting(s),
              NEW u \in StartJoin(f, "farewell", s.app.saved.lobby),
              v = [u EXCEPT !.app.farewell = Waiting(u)]
       PROVE  Near(v)
  <2>1. ~TakesPart(f) /\ s.app.saved.lobby \in Lobby \cup {NoLobby}
    BY <1>1, <1>2, <1>10, SavedIs DEF TakesPart, AppIs, StateInv
  <2>2. There(u)
    BY <1>4, <1>10, <2>1, StartJoinThere DEF Kind
  <2>3. u \in Views /\ (u.app.session = f.app.session \/ u.app.session = NoSession)
    <3>1. CASE u \in Ask(f, "farewell", s.app.saved.lobby)
      <4>1. PICK c \in Call : AskResult(u, f, "farewell", s.app.saved.lobby, c)
        BY <1>4, <2>1, <3>1, AskIs DEF Kind
      <4> QED BY <4>1 DEF AskResult, AppIs
    <3>2. CASE u \notin Ask(f, "farewell", s.app.saved.lobby)
      <4>1. AppIs(u, f, f.app.pending, NoSession, f.app.saved, FALSE, f.app.link,
                  "none", FALSE, f.app.late \ {"farewell"})
        BY <1>4, <1>10, <2>1, <3>2, StartJoinIs DEF Kind
      <4> QED BY <4>1 DEF AppIs
    <3> QED BY <3>1, <3>2
  <2>4. /\ v.app.session = u.app.session /\ v.app.pending = u.app.pending
        /\ v.app.abandoned = u.app.abandoned /\ v.steam = u.steam
    BY <1>10, <2>3 DEF Views, AppState
  <2>5. ~v.app.session.joined
    BY <1>1, <1>2, <1>10, <2>3, <2>4, Constants DEF AppIs, StateInv
  <2> QED BY <2>2, <2>4, <2>5, ThereNear DEF There, Lonely, Fresh, TakesPart, Waiting, InSession
<1> QED BY <1>3, <1>7, <1>8, <1>9, <1>10

\* What the callbacks said is lost has been looked at by then.
LEMMA ThereNothingLost ==
  ASSUME NEW w \in Views, There(w)
  PROVE  Near([w EXCEPT !.steam.lost = {}])
<1> DEFINE v == [w EXCEPT !.steam.lost = {}]
<1>1. v.app = w.app /\ v.steam.inside = w.steam.inside /\ v.steam.calls = w.steam.calls
  BY DEF Views, SteamState
<1> HIDE DEF v
<1>2. There(v)
  BY <1>1 DEF There, Lonely, Fresh, TakesPart, Waiting, InSession
<1> QED BY <1>2, ThereNear DEF v

\* An app that does not run holds nothing.
LEMMA ClosedNear ==
  ASSUME NEW n, NEW v, v.app = NotRunning(n)
  PROVE  Near(v) /\ ~Waiting(v) /\ ~InSession(v) /\ ~v.app.session.joined
<1>1. /\ v.app.abandoned = {} /\ v.app.session = NoSession /\ v.app.pending = NoPending
  BY DEF NotRunning
<1>2. ~Waiting(v) /\ ~InSession(v) /\ ~v.app.session.joined
  BY <1>1, Constants DEF Waiting, InSession
<1> QED BY <1>1, <1>2 DEF Near, Lonely, InIt, TakesPart, Arrived

LEMMA StartNear ==
  ASSUME OneCall, NEW s, Core(s), Settled(s), ~s.app.running,
         NEW v \in IF s.app.saved.online THEN GoBackOnline([s EXCEPT !.app.running = TRUE])
                   ELSE {[s EXCEPT !.app.running = TRUE]}
  PROVE  Near(v)
<1> DEFINE w == [s EXCEPT !.app.running = TRUE]
<1>1. s \in Views /\ s.app = NotRunning(s.app.saved)
  BY DEF Core, Settled
<1>2. Near(s) /\ ~Waiting(s) /\ ~InSession(s) /\ ~s.app.session.joined
  BY <1>1, ClosedNear
<1>3. /\ w.app.session = s.app.session /\ w.app.pending = s.app.pending
      /\ w.app.abandoned = s.app.abandoned /\ w.steam = s.steam /\ w \in Views
  BY <1>1 DEF Views, AppState
<1>4. v = w \/ v \in GoBackOnline(w)
  OBVIOUS
<1> HIDE DEF w
<1>5. /\ Lonely(w) /\ ~Waiting(w) /\ ~InSession(w) /\ ~w.app.session.joined
  BY <1>2, <1>3 DEF Near, Lonely, Waiting, InSession
<1>6. CASE v = w
  BY <1>5, <1>6 DEF Near, InIt, TakesPart, Arrived
<1>7. CASE v \in GoBackOnline(w)
  BY <1>3, <1>5, <1>7, GoBackOnlineThere, ThereNear
<1> QED BY <1>4, <1>6, <1>7

\* The user goes online: the network is one this PC takes no part in.
LEMMA GoOnlineNear ==
  ASSUME OneCall, NEW s, Core(s), Near(s), PresenceOf(s) = "offline", ~Waiting(s),
         NEW v \in GoBackOnline([s EXCEPT !.app.saved.online = TRUE])
  PROVE  Near(v)
<1> DEFINE o == [s EXCEPT !.app.saved.online = TRUE]
<1>1. s \in Views /\ Lonely(s) /\ ~InSession(s) /\ ~s.app.session.joined
  BY DEF Core, StateInv, Near, PresenceOf
<1>2. /\ o.app.session = s.app.session /\ o.app.pending = s.app.pending
      /\ o.app.abandoned = s.app.abandoned /\ o.steam = s.steam
  BY <1>1 DEF Views, AppState
<1>3. o \in Views
  BY <1>1, WishIs DEF AppIs
<1> HIDE DEF o
<1>4. Lonely(o) /\ ~Waiting(o) /\ ~InSession(o) /\ ~o.app.session.joined
  BY <1>1, <1>2 DEF Lonely, Waiting, InSession
<1> QED BY <1>3, <1>4, GoBackOnlineThere, ThereNear DEF o

LEMMA GoOfflineNear ==
  ASSUME NEW s, Core(s), Near(s)
  PROVE  Near(BeOffline(s))
<1>1. /\ s \in Views /\ Pends(s) /\ Lonely(s)
      /\ Waiting(s) => s.steam.calls[s.app.pending.call].status # "free"
  BY DEF Core, CallInv, Pends, Near
<1> QED BY <1>1, GiveUpCut, CutThere, ThereNear

\* Create, and Join.
LEMMA IdleNear ==
  ASSUME OneCall, NEW s, Core(s), Near(s), ~HasNetwork(s), ~InSession(s), ~Waiting(s),
         NEW kind \in {"create", "join"}, NEW lobby \in Lobby \cup {NoLobby},
         NEW v, v \in StartJoin(s, kind, lobby) \/ v = CloseNetwork(s)
  PROVE  Near(v)
<1>1. s \in Views /\ Lonely(s) /\ ~TakesPart(s) /\ kind \in Kind
  BY DEF Core, StateInv, Near, TakesPart, Kind
<1>2. CASE v \in StartJoin(s, kind, lobby)
  BY <1>1, <1>2, StartJoinThere, ThereNear
<1>3. CASE v = CloseNetwork(s)
  <2>1. Cut(v, s)
    BY <1>1, <1>3, CloseCut
  <2> QED BY <1>1, <2>1, CutThere, ThereNear
<1> QED BY <1>2, <1>3

\* Steam may tell of more that is lost, and take this PC out of a lobby only
\* if it says so.
LEMMA SteamNear ==
  ASSUME NEW s, Near(s), Settled(s), NEW v, v.app = s.app, v.steam.calls = s.steam.calls,
         s.steam.lost \subseteq v.steam.lost,
         v.steam.inside \subseteq s.steam.inside,
         s.steam.inside \ v.steam.inside \subseteq v.steam.lost
  PROVE  Near(v)
<1>1. Lonely(v) /\ Arrived(v)
  BY DEF Near, Lonely, Arrived, Waiting, InSession
<1>2. TakesPart(s) => HasNetwork(s)
  BY DEF Settled, TakesPart
<1>3. InIt(v)
  BY <1>2 DEF Near, InIt, TakesPart, HasNetwork
<1> QED BY <1>1, <1>3 DEF Near

\* An answer is there, and the lobby it is about.
LEMMA AnswerNear ==
  ASSUME NEW s, Core(s), Near(s), NEW c \in Call, s.steam.calls[c].status = "asked",
         NEW k, k.status = "answered",
         NEW v, v.app = s.app, v.steam.lost = s.steam.lost,
         v.steam.calls = [s.steam.calls EXCEPT ![c] = k],
         s.steam.inside \subseteq v.steam.inside,
         k.answer \notin Refusal => k.lobby \in v.steam.inside
  PROVE  Near(v)
<1>2. s.steam.calls \in [Call -> CallState] /\ s.app.abandoned \subseteq Call
  BY DEF Core, Views, AppState, SteamState
<1>4. /\ v.steam.calls[c] = k
      /\ \A d \in Call \ {c} : v.steam.calls[d] = s.steam.calls[d]
  BY <1>2
<1>5. Lonely(v)
  BY <1>2, <1>4 DEF Near, Lonely, Waiting, InSession
<1>6. InIt(v)
  BY DEF Near, InIt, TakesPart, HasNetwork
<1>7. Arrived(v)
  <2>1. SUFFICES ASSUME Waiting(v), v.steam.calls[v.app.pending.call].status = "answered",
                        v.steam.calls[v.app.pending.call].answer \notin Refusal
                 PROVE  v.steam.calls[v.app.pending.call].lobby
                          \in v.steam.inside \cup v.steam.lost
    BY DEF Arrived
  <2>2. v.app.pending.call \in Call /\ Waiting(s)
    BY <2>1 DEF Core, CallInv, Waiting
  <2>3. CASE v.app.pending.call = c
    BY <1>4, <2>1, <2>3
  <2>4. CASE v.app.pending.call # c
    <3>1. v.steam.calls[v.app.pending.call] = s.steam.calls[s.app.pending.call]
      BY <1>4, <2>2, <2>4
    <3> QED BY <2>1, <2>2, <3>1 DEF Near, Arrived
  <2> QED BY <2>3, <2>4
<1> QED BY <1>5, <1>6, <1>7 DEF Near

\* The app waits for the same call, in the same session, as before.
LEMMA AppNear ==
  ASSUME NEW s, Near(s), NEW v, v.steam = s.steam, v.app.pending = s.app.pending,
         v.app.session = s.app.session, v.app.saved = s.app.saved,
         v.app.farewell = s.app.farewell, v.app.link = s.app.link,
         v.app.abandoned = s.app.abandoned
  PROVE  Near(v)
BY DEF Near, Lonely, InIt, TakesPart, Arrived, Waiting, InSession, HasNetwork

LEMMA BecomeNear ==
  ASSUME NEW w \in Views, Become(w), Near(w)
  PROVE  Near(View)'
<1>1. View' = w
  BY DEF Become, View, Views
<1> QED BY <1>1

LEMMA StepNear ==
  ASSUME OneCall, IInv, Near(View), [Next]_vars
  PROVE  \E v : Become(v) /\ Near(v)
<1> DEFINE s == View
<1>1. s \in Views /\ Core(s) /\ Settled(s) /\ Near(s) /\ s.app = app /\ s.steam = steam
  BY DEF IInv, Core, View
<1>2. app \in AppState /\ steam \in SteamState
  BY <1>1 DEF Views
<1>3. ASSUME NEW invited, Tick(invited)
      PROVE  \E v : Become(v) /\ Near(v)
  <2>1. s.app.running
    BY <1>1, <1>3 DEF Tick
  <2>2. PICK r \in Results(LeaveAbandoned(s)) : \E w \in AfterResults(r, invited) :
          Become([w EXCEPT !.steam.lost = {}])
    BY <1>3 DEF Tick
  <2>3. PICK w \in AfterResults(r, invited) : Become([w EXCEPT !.steam.lost = {}])
    BY <2>2
  <2> HIDE DEF s
  <2>4. There(w) /\ Done(s, w)
    BY <1>1, <2>1, <2>2, <2>3, TickThere, TickDone
  <2>5. Near([w EXCEPT !.steam.lost = {}])
    BY <2>4, ThereNothingLost DEF Done, Core
  <2> QED BY <2>3, <2>5
<1>4. ASSUME Idle, NEW kind \in {"create", "join"}, NEW lobby \in Lobby \cup {NoLobby},
             NEW v, v \in StartJoin(s, kind, lobby) \/ v = CloseNetwork(s)
      PROVE  Near(v)
  <2>1. ~HasNetwork(s) /\ ~InSession(s) /\ ~Waiting(s)
    BY <1>4 DEF Idle
  <2> HIDE DEF s
  <2> QED BY <1>1, <1>4, <2>1, IdleNear
<1>5. CASE CreateLobby
  <2>1. PICK v \in Ask(s, "create", NoLobby) \cup {CloseNetwork(s)} : Become(v)
    BY <1>5 DEF CreateLobby
  <2>2. v \in StartJoin(s, "create", NoLobby) \/ v = CloseNetwork(s)
    BY <2>1 DEF StartJoin
  <2>3. Near(v)
    BY <1>4, <1>5, <2>2 DEF CreateLobby
  <2> QED BY <2>1, <2>3
<1>6. CASE Join
  <2>1. PICK lobby \in Lobby : \E w \in StartJoin(s, "join", lobby) : Become(w)
    BY <1>6 DEF Join
  <2>2. PICK v \in StartJoin(s, "join", lobby) : Become(v)
    BY <2>1
  <2>3. Near(v)
    BY <1>4, <1>6, <2>2 DEF Join
  <2> QED BY <2>2, <2>3
<1>7. CASE GoOnline
  <2>1. PICK v \in GoBackOnline([s EXCEPT !.app.saved.online = TRUE]) : Become(v)
    BY <1>7 DEF GoOnline
  <2>2. PresenceOf(s) = "offline" /\ ~Waiting(s)
    BY <1>7 DEF GoOnline
  <2> HIDE DEF s
  <2>3. Near(v)
    BY <1>1, <2>1, <2>2, GoOnlineNear
  <2> QED BY <2>1, <2>3
<1>8. CASE GoOffline
  BY <1>1, <1>8, GoOfflineNear DEF GoOffline
<1>9. CASE LeaveNetwork
  <2>1. PICK v \in Leaving(s) : Become(v)
    BY <1>9 DEF LeaveNetwork
  <2>2. ~s.app.farewell
    BY <1>1, <1>9 DEF LeaveNetwork
  <2> HIDE DEF s
  <2>3. Near(v)
    BY <1>1, <2>1, <2>2, LeavingNear
  <2> QED BY <2>1, <2>3
<1>10. ASSUME NEW saved, Exit(saved)
       PROVE  \E v : Become(v) /\ Near(v)
  <2> DEFINE v == [app |-> NotRunning(saved),
                   steam |-> [steam EXCEPT !.inside = {}, !.lost = {},
                                           !.calls = [c \in Call |-> FreeCall]]]
  <2>1. Become(v) /\ v.app = NotRunning(saved)
    BY <1>10 DEF Exit, Become
  <2> HIDE DEF v
  <2> QED BY <2>1, ClosedNear
<1>11. CASE Shutdown
  BY <1>10, <1>11 DEF Shutdown
<1>12. CASE Crash
  BY <1>10, <1>12 DEF Crash
<1>13. CASE Start
  <2>1. PICK v \in IF s.app.saved.online THEN GoBackOnline([s EXCEPT !.app.running = TRUE])
                   ELSE {[s EXCEPT !.app.running = TRUE]} : Become(v)
    BY <1>1, <1>13 DEF Start
  <2>2. ~s.app.running
    BY <1>1, <1>13 DEF Start
  <2> HIDE DEF s
  <2>3. Near(v)
    BY <1>1, <2>1, <2>2, StartNear
  <2> QED BY <2>1, <2>3
<1>14. ASSUME NEW t, t.calls = steam.calls, steam.lost \subseteq t.lost,
              t.inside \subseteq steam.inside, steam.inside \ t.inside \subseteq t.lost,
              steam' = t, app' = app
       PROVE  \E v : Become(v) /\ Near(v)
  <2> DEFINE v == [app |-> app, steam |-> t]
  <2>1. v.app = s.app /\ v.steam = t /\ Become(v)
    BY <1>1, <1>14 DEF Become
  <2> HIDE DEF v, s
  <2>2. Near(v)
    BY <1>1, <1>14, <2>1, SteamNear
  <2> QED BY <2>1, <2>2
<1>15. CASE LogOff
  <2> DEFINE t == [steam EXCEPT !.logged = FALSE,
                                !.lost = IF app.running THEN @ \cup {NoLobby} ELSE @]
  <2>1. t.calls = steam.calls /\ t.inside = steam.inside /\ steam.lost \subseteq t.lost
    BY <1>2 DEF SteamState
  <2>2. steam' = t /\ app' = app
    BY <1>15 DEF LogOff
  <2> HIDE DEF t
  <2> QED BY <1>14, <2>1, <2>2
<1>16. CASE LogOn
  <2> DEFINE t == [steam EXCEPT !.logged = TRUE]
  <2>1. t.calls = steam.calls /\ t.inside = steam.inside /\ t.lost = steam.lost
    BY <1>2 DEF SteamState
  <2>2. steam' = t /\ app' = app
    BY <1>16 DEF LogOn
  <2> HIDE DEF t
  <2> QED BY <1>14, <2>1, <2>2
<1>17. CASE Removed
  <2>1. PICK lobby \in steam.inside :
          steam' = [steam EXCEPT !.inside = @ \ {lobby}, !.lost = @ \cup {lobby}]
    BY <1>17 DEF Removed
  <2> DEFINE t == [steam EXCEPT !.inside = @ \ {lobby}, !.lost = @ \cup {lobby}]
  <2>2. t.calls = steam.calls /\ t.inside = steam.inside \ {lobby}
        /\ t.lost = steam.lost \cup {lobby}
    BY <1>2 DEF SteamState
  <2>3. steam' = t /\ app' = app
    BY <1>17, <2>1 DEF Removed
  <2> HIDE DEF t
  <2> QED BY <1>14, <2>2, <2>3
<1>18. ASSUME NEW a, app' = a, steam' = steam, a.pending = app.pending,
              a.session = app.session, a.saved = app.saved, a.farewell = app.farewell,
              a.link = app.link, a.abandoned = app.abandoned
       PROVE  \E v : Become(v) /\ Near(v)
  <2> DEFINE v == [app |-> a, steam |-> steam]
  <2>1. v.app = a /\ v.steam = s.steam /\ Become(v)
    BY <1>1, <1>18 DEF Become
  <2> HIDE DEF v, s
  <2>2. Near(v)
    BY <1>1, <1>18, <2>1, AppNear
  <2> QED BY <2>1, <2>2
<1>19. CASE HelperFails
  <2> DEFINE a == [app EXCEPT !.helper = "failed"]
  <2>1. /\ a.pending = app.pending /\ a.session = app.session /\ a.saved = app.saved
        /\ a.farewell = app.farewell /\ a.link = app.link /\ a.abandoned = app.abandoned
    BY <1>2 DEF AppState
  <2>2. app' = a /\ steam' = steam
    BY <1>19 DEF HelperFails
  <2> HIDE DEF a
  <2> QED BY <1>18, <2>1, <2>2
<1>20. ASSUME NEW clock \in Clock, Expire(clock)
       PROVE  \E v : Become(v) /\ Near(v)
  <2> DEFINE a == [app EXCEPT !.late = @ \cup {clock}]
  <2>1. /\ a.pending = app.pending /\ a.session = app.session /\ a.saved = app.saved
        /\ a.farewell = app.farewell /\ a.link = app.link /\ a.abandoned = app.abandoned
    BY <1>2 DEF AppState
  <2>2. app' = a /\ steam' = steam
    BY <1>20 DEF Expire
  <2> HIDE DEF a
  <2> QED BY <1>18, <2>1, <2>2
<1>21. ASSUME NEW c \in Call, AnswerCall(c)
       PROVE  \E v : Become(v) /\ Near(v)
  <2>1. PICK answer \in Answer, lobby \in Lobby :
          steam' = [steam EXCEPT
               !.calls[c] = [status |-> "answered", lobby |-> lobby, answer |-> answer],
               !.inside = IF answer \in Refusal THEN @ ELSE @ \cup {lobby}]
    BY <1>21 DEF AnswerCall
  <2>2. steam.calls[c].status = "asked" /\ app' = app
    BY <1>21 DEF AnswerCall
  <2> DEFINE k == [status |-> "answered", lobby |-> lobby, answer |-> answer]
             t == [steam EXCEPT !.calls[c] = k,
                     !.inside = IF answer \in Refusal THEN @ ELSE @ \cup {lobby}]
             v == [app |-> app, steam |-> t]
  <2>3. Become(v) /\ v.app = s.app /\ v.steam = t
    BY <1>1, <2>1, <2>2 DEF Become
  <2>4. /\ t.lost = steam.lost
        /\ t.calls = [steam.calls EXCEPT ![c] = k]
        /\ t.inside = IF answer \in Refusal THEN steam.inside ELSE steam.inside \cup {lobby}
    BY <1>2 DEF SteamState
  <2>5. k.status = "answered" /\ (k.answer \notin Refusal => k.lobby \in t.inside)
    BY <2>4
  <2> HIDE DEF k, t, v, s
  <2>6. /\ v.app = s.app /\ v.steam.lost = s.steam.lost
        /\ s.steam.calls[c].status = "asked"
        /\ v.steam.calls = [s.steam.calls EXCEPT ![c] = k]
        /\ s.steam.inside \subseteq v.steam.inside
        /\ k.answer \notin Refusal => k.lobby \in v.steam.inside
    BY <1>1, <2>2, <2>3, <2>4, <2>5
  <2>7. Near(v)
    BY <1>1, <1>21, <2>5, <2>6, AnswerNear
  <2> QED BY <2>3, <2>7
<1>22. CASE UNCHANGED vars
  <2>1. steam' = steam /\ app' = app
    BY <1>22 DEF vars
  <2> QED BY <1>14, <2>1
<1> QED BY <1>3, <1>5, <1>6, <1>7, <1>8, <1>9, <1>11, <1>12, <1>13, <1>15, <1>16, <1>17,
           <1>19, <1>20, <1>21, <1>22 DEF Next

LEMMA NearInit == Init => Near(View)
<1> SUFFICES ASSUME Init PROVE Near(View)
  OBVIOUS
<1>1. View.app = NotRunning(NoNetwork)
  BY DEF View, Init
<1> QED BY <1>1, ClosedNear

LEMMA NearNext == OneCall /\ IInv /\ Near(View) /\ [Next]_vars => Near(View)'
<1> SUFFICES ASSUME OneCall, IInv, Near(View), [Next]_vars PROVE Near(View)'
  OBVIOUS
<1>1. PICK v : Become(v) /\ Near(v)
  BY StepNear
<1> DEFINE u == View'
<1>2. u.app = v.app /\ u.steam = v.steam
  BY <1>1 DEF Become, View
<1> HIDE DEF u
<1>3. Near(u)
  BY <1>1, <1>2 DEF Near, Lonely, InIt, TakesPart, Arrived, Waiting, InSession, HasNetwork
<1> QED BY <1>3 DEF u

LEMMA NearImplies == Near(View) => OnlineInLobby
<1> SUFFICES ASSUME Near(View), PresenceOf(View) = "online", steam.lost = {}
             PROVE  app.session.lobby \in steam.inside
  BY DEF OnlineInLobby
<1> DEFINE w == View
<1>1. w.app = app /\ w.steam = steam
  BY DEF View
<1> HIDE DEF w
<1>2. Near(w) /\ PresenceOf(w) = "online"
  BY DEF w
<1>3. TakesPart(w)
  BY <1>2 DEF PresenceOf, TakesPart
<1> QED BY <1>1, <1>2, <1>3 DEF Near, InIt

(***************************************************************************)
(* "online: in the network's Steam lobby": as long as there is only one    *)
(* call to Steam at a time, a session that takes part is in its lobby, or  *)
(* the next tick is told that it is not (AppController.presence(),         *)
(* _abandon(), _leave_abandoned(), _watch_connection()).  With two calls a *)
(* call given up on can take this PC out of the lobby again.               *)
(***************************************************************************)
THEOREM OnlineIsInLobby == OneCall => (Spec => []OnlineInLobby)
<1> SUFFICES ASSUME OneCall PROVE Spec => []OnlineInLobby
  OBVIOUS
<1>1. Init => Near(View)
  BY NearInit
<1>2. IInv /\ Near(View) /\ [Next]_vars => Near(View)'
  BY NearNext
<1>3. Near(View) => OnlineInLobby
  BY NearImplies
<1> QED BY <1>1, <1>2, <1>3, Invariance, PTL DEF Spec
=============================================================================

------------------------------ MODULE Presence ------------------------------
(***************************************************************************)
(* What a user is promised about one PC (the first lines of                *)
(* app/controller.py): it is in no network or in exactly one, which is     *)
(* remembered between runs; Go Offline holds until Go Online; a lost       *)
(* connection is restored without the user.                                *)
(***************************************************************************)
CONSTANTS Lobby, NoLobby   \* SteamIDs of lobbies, and that of none

VARIABLES
  net,      \* the network this user is a member of, or NoLobby
  wish,     \* the user wants to be online in it
  presence  \* what the window shows; "closed" while the app does not run

presenceVars == <<net, wish, presence>>

Init == net = NoLobby /\ ~wish /\ presence = "closed"

\* Not in a network, though perhaps about to get into one.
Outside == {"closed", "none", "connecting"}

Wander ==
  /\ net = NoLobby /\ presence' \in Outside
  /\ UNCHANGED <<net, wish>>

\* A network lets the user in; without its adapter the PC is offline at once.
Become ==
  /\ net = NoLobby /\ presence # "closed"
  /\ net' \in Lobby
  /\ wish' \in BOOLEAN
  /\ presence' = IF wish' THEN "online" ELSE "offline"

\* Leave Network, or the network is gone, or does not know this user any more.
Forget ==
  /\ net # NoLobby /\ presence # "closed"
  /\ net' = NoLobby /\ ~wish' /\ presence' = "none"

\* The diagram of a member that wants to be online.
Arrow ==
  [closed     |-> {"closed", "connecting", "restoring"},
   connecting |-> {"closed", "connecting", "restoring", "online"},
   online     |-> {"closed", "online", "restoring"},
   restoring  |-> {"closed", "connecting", "restoring", "online", "offline"},
   offline    |-> {"closed", "connecting", "restoring", "offline"}]

Recover ==
  /\ net # NoLobby /\ wish
  /\ presence' \in Arrow[presence]
  /\ UNCHANGED <<net, wish>>

GoOffline ==
  /\ net # NoLobby /\ wish /\ presence \notin {"closed", "offline"}
  /\ ~wish' /\ presence' = "offline"
  /\ UNCHANGED net

StayOffline ==
  /\ net # NoLobby /\ ~wish
  /\ presence' \in {"closed", "offline"}
  /\ UNCHANGED <<net, wish>>

GoOnline ==
  /\ net # NoLobby /\ presence = "offline"
  /\ wish' /\ presence' \in {"connecting", "restoring"}
  /\ UNCHANGED net

Next == Wander \/ Become \/ Forget \/ Recover \/ GoOffline \/ StayOffline \/ GoOnline

Spec == Init /\ [][Next]_presenceVars
=============================================================================

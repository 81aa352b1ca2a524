# SteamVirtualLAN in TLA+

SteamVirtualLAN gives a group of Steam friends a virtual LAN: their PCs enter a
Steam lobby, one of them - the lobby's owner - gives out virtual addresses, and
IP packets travel over Steam connections into a virtual adapter. There is no
server. Everything the PCs have to agree on goes through three things: the
lobby's metadata, which only its owner can write; the reliable messages between
two PCs; and the file in which each PC saves its network. This directory models
how they come to agree, what they never do on the way, and where the code falls
short of what its own comments say.

Paths are relative to `src/src/steamlan/` in the repository.

## 1. The system

### Parts, their state and operations

| Part | State | Operations |
|---|---|---|
| Roster (`app/roster.py`) | member -> address | `assign`, `encode`, `decode` |
| Network session (`app/network.py`) | coordinator, roster, trusted, left, refused, failed codes, timers | `process` (messages, `_sync`, `_coordinate`/`_hand_off`/`_member_checks`), `announce_leave`, `resume`, packets |
| Lobby session (`steam/session.py`) | members, connections, the peers it blocked, pending closes | `process`, `send`, `disconnect`, `_refresh_peers`, connection callbacks, `close` |
| Controller (`app/controller.py`) | screen, session, saved network, pending Steam call, restoring, farewell, adapter | user actions, `tick` with its timeouts |
| Messages, tunnel (`app/messages.py`, `app/tunnel.py`) | none | encoding, parsing, checks on packets |
| Latency (`app/latency.py`) | per peer: its connection, the pings under way, the last round trip | `track`, `due`, `pong`, `clear` |
| State store (`app/state.py`) | a JSON file | `load`, `save`, setting damaged files aside |
| Adapter helper (`adapter/launcher.py`, `helper.py`) | an object with a worker thread; a process with a reader and a writer thread; the pipe between them | `start`, `poll`, `set_address`, `send_packet`, `close`; the helper's `serve`, `run`, `handle` |
| Virtual adapter (`adapter/adapter.py`, `wintun.py`, `windows.py`, `bootstrap.py`) | an adapter, its session and address; two copies of wintun.dll | open or create, configure, read, write, close; fetch the driver |
| Steam client (`steam/`) | ctypes bindings | lobby, friends and connection calls |
| Window and tray (`gui/`) | widgets | show the controller's view, call its actions |

### How they interact

The window's timer calls `AppController.tick()`. The controller watches the
connection to Steam, then lets the session work (`NetworkSession.process()`),
which first takes messages from `LobbySession.process()`, then follows the lobby
and does a coordinator's or a member's work; then the controller looks at the
result: it saves the roster, shows a refusal, or finishes a farewell. Within a
PC nothing is concurrent except the adapter helper; the difficulty is between
PCs: each ticks on its own, sees the lobby and its messages when it ticks, and
Steam moves the ownership of the lobby whenever the owner goes.

### What is hard, and what makes each part correct

* **Ownership moves at any moment**, to any member of the lobby, also to a PC
  that was never admitted. The network must not let anybody in on the way
  (`OnlyInvited`), must come to have a coordinator (`Coordinated`), must carry
  on with the roster it had (`RosterCarriedOn`, `AddressKept`).
* **Rosters are copied**: in the lobby, in every session, in every state file,
  some of them old. No copy has an address twice (`UniqueAddresses`), no two PCs
  count on the same address (`AddressesApart`), a session never changes the
  address its adapter was set up with (`OwnAddressStable`), and members come
  back to the lobby's roster (`Agreement`).
* **Steam is lost and comes back**, with the session suspended meanwhile.
  Restoring ends (`RestoreEnds`).
* **A user leaves the network** while online, offline, restoring, or without
  Steam: leaving ends (`LeaveCompletes`), the address is freed (`LeaverFreed`),
  and who returns is a member again (`AcceptedStays`).
* **A newcomer waits for an answer** from a coordinator that may itself leave or
  lose the ownership: it is admitted or told why not (`NewcomerSettles`).
* **The app is killed** between publishing and saving.
* **The controller has one call, one session and one saved network**, and gives
  up on a call, a session or restoring for many reasons: the user, Steam, a
  refusal, its adapter, a timeout. Going offline must end all of them
  (`OfflineIsQuiet`), every cleanup must be complete (`NothingLeaks`), they must
  be about the same network (`OneNetwork`), goodbye and restoring must end
  (`FarewellEnds`, `RestoringEnds`), and what the window shows must be true
  (`OnlineInLobby`, `OfflineIsOutside`), and be what the user asked for
  (`PresencePromised`).
* **A connection has two ends** that notice separately when it breaks, is
  replaced or closed, while Steam's member list is mid-update. No handle is lost
  (`NoLostHandle`), both ends count on the same one (`SameConnection`), messages
  keep their order across connections (`InOrder`), the pair gets connected again
  (`Reconnected`), and the reason for a denial arrives (`DenialHeard`).
* **The adapter helper has five threads in two processes**, joined by a pipe that
  fills up; either process may be killed and the user may close in the middle of
  a start. Calls return (`CallReturns`), the worker thread and the helper end
  (`WorkerEnds`, `HelperGoes`), an end is noticed (`EndNoticed`), Wintun's
  session is not used after it (`ReaderInSession`), confirmed addresses are real
  (`Confirmed`), and two sessions do not share an adapter (`OneOwner`).
* **PONGs come late or never**, over connections that are replaced. None is taken
  for the answer to another PING (`NumbersTrue`), and the round trip is shown
  again (`RttReturns`).
* **A packet passes three checks**, each against its own copy of the addresses:
  it never goes round (`OwnTraffic`), and one check does not refuse what another
  let pass (`NothingRejected`).
* **The state file** cannot be read, cannot be written, is somebody else's, or
  the app is killed while writing it (`Ignored`, `Remembered`, `SetAsideFirst`).

`PROJECT.json` lists each of these hazards with the line where it bites.

## 2. The modules

| Module | Models |
|---|---|
| `RosterData` | `app/roster.py`: rosters as functions, `assign`, what `decode` accepts |
| `NetworkSession` | `app/network.py`: what one PC's session does with a message, in a tick, on leaving; operators on a *view* (the session, the lobby, the connections, the channels) |
| `Coordination` | every PC together: the controller around the session, the connections, the lobby, Steam, users, crashes. The state machine |
| `AddressBook` | the abstract promise: an address book that always agrees with what the PCs count on |
| `MCCoordination` | instances for TLC |
| `Controller` | `app/controller.py` of one PC with its Steam client: pending, abandoned and late calls, restoring, farewell, the adapter, exit and crash. Its session is only let in or refused at some point |
| `Presence` | the abstract promise to the user: what Online, Offline and Restoring mean and which of them may follow which |
| `MCController` | the symmetry of lobbies and of calls, for TLC |
| `Connections` | `steam/session.py` of two PCs, with Steam's connections between them: both ends of each, callbacks, member lists. What `Coordination` has as a pair in `conn`, in detail |
| `AdapterHelper` | `adapter/`: the program's `AdapterHelper` with its worker, the helper process with its threads, the pipe, the adapter, wintun.dll |
| `Traffic` | what two members send each other unreliably: packets (`app/tunnel.py`, `adapter/ipv4.py`, `NetworkSession.send_packet`) and PING and PONG (`app/latency.py`) |
| `StateStore` | `app/state.py` with the calls the controller makes of it |
| `MCConnections`, `MCAdapterHelper`, `MCTraffic`, `MCStateStore` | their instances for TLC |
| `CoordinationProofs` | theorems about rosters, sessions and the network |
| `PromiseProofs` | theorems that addresses stay apart, and that the network implements its abstract promise |
| `ControllerProofs`, `ConnectionsProofs`, `AdapterHelperProofs`, `TrafficProofs`, `StateStoreProofs` | theorems about the modules they are named after |

### State

| Variable | Code |
|---|---|
| `lobby` | the Steam lobby: `GetLobbyMembers`, `GetLobbyOwner`, and the roster entry of its metadata |
| `conn`, `chan` | the pairs with `PeerState` CONNECTED in `LobbySession`, and Steam's queues of reliable messages |
| `mode` | which of the controller's fields are set: `out` nothing; `join`/`rejoin`/`goodbye` a pending JoinLobby (plain, `go_online`, `_leaving`); `online` a session; `suspended` a session and `_restoring`; `retry` `_restoring` without a session; `farewell` a session and a farewell deadline |
| `session` | `NetworkSession`: `coord` is `_coordinator_id`, `known` the roster it came back with, `authSent` the coordinator that was asked, `failures` the wrong codes. `blocked` is `LobbySession`'s set of peers it disconnected on purpose |
| `saved` | the network in the state file; `Empty` for none. `saved[n] # Empty` also stands for the controller's `_network` |
| `logged` | `BLoggedOn` |
| `turn` | the PC inside a tick |
| `used` | how often bounded events happened; no code |

`Controller` has two variables. `app` is the `AppController`: `running` is
`steam is not None`, `session`, `saved`, `pending`, `link`, `helper` and
`abandoned` are the fields of these names, `farewell` and `listening` say whether
`_farewell_until` and `_listen_socket` are set, `late` holds the clocks that have
run out. `_lobby_id` is the session's lobby (outside of `_finish()` they are the
same), and `_leaving` is only looked at for the lobby of the call that is under
way. `steam` is the Steam client: the lobbies the PC is in, the calls and their
answers, and what the callbacks of the next tick report as lost.

`Connections` has, per PC, its copy of the lobby's members (`copy`), its
`LobbySession` (`sess`: the one `_Peer`, `_members_unsettled`, `_paused`,
`_drained`) and the callbacks it has yet to take (`events`); and for each
connection the state at either end, what is under way and what is unread
(`link`). `got` is what `process()` has returned.

`AdapterHelper` has functions of a helper's number: `object` (the fields of
`AdapterHelper`, with where its worker thread and its caller are), `helper` (the
process: where its main thread is, its two other threads, `Channel`'s queue, the
adapter handle and session), `pipe` (which ends are open, and what is in it).
`adapter` is the adapter Windows has, by the helper that created it.

`Traffic` has for each member the connection as its `LobbySession` has it (`up`),
its `LatencyTracker` (`tracker`, `pending`), its copy of the roster and the
address of its adapter; and `air`, the messages under way. `StateStore` has the
three files, and where the program is in `save()` (`at`, `next`).

In `Coordination`, a session of a PC that starts to say goodbye does not exist yet in the code, so
in mode `goodbye` only its `known` field is used: it holds `_leaving`'s roster.

### Steps

A tick of the code is: watch the connection, read messages, follow the lobby,
do the work, look at the result. In the model it is any number of `Receive(n)`
followed by one of `CoordinatorTick`, `HandOffTick`, `MemberTick`, each of them
the whole rest of the tick: `Sync`, the work and the controller's reaction. The
tick is split so that the app can be killed between a message that changed the
lobby and the save at the end (`Crash` is enabled for the PC whose `turn` it
is). Other PCs do not move in between; they could only if their steps touched
what this tick reads, and then the tick would be the same as one that started
later, except for the crash.

In `Controller` a tick is one step: the operators `LeaveAbandoned`, `Results`,
`Watch`, `Processed`, `CheckNetwork`, `Invite` applied in the order of `_tick()`,
each giving the set of its possible results. An accepted invite comes with the
tick that sees it. Everything Steam does happens between ticks.

In `Connections` a tick is again one step (`Process`): the callbacks in order,
the member list once more if it was unsettled, connecting, receiving. In
`AdapterHelper` a step is what one thread does between two places where it
waits or takes the lock; `close()` is therefore five actions. In `StateStore` a
step ends wherever a call to the file system may fail.

In `Coordination`, receiving happens before following the lobby, as in the code: a message is
handled with the coordinator of the tick before. While a session is suspended
the controller still lets it read messages (`OnHold`), and follows nothing.

The rest are the controller's operations (`JoinLobby`, `WaitForSteam`,
`JoinResult`, `JoinFailed`, `NetworkGone`, `GoOffline`, `LeaveOnline`,
`LeaveSuspended`, `LeaveOffline`, `LeaveUnheard`, `LoseConnection`,
`RejoinLobby`, `Restored`, `GiveUp`) and the environment's (`LogOff`, `LogOn`,
`SteamDrops`, `Crash`, `Connect`, `LinkDrops`). Some code paths that do the same
to this state share an action; the comment above each names them.

### Abstractions

* SteamIDs and hosts are small numbers, because the code orders both. The access
  code is TRUE or FALSE: the network's or not.
* Clocks are choices: a timeout may pass in any tick in which its condition
  holds, as often as `Limit` says.
* The order of two PCs' reliable messages is kept per direction. A connection
  that is lost takes its unread messages with it or not; one that is closed on
  purpose is drained first.
* `Coordination` lets messages that linger arrive before the receiver sees the
  lobby change; `Connections` does not, and finds that this matters (`farewell`).
* `Connections` has two PCs, since everything a `LobbySession` keeps is per peer.
  What a connection identifies as its user is the user: Steam authenticates it.
  Numbers stand for the messages.
* In `AdapterHelper` the pipe, `MAX_QUEUED_PACKETS` and the timeouts are small
  or choices; the key that both ends of the pipe prove to know is known; a
  helper killed mid-message has either sent it or not.
* In `Traffic` a packet is its source, its destination, and whether it is of a
  kind that is carried; time is counted in `PING_INTERVAL`s, and a round trip is
  shown or not, without its length.
* In `Coordination`, Steam answers calls in time. A call the controller gave up
  on (`_abandon`) leaves the PC in the lobby until `SteamDrops` takes it out;
  `Controller` has the late answers.
* In `Controller`, clocks are flags that may go up while they run, and a wait
  between two attempts (`RESTORE_BACKOFF`) is a tick that does not ask again. An
  answer is one of five kinds, by what `_finish()` does with it. The saved
  network is its lobby and whether the user wants to be online in it.
* `Coordination` and `Controller` take the state file as one that can be read and
  written; `StateStore` does not.
* Names of members, screens, texts and log lines are left out.

### Prompt

Each PC polls the lobby. If owners or rosters change twice between two of its
polls it misses one. `Prompt = TRUE` restricts the model to the timing the
code's comments take for granted: while a PC that is online has something to
catch up with, no other one starts a tick or changes the owner or the roster.
Without it the network does not keep its addresses - a member that missed the
roster in which its coordinator was admitted does not trust it
(`network.py:422`), and overwrites its roster when it takes over -, so the
properties about kept addresses and liveness are checked with it. Safety that
must hold whatever the timing (`UniqueAddresses`, `OnlyInvited`,
`OwnAddressStable`) is checked and proved without it.

## 3. What the runs check

The runs of `Coordination` have three PCs of which PC 2, the middle one, creates the network, so
that ownership can pass to a lower and to a higher SteamID and both directions
of "the lower one connects" occur. Three is the least number for an owner, a
successor and a bystander with an old copy. With `MaxFailures = 1` the second
wrong code is one too many: `Coordination_tries.cfg`, beside the runs, checks the
properties of `hostile` where PC 1 comes twice, PC 3 tries twice, and PC 1 and the
creator may be killed (82,000 states, no error), and `Coordination_orderly.cfg` those
of `steady` where PC 1 comes twice, clocks run out as often as it takes, and users
come back as `Orderly` says (725,000 states, no error). `Coordination_dropped.cfg`
checks the properties of `newcomers` where PC 3 has a wrong code and a link of PC 1
drops (6,300 states, no error). `MaxQueue = 2` lets a question and a `LEAVE` be
unread together (more only adds repetitions of the same AUTH). `Limit` bounds
how often each PC may enter, lose Steam, be killed, lose a link or time out.
`CHECK_DEADLOCK FALSE` is set wherever the system may stop: everybody is out and
has no entries left, every helper has been closed, the program has ended. Only
`traffic` has a clock that always ticks. States are counted below as distinct ones.

| Run | Instance | Shows |
|---|---|---|
| `steady` | everybody comes or comes back once, one timeout, three addresses, Prompt; 167,000 states | no two PCs count on one address (`AddressesApart`); the network implements `AddressBook` (`PromiseKept`) |
| `hostile` | PC 3 has a wrong code; everybody comes or comes back once, the creator killed and back; two addresses, `MaxQueue = 1`, no Prompt; 263,000 states | `TypeOK`, `UniqueAddresses`, `OnlyInvited`; a session keeps its own address, whatever an old copy that was published says (`OwnAddressStable`) |
| `newcomers` | two newcomers and the creator for two addresses, so that who comes last finds the subnet full; the creator killed; Prompt, timeouts as often as needed, fairness; 4,600 states | `NewcomerSettles`, `LeaveCompletes`, `Agreement`, `Coordinated`, `LeaverFreed` |
| `outage` | the creator loses Steam, with or without a session, goes online again; a link drops; Prompt, fairness; 5,900 states | `RestoreEnds`, `Agreement` |
| `killed` | everybody once, the creator killed once, Prompt | *violated:* `AddressesApart` |

The runs of `Controller`, without any bound but the numbers of lobbies and calls:

| Run | Instance | Shows |
|---|---|---|
| `calls` | two lobbies, two calls under way, late answers, crashes; 378,000 states up to symmetry | `TypeOK`, `OfflineIsQuiet`, `NothingLeaks`, `OneNetwork`; it implements `Presence` (`PresencePromised`) |
| `one_call` | one lobby, one call, fairness; 5,300 states | `OnlineInLobby`, `FarewellEnds`, `RestoringEnds` |

Two lobbies are needed to be in the wrong one; two calls are one that was given
up on and the one after it. With a single call the next one can only be made
when Steam has answered the one before, which is why `OnlineInLobby` holds there.
The lobbies and the calls are symmetric in the runs without liveness.

The runs of the other modules:

| Run | Instance | Shows |
|---|---|---|
| `wear` | two PCs, each enters once; PC 1, which connects, has a connection fail and loses Steam, and its member list may be read mid-update; PC 2 sends and denies; three connections at a time; fairness; 47,300 states | `TypeOK`, `NoLostHandle`, `SameConnection`, `InOrder`, `Reconnected`, `DenialHeard` |
| `farewell` | the same without failures and denials | *violated:* `FarewellHeard` |
| `helper` | two helpers, a pipe and a queue for one message each, wintun.dll to be downloaded or replaced, and one thing that goes wrong: a timeout, a helper killed, the program killed, or a call that fails; two packets and a frame; fairness; 57,900 states | `TypeOK`, `ReaderInSession`, `Confirmed`, `OneOwner`, `HelperGoes`, `CallReturns`, `WorkerEnds`, `EndNoticed` |
| `traffic` | two members, PC 2's address known, unknown or another one; six kinds of packets; three sequence numbers, `MAX_PENDING = 1`; two of: a message lost or delayed, a connection replaced, a suspension, a roster change, a packet; or a packet and two roster changes; fairness; 168,000 states | `TypeOK`, `OwnTraffic`, `NumbersTrue`, `NothingRejected`, `RttReturns` |
| `unreadable` | two accounts, two networks; three starts and saves, a file of another program | *violated:* `Ignored` |

Three connections are one that is used, one that breaks unnoticed and one that
replaces it. One place in the pipe and in the queue is what makes both sides wait
for each other soonest; two helpers are the least for one to meet the last one's
adapter. One trouble at a time is a bound on the size: liveness when two
failures coincide is not checked, while the invariants are proved for any number
of them (section 4). In `traffic` two rosters may be learned, so that each of
the two may have a copy of its own, or that one has another copy while a packet is
sent and the same one again when it arrives (`Cost` makes room for that), and `MAX_SEQUENCE = 3` makes numbers run out,
which is why `RttReturns` asks for some to be left; in the code it is 2^32 - 1.
Only PC 1's PINGs are followed; PC 2 answers.

Nine more instances lie beside these runs, with the same names for their files:
`Coordination_carried_on`, `Coordination_cut_off`, `Coordination_returned`,
`Coordination_forgotten`, `Coordination_given_away`, `Controller_late_answer`,
`Controller_stowaway`, `AdapterHelper_last_word` and `StateStore_overwritten`. TLC finds each one's property violated, and they are
described below. `StateStore_crash` is the store with a failure, a kill and
another version's file: `Remembered`, `NeverHalf` and `Ignored` hold there in
all 306,000 states.

"As often as needed" is a limit of 9, more than any behaviour of those instances
uses, so that no timeout is withheld from fairness by a bound.

### What disagrees with the comments

* `carried_on`: *"a new coordinator simply carries on with it"*
  (`network.py:22`). Not when the owner in between was never admitted: a member
  reads the roster when it takes over only if it trusts the owner before it
  (`network.py:406`); otherwise it publishes its own older copy. A user that had
  left is in the roster again.
* `cut_off`: `resume()` is to *"follow it as it is now"* (`network.py:199`). A
  coordinator that is the owner again when it resumes sees no change of owner
  and publishes what it had before the outage. Members admitted meanwhile lose
  their addresses.
* `killed`: a member *"keeps its address while it is offline"* (`roster.py:4`).
  `_admit()` publishes and accepts before the controller saves. A creator
  killed in between comes back alone in its saved roster, takes the network for
  one it is creating (`network.py:116`), and gives the address away again.
* `returned`: a user that left and comes back before it was taken out of the
  roster is accepted as *"A member coming back"* (`network.py:468`), but stays
  in `left` and is deleted in the same tick.
* `forgotten`, `given_away`: the address of a member can *"be given to someone
  else"* only when it leaves (`roster.py:4`). No crash, outage or timeout is
  needed for it to happen otherwise. PC 2 leaves the network; PC 3 reads its
  LEAVE, PC 1, which coordinates, goes offline before it does. Both come back:
  PC 1 still has PC 2 in its roster, and accepts it as *"A member coming back"*
  (`network.py:468`). PC 3's `left` still has PC 2, since only a member that is
  *new* in a roster is taken out of it (`network.py:435`). When PC 3 becomes the
  owner it removes a member that is in the network (`forgotten`, three PCs;
  `AddressKept`), and gives its address to the next newcomer while PC 2 is
  offline and counts on it (`given_away`, four PCs; `AddressesApart`).

* `late_answer`: *"online: in the network's Steam lobby"* (`controller.py:6`). Go
  Offline while connecting remembers the call; Go Online makes another one. When
  both have been answered, `_tick()` first leaves the lobby for the first answer
  (`controller.py:547`), then starts a session for the second one. The window
  shows Online, the PC is not in the lobby, and Steam reports nothing that would
  make the app restore it.
* `stowaway`: *"offline: remembered as a member, with its address kept, but not
  connected"* (`controller.py:9`). A call that takes longer than `CALL_TIMEOUT`
  is dropped without being remembered (`controller.py:557`). If it succeeds, the
  PC stays in the lobby while the app is offline; the network counts it as
  present, and Steam may make it the owner.

* `farewell`: *"with linger, messages already sent are still delivered"*
  (`session.py:127`), and `announce_leave()` is *"True once the coordinator
  knows"* (`network.py:211`). The PC that leaves closes with linger and leaves
  the lobby. If the coordinator sees the lobby change before the LEAVE arrives,
  it closes its own end at once (`session.py:89`), and Steam drops what was still
  on its way. The address stays taken although its user is gone for good.
* `unreadable`: a file *"that can't be read, is set aside as state.json.bak the
  first time it would be overwritten, and otherwise ignored"* (`state.py:9`).
  `_read()` decodes the file before the `try` that catches `ValueError`
  (`state.py:135`); a file that is not UTF-8 makes `load()` raise, and the
  program does not start. Nothing sets the file aside.
* `StateStore_overwritten`: the same sentence. A file that exists but cannot be
  opened (an OSError, `state.py:138`) is taken for an empty one. `save()` then
  replaces it by the current account's network alone, without setting it
  aside: what it had about other accounts is gone.
* `AdapterHelper_last_word`: ERROR means *"the helper stops after sending it"*
  (`protocol.py:29`). The reader thread sends it when reading from the adapter
  fails, and only that thread stops; the helper goes on taking packets until
  the program closes it.

### Fairness

`FairSpec` assumes, per PC: weak fairness of reading a message, of ending a
tick (a Qt timer ticks for as long as the app runs), of the answer to JoinLobby
(a Steam call result, polled each tick), of the steps of recovering
(`_watch_connection()` runs each tick, and asks again each time), of Steam
removing a PC it lost, and of connecting (`_refresh_peers()` runs each tick).
Strong fairness of "some PC's timeout passes": a clock runs on while others
tick, so that it is disabled for a moment by `turn` does not stop it. Nothing is
assumed of users, of outages ending, or of a killed app being started again.
`RestoreEnds` therefore starts from a PC that is logged on again.

`Controller!FairSpec` assumes weak fairness of the tick without an invite (the
window's timer), of each clock, and of Steam answering each call at some time,
which may be after `CALL_TIMEOUT`. Nothing is assumed of the user, of Steam
being reachable, or of the app being started: `FarewellEnds` holds because a
killed app has no farewell, `RestoringEnds` while Steam stays reachable.

`Connections!FairSpec`: weak fairness of each PC's tick and of its
`RECONNECT_DELAY`, of Steam getting on with the connections there are, and of
its member lists settling. Not of entering, leaving, resuming or failing.

`AdapterHelper!FairSpec`: weak fairness of each thread, one at a time: the
program's (it polls on a timer, closes a helper that has failed, and a call
that can go on does), the worker's (the UAC prompt is answered in the end, one
way or the other), and the helper's main thread, reader and writer. Not of the
user closing anything, nor of the timeouts on the program's side, so that nothing
in the liveness properties is owed to `STOP_TIMEOUT`. The two seconds of
`Channel.close()` do count: without them a helper that has failed and waits to
send its ERROR, and a program that waits to send it STOP, with the pipe full both
ways, would wait for each other. `EndNoticed` is about a program that is
still running.

`Traffic!FairSpec`: weak fairness of PINGs being sent and messages read (the
window's timer), of a suspension ending, and of time. `RttReturns` starts when
the bounded troubles have all happened, so it owes nothing to a fair link.

## 4. What is proved

The theorems hold for every value of the constants that the modules' named
assumptions allow, and use nothing else. None of the invariants below is
inductive alone; each section says what had to be added, which is where most of
the understanding of the code is.

### The network: `CoordinationProofs`

For any set of PCs and of addresses, any limits, with and without Prompt
(assumed: numbers for PCs and addresses, at least one address, the creator is
invited, limits are naturals):

| Theorem | States |
|---|---|
| `TypeCorrect` | `Spec => []TypeOK` |
| `AddressesAreUnique` | `Spec => []UniqueAddresses` |
| `MembersAreInvited` | `Spec => []OnlyInvited` |
| `OwnAddressIsStable` | `Spec => OwnAddressStable` |

That a roster has only invited members depends on who may write one (owners that
are trusted), on the AUTHs under way (a correct code comes from an invited PC),
on the answers under way (an `Accepted` with a code goes to an invited PC), on
the rosters PCs come back with, and on which PCs hold the code. `IInv` says all
of it:

* `SharedInv`: the lobby's roster is good (well typed, no address twice, only
  invited members), and every channel holds only messages that *fit*: a code in
  an `auth` means its sender is invited, a code in an answer means its receiver
  is.
* `SessionInv`: the roster and the known roster of every session are good, and a
  session that has the code belongs to an invited PC.
* `ModeInv`: a PC that goes back online, restores, or says goodbye is invited.
* `SavedInv`: saved rosters are good, and only invited PCs have one.
* `RestInv`: the types of the rest.

The first part of `CoordinationProofs` shows that `Assign` and `Without` keep
addresses apart, and lifts that to every operator of `NetworkSession`: each takes
a good view to a good view and leaves its PC's own address alone (`KeepsOwn`),
except `Announce`, which ends the session, and takes the address out. The second
part has one lemma per action, proving the invariant together with the step fact
behind `OwnAddressStable` (`OwnKept`), and combines them in `NextInv`.

### Addresses that stay apart: `PromiseProofs`

For any set of PCs and of addresses, any number of times that users come, go
offline and return, links that drop and clocks that run out (assumed: as above):

| Theorem | States |
|---|---|
| `AddressesStayApart` | `Calm => (Spec /\ Orderly => []AddressesApart)` |
| `NetworkKeepsPromise` | `Calm => (Spec /\ Orderly => PromiseKept)`: it implements `AddressBook` |

Both hypotheses are needed, and what happens without them are the findings of
section 3:

* `Calm`: PCs keep up with the lobby (`Prompt`), Steam stays reachable, and no
  app is killed. Otherwise: `carried_on`, `cut_off`, `returned`, `killed`.
* `Orderly`: a user that left the network joins it anew only when the other PCs
  have forgotten that - no session has it in `left`, and no LEAVE of it is unread
  (`Lingers`). Otherwise: `forgotten` and `given_away`. Nothing in the code sees
  to it, so it is a hypothesis about users; a user that only went offline may
  return at any time. `Coordination_orderly.cfg` is an instance of it.

The invariant is `CalmInv`. A network is about to be founded (`Founding`: the
creator's first tick is due), gone (nobody is in the lobby), or `Running`:

* `Honoured`: the lobby's roster has every PC that *counts* on it, with the
  address that this PC's session, its known roster and its file have. A PC counts
  on it from the moment an `Accepted` is under way to it: before it has read its
  roster, whoever follows as the coordinator must already know it.
* `Charge`: a member that takes itself for the coordinator owns the lobby, and
  its roster is the lobby's. So nobody publishes an old copy.
* `Catch`: the roster of every other member in a session is right about all who
  count, or the coordinator is at work and trusted by this member, which will
  therefore take its roster. This is what a handover rests on: a member may lag
  behind as long as somebody it trusts is there to be followed, and `Prompt` lets it
  catch up before ownership moves on.
* `Bye`: a PC that came back only to say goodbye and finds itself in charge says
  it in that same tick, with nothing unread, and while everybody knows the roster.
* `Singles`: who thinks it is the only member is. Such a PC creates the network
  again when it comes back (`network.py:116`), with whatever it has saved.
* `Noted`: a member that is online has the network in its file.

`Around` says what holds in all three: `IInv`, who is in the lobby (`Places`), that
a PC without a session has no connections and nothing in its session (`Idle`), that
a PC with a roster is in it (`Kept`), that who is remembered as having left is out
and has forgotten the network (`StayGone`), and that files differ (`FilesApart`).

A step of PC n changes its own session and perhaps the lobby, and what others
think is unchanged. So the operators of `NetworkSession` are described by what
they say to whom (`Speaks`) and what they do to the roster; `StepKeeps` shows that
a step of which `Tidy` holds, with nobody counting that did not before, keeps
`Running`, and the rest of the lemmas show this action by action
(`CoordinatorTickCalm`, `HandOffTickCalm`, `MemberTickCalm`, `ReceiveCalm`, ...).
Letting a newcomer in, handing over, and leaving, where this is not so, each have an
argument of their own. For the refinement each step is either one of
`AddressBook`'s `Keep`, while somebody is in the lobby before and after it
(`BookKept`), or its `Dissolve`, when the last one leaves (`BookEnds`).

### The controller: `ControllerProofs`

For any set of lobbies and any set of calls under way at a time (assumed: the
constants for "none" are none of them):

| Theorem | States |
|---|---|
| `TypesStay` | `Spec => []TypeOK` |
| `QuietStays` | `Spec => []OfflineIsQuiet` |
| `LeaksNothing` | `Spec => []NothingLeaks` |
| `OneNetworkAtATime` | `Spec => []OneNetwork` |
| `PresenceKept` | `Spec => PresencePromised`: it implements `Presence` |
| `OnlineIsInLobby` | `OneCall => (Spec => []OnlineInLobby)` |

The invariant has two parts, because a tick is a chain of operators and the
properties do not hold in the middle of it. `Core` holds of every view, between
two operators too: what the session, the saved network, the recovery, the
farewell and the adapter have to do with each other (`StateInv`); that the
pending call is one Steam knows of, for the lobby its kind asks for (`CallInv`
with `Asked`: only a `restore` may be under way beside a session, and `rejoin`
and `restore` ask for the saved network); that an answer names a lobby
(`SteamInv`). `Settled` holds only between two steps: a listen socket has a use,
a farewell has a session or a call to wait for, a joined session is saved, and an
app that does not run has nothing but its file.

The first part of the module says of each operator what it does to each field.
The second follows a step through the operators of `_tick()`: `Kept`, `Way`,
`Early`, `Mid` and `After` relate the view at the start of the step to the one in
the middle of it. The end of the step satisfies `Done`: `Core`, `Settled`, and
`Moves` - the network, the wish and the presence before and after are those of
an action of `Presence`, or unchanged. `StepDone` has every action satisfy it,
and the invariant and the refinement both follow from that one lemma.

`OnlineIsInLobby` assumes that at most one call is under way (`OneCall`: the set
`Call` has one member), as long as a call given up on is not answered. Without
that it is false, and `late_answer` shows how: the late answer to a call given
up on takes the PC out of the lobby that another call got it into. What makes
the difference is `Lonely`: while the call is one that was given up on, there is
no session and no other call, because none can be made. `InIt` says where a
session is that takes part, unless the next tick is told that it is not there,
and `Arrived` the same of a call that has been answered but not looked at. The
tick is again followed operator by operator: `Near` holds between two steps,
`Looked` once the answers have been read, `There` once `_watch_connection()` has
dealt with what is lost.

### The adapter helper: `AdapterHelperProofs`

For any number of helpers, any sizes of the pipe and of the queues, and any
number of troubles together - the runs have one at a time:

| Theorem | States |
|---|---|
| `TypesStay` | `Spec => []TypeOK` |
| `ReaderStaysInSession` | `Spec => []ReaderInSession` |
| `ConfirmedIsTrue` | `Spec => []Confirmed` |
| `OneOwnerAtATime` | `Spec => []OneOwner` |

The invariant ties, per helper, the place of each of its threads to the handle,
the session and the pipe (`ObjectInv`, `StartInv`, `ProcessInv`), says what the
pipe and the queue may hold (`EchoInv`: every confirmation there is about the
address the adapter has; `RoomInv`), what a helper that has ended has released
(`ReleasedInv`), and that of two helpers the older one is closed (`OrderInv`).

### Packets and PINGs: `TrafficProofs`

For any rosters in which no two members share an address, any packets, sizes and
bounds:

| Theorem | States |
|---|---|
| `TypesStay` | `Spec => []TypeOK`, with `MAX_PENDING` |
| `NumbersStayTrue` | `Spec => []NumbersTrue` |
| `OnlyOwnTraffic` | `Spec => []OwnTraffic` |
| `ChecksAgree` | `Spec => []NothingRejected` |

`NumbersTrue` needs that every number waited for, and every number under way, is
one that was counted out before (`NumberInv`); `OwnTraffic` that an adapter's
address, once it has one, is that of its member's roster (`MemberInv`), which is
true only because `_take_roster()` ignores a roster with another address.

### The connections: `ConnectionsProofs`

For two PCs with any SteamIDs, and any number of connections, callbacks,
failures, outages and messages (assumed: two PCs, whose SteamIDs are numbers;
`MaxLink` is a natural number, `MaxBatch` a positive one):

| Theorem | States |
|---|---|
| `TypesStay` | `Spec => []TypeOK` |
| `NoHandleIsLost` | `Spec => []NoLostHandle` |
| `OneConnection` | `Spec => []SameConnection` |
| `StaysInOrder` | `Spec => []InOrder` |

The invariant says of each PC and each connection in which states the two ends
can be at once, and which of the session's fields or callbacks stand for the
handle (`Sound`, from `At` and `Own`); that what a PC has got, has drained but not
returned, has unread and still has coming rises from one message to the next,
across connections, and never exceeds what was sent (`Line`, from `Chain`); and that
there are no two connections that both PCs count on, or are about to (`Lone`).

A tick handles any number of callbacks in order. `Fine(view, p, rest, world)`
relates the view in the middle of a tick to the callbacks that are left and to
the state the tick began in; every operator of `Process` keeps it, and so does
every prefix of the callbacks. That is shown without induction over sequences:
of the prefixes that do not keep it there would be a shortest one, and it is not
the empty one (`InTurnExists`, `CallbacksInTurn`, `CallbacksFine`). `NextInv`
combines one lemma per action.

### The state file: `StateStoreProofs`

For any accounts and networks, and any number of failures and kills (assumed by
each theorem, as `StoreConstants`: the values for no entry and for a broken one
are not networks, and another program's file is one of the other kinds):

| Theorem | States |
|---|---|
| `TypesStay` | `Spec => []TypeOK` |
| `NetworkRemembered` | `Spec => []Remembered` |
| `HalfFileNever` | `Spec => []NeverHalf` |
| `IgnoredUnlessBinary` | `Spec => []Ignored`, if no file is left that is not UTF-8 |

`Remembered` needs that what is being written has the program's network and the
others' entries (`Faithful`), and that a file that replaces the state file has
been written completely (`Complete`). The last theorem is the other half of
the run `unreadable`: that kind of file is the only one that is not ignored.

### What the proofs changed in the models

* `Traffic!Learn` took any roster; `_take_roster()` refuses one that has another
  address for this member. `OwnTraffic` could not be proved, and says more now.
* `NothingRejected` left out that the receiver may have been given another
  address than the one the packet was sent to before it came: it is now about
  packets for everybody or for the receiver's address.
* `Controller!PresenceOf` was a CASE with overlapping arms, and so fixed only by
  the order in which TLC looks at them. It follows the order of `presence()` now.
* `Connections!Callbacks` was a RECURSIVE operator, about which nothing can be
  proved; it is a recursive function now. `Event` was a record with every field a
  callback may have; it is a union of what callbacks there are.
* `StateStore` lacked the failure of setting a file aside, after which `save()`
  writes nothing (`SetAsideFails`).
* `AddressesApart` and `AddressKept` were thought to hold unless an app is killed
  or Steam is lost. A proof failed at `left`, which remembers who has left also
  after they came back: `forgotten` and `given_away` are what was behind it.

* `Message` allowed a code or an address in messages that have none. Which PCs
  count on a roster depends on the answers under way, so it is exact now.

### Only model-checked

Every safety property of a run that passes is stated by a theorem. Two of them
have hypotheses the runs do not have in this form: `OnlineInLobby` is proved with
one call, and false with more (`late_answer`); `AddressesApart` and `PromiseKept`
are proved of behaviours that are `Calm` and `Orderly`. `steady` is calm, but has
no such condition on users: with three PCs, each of which comes once, they hold
without it.

All liveness stays with TLC, since fairness and ENABLED are out of the prover's
reach: `NewcomerSettles`, `LeaveCompletes`, `Agreement`, `Coordinated`,
`LeaverFreed`, `RestoreEnds`; `FarewellEnds`, `RestoringEnds`; `Reconnected`,
`DenialHeard`; `HelperGoes`, `CallReturns`, `WorkerEnds`, `EndNoticed`;
`RttReturns`.

## 5. What is not modelled

Still to be modelled: a member's silence in `AUTH_TIMEOUT` against a newcomer
about to ask (with Prompt this is left out); a run in which a newcomer loses Steam
before it is admitted; liveness with two troubles at a time in `AdapterHelper`.

Left out: the ctypes bindings of Steam, Wintun and Windows (`steam/native.py`,
`adapter/wintun.py` as far as it declares functions), which translate calls and
structures without state of their own; the lists of members and their names for
the window; how invites and access codes are written and parsed (`app/access.py`);
the Qt window and tray, which show what the controller says; `scripts/`, for
diagnosing by hand.

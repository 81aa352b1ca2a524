--------------------------- MODULE AdapterHelper ---------------------------
(***************************************************************************)
(* The elevated process that owns the virtual adapter, and the program's   *)
(* side of it: AdapterHelper (adapter/launcher.py) with its worker thread, *)
(* the helper (adapter/helper.py) with its reader and writer threads, the  *)
(* adapter (adapter/adapter.py) and wintun.dll (adapter/bootstrap.py).     *)
(* Every session starts one helper, at times while the last one still      *)
(* ends: object, pipe and process are functions of its number.             *)
(***************************************************************************)
EXTENDS Integers, Sequences

CONSTANTS
  Address,    \* addresses a member may be given
  Helpers,    \* bound: how many helpers the program starts
  PipeRoom,   \* messages the pipe holds before a send waits
  QueueRoom,  \* MAX_QUEUED_PACKETS: packets that may wait for the pipe
  Library,    \* the states the two copies of wintun.dll may be found in
  Limit,      \* bound: Limit[what], how often it may happen
  MaxTrouble  \* bound: how much may go wrong altogether

ASSUME RoomAssumption == PipeRoom \in Nat \ {0} /\ QueueRoom \in Nat
ASSUME HelpersAssumption == Helpers \in Nat \ {0}

Gen == 1..Helpers
None == 0
ASSUME AddressAssumption == None \notin Address

Trouble == {"late", "kill", "crash", "fault"}
What == Trouble \cup {"packet", "frame"}
File == {"missing", "official", "other"}
Place == {"bundled", "cached"}
ASSUME LibraryAssumption == Library \subseteq [Place -> File]

Packet == [tag |-> "packet", address |-> None]
Stop == [tag |-> "stop", address |-> None]
Ready == [tag |-> "ready", address |-> None]
Error == [tag |-> "error", address |-> None]
SetTo(a) == [tag |-> "address", address |-> a]
Message == {Packet, Stop, Ready, Error} \cup {SetTo(a) : a \in Address}

\* AdapterHelper, one object of the program.  "stopping" and "waiting" are
\* the places in close() where its caller waits, "sending" that in _send().
Object == [state : {"idle", "starting", "ready", "failed", "stopped"},
           worker : {"none", "preparing", "asking", "launched", "accepting",
                     "accepted", "done"},
           caller : {"free", "sending", "asked", "stopping", "waiting"},
           closing : BOOLEAN, woken : BOOLEAN, process : BOOLEAN, connection : BOOLEAN,
           listening : BOOLEAN, asked : Address \cup {None}, address : Address \cup {None},
           out : Message, library : Place]
NewObject == [state |-> "idle", worker |-> "none", caller |-> "free", closing |-> FALSE,
              woken |-> FALSE, process |-> FALSE, connection |-> FALSE, listening |-> FALSE,
              asked |-> None, address |-> None, out |-> Packet, library |-> "cached"]

\* The helper process: where its main thread is, and its other two threads.
Process == [main : {"none", "connecting", "loading", "starting", "running", "joining",
                    "removing", "flushing", "done"},
            reader : {"none", "on", "ended"}, writer : {"none", "on", "ended"},
            failed : BOOLEAN, reported : BOOLEAN, stop : BOOLEAN,
            queue : Seq(Message), handle : {"none", "opened", "created"},
            session : BOOLEAN, address : Address \cup {None}]
NewProcess == [main |-> "none", reader |-> "none", writer |-> "none", failed |-> FALSE,
               reported |-> FALSE, stop |-> FALSE, queue |-> <<>>, handle |-> "none",
               session |-> FALSE, address |-> None]

Pipe == [app : BOOLEAN, helper : BOOLEAN, toApp : Seq(Message), toHelper : Seq(Message)]
NewPipe == [app |-> FALSE, helper |-> FALSE, toApp |-> <<>>, toHelper |-> <<>>]

VARIABLES
  up,       \* whether the program runs
  object,   \* the AdapterHelpers it has made
  helper,   \* the processes they started
  pipe,     \* the pipes between them
  adapter,  \* which helper created the adapter that exists
  library,  \* the copies of wintun.dll
  used      \* how often each bounded thing has happened

vars == <<up, object, helper, pipe, adapter, library, used>>

TypeOK ==
  /\ up \in BOOLEAN
  /\ object \in [Gen -> Object]
  /\ helper \in [Gen -> Process]
  /\ pipe \in [Gen -> Pipe]
  /\ adapter \in Gen \cup {None}
  /\ library \in [Place -> File]
  /\ used \in [What -> Nat]
  /\ \A g \in Gen : object[g].connection => object[g].worker = "done" /\ ~object[g].closing
  /\ \A g \in Gen : Len(pipe[g].toApp) <= PipeRoom /\ Len(pipe[g].toHelper) <= PipeRoom

Init ==
  /\ up = TRUE
  /\ object = [g \in Gen |-> NewObject]
  /\ helper = [g \in Gen |-> NewProcess]
  /\ pipe = [g \in Gen |-> NewPipe]
  /\ adapter = None
  /\ library \in Library
  /\ used = [w \in What |-> 0]

Spend(what) ==
  /\ used[what] < Limit[what]
  /\ what \in Trouble => used["late"] + used["kill"] + used["crash"] + used["fault"] < MaxTrouble
  /\ used' = [used EXCEPT ![what] = @ + 1]
Free == UNCHANGED used

-----------------------------------------------------------------------------
(***************************************************************************)
(* The program's thread that calls AdapterHelper.                          *)
(***************************************************************************)

\* _fail(): nothing fails any more once it is being closed.
Fail(o) == IF o.closing \/ o.state = "failed" THEN o ELSE [o EXCEPT !.state = "failed"]

Becomes(g, o) == object' = [object EXCEPT ![g] = o]

\* start(), of the next session once the last helper has been closed.
Start(g) ==
  /\ up /\ object[g].state = "idle" /\ ~object[g].closing
  /\ \A h \in Gen : h < g => object[h].closing /\ object[h].caller = "free"
  /\ Becomes(g, [object[g] EXCEPT !.state = "starting", !.listening = TRUE,
                                  !.worker = "preparing"])
  /\ UNCHANGED <<up, helper, pipe, adapter, library, used>>

Polls(g) == up /\ object[g].caller = "free" /\ object[g].state \in {"starting", "ready"}

\* One message in poll().
Handled(o, m) ==
  CASE m.tag = "ready"   -> [o EXCEPT !.state = "ready"]
    [] m.tag = "address" -> [o EXCEPT !.address = m.address]
    [] m.tag = "error"   -> Fail(o)
    [] OTHER             -> o

Poll(g) ==
  /\ Polls(g) /\ object[g].connection /\ pipe[g].toApp # <<>>
  /\ Becomes(g, Handled(object[g], Head(pipe[g].toApp)))
  /\ pipe' = [pipe EXCEPT ![g].toApp = Tail(@)]
  /\ UNCHANGED <<up, helper, adapter, library, used>>

\* Mutant of PollEnd: only an ERROR message counts as a failure.
PollEndQuiet(g) ==
  /\ Polls(g) /\ object[g].connection /\ pipe[g].toApp = <<>> /\ ~pipe[g].helper
  /\ UNCHANGED vars

\* poll() finds the helper's end closed.
PollEnd(g) ==
  /\ Polls(g) /\ object[g].connection /\ pipe[g].toApp = <<>> /\ ~pipe[g].helper
  /\ Becomes(g, Fail(object[g]))
  /\ UNCHANGED <<up, helper, pipe, adapter, library, used>>

\* _check_start(): the helper has exited, or is not ready in START_TIMEOUT.
CheckStart(g) ==
  /\ Polls(g) /\ object[g].state = "starting" /\ object[g].process
  /\ \/ helper[g].main = "done" /\ ~object[g].connection /\ Free
     \/ Spend("late")
  /\ Becomes(g, Fail(object[g]))
  /\ UNCHANGED <<up, helper, pipe, adapter, library>>

\* _send(): waits while the pipe is full.
Sends(g, m, o) ==
  IF ~pipe[g].helper THEN Becomes(g, Fail(o)) /\ UNCHANGED pipe
  ELSE IF Len(pipe[g].toHelper) < PipeRoom
  THEN Becomes(g, o) /\ pipe' = [pipe EXCEPT ![g].toHelper = Append(@, m)]
  ELSE Becomes(g, [o EXCEPT !.caller = "sending", !.out = m]) /\ UNCHANGED pipe

SetAddress(g, a) ==
  /\ up /\ object[g].caller = "free" /\ object[g].state = "ready" /\ object[g].asked # a
  /\ Sends(g, SetTo(a), [object[g] EXCEPT !.asked = a])
  /\ UNCHANGED <<up, helper, adapter, library, used>>

SendPacket(g) ==
  /\ up /\ object[g].caller = "free" /\ object[g].state = "ready"
  /\ object[g].address # None
  /\ Spend("packet")
  /\ Sends(g, Packet, object[g])
  /\ UNCHANGED <<up, helper, adapter, library>>

\* The pipe has room again, or the helper has gone.
SendGoesOn(g) ==
  /\ up /\ object[g].caller = "sending"
  /\ ~pipe[g].helper \/ Len(pipe[g].toHelper) < PipeRoom
  /\ Sends(g, object[g].out, [object[g] EXCEPT !.caller = "free", !.out = Packet])
  /\ UNCHANGED <<up, helper, adapter, library, used>>

\* Mutant of Close: it does not wait for the helper to exit.
CloseOnly(g) ==
  LET o == object[g] IN
  /\ up /\ o.caller = "free" /\ ~o.closing /\ o.state # "idle"
  /\ Becomes(g, [o EXCEPT !.closing = TRUE, !.listening = FALSE, !.connection = FALSE,
       !.state = IF @ \in {"starting", "ready"} THEN "stopped" ELSE @,
       !.woken = ~o.connection /\ o.worker # "done",
       !.caller = IF o.connection THEN "asked" ELSE "free"])
  /\ UNCHANGED <<up, helper, pipe, adapter, library, used>>

\* Mutant of Close: a worker waiting for the helper to connect is left alone.
CloseAsleep(g) ==
  LET o == object[g] IN
  /\ up /\ o.caller = "free" /\ ~o.closing /\ o.state # "idle"
  /\ Becomes(g, [o EXCEPT !.closing = TRUE, !.listening = FALSE, !.connection = FALSE,
       !.state = IF @ \in {"starting", "ready"} THEN "stopped" ELSE @,
       !.caller = IF o.connection THEN "asked" ELSE IF o.process THEN "waiting" ELSE "free"])
  /\ UNCHANGED <<up, helper, pipe, adapter, library, used>>

\* close(), up to the first place where it waits.
Close(g) ==
  LET o == object[g] IN
  /\ up /\ o.caller = "free" /\ ~o.closing /\ o.state # "idle"
  /\ Becomes(g, [o EXCEPT !.closing = TRUE, !.listening = FALSE, !.connection = FALSE,
       !.state = IF @ \in {"starting", "ready"} THEN "stopped" ELSE @,
       !.woken = ~o.connection /\ o.worker # "done",
       !.caller = IF o.connection THEN "asked" ELSE IF o.process THEN "waiting" ELSE "free"])
  /\ UNCHANGED <<up, helper, pipe, adapter, library, used>>

\* _stop_connected() sends STOP ...
AskToStop(g) ==
  /\ up /\ object[g].caller = "asked"
  /\ Len(pipe[g].toHelper) < PipeRoom \/ ~pipe[g].helper
  /\ pipe' = IF pipe[g].helper THEN [pipe EXCEPT ![g].toHelper = Append(@, Stop)]
             ELSE [pipe EXCEPT ![g].app = FALSE, ![g].toApp = <<>>]
  /\ Becomes(g, [object[g] EXCEPT !.caller =
       IF pipe[g].helper THEN "stopping" ELSE IF object[g].process THEN "waiting" ELSE "free"])
  /\ UNCHANGED <<up, helper, adapter, library, used>>

\* ... reads what is still under way ...
StopReads(g) ==
  /\ up /\ object[g].caller = "stopping" /\ pipe[g].toApp # <<>>
  /\ pipe' = [pipe EXCEPT ![g].toApp = Tail(@)]
  /\ UNCHANGED <<up, object, helper, adapter, library, used>>

\* ... until the helper closes its end, or STOP_TIMEOUT has passed.
StopEnds(g) ==
  /\ up /\ object[g].caller = "stopping"
  /\ \/ pipe[g].toApp = <<>> /\ ~pipe[g].helper /\ Free
     \/ Spend("late")
  /\ pipe' = [pipe EXCEPT ![g].app = FALSE, ![g].toApp = <<>>]
  /\ Becomes(g, [object[g] EXCEPT !.caller = IF object[g].process THEN "waiting" ELSE "free"])
  /\ UNCHANGED <<up, helper, adapter, library>>

\* process.wait() returns: the helper has exited, or STOP_TIMEOUT has passed.
WaitEnds(g) ==
  /\ up /\ object[g].caller = "waiting"
  /\ (helper[g].main = "done" /\ Free) \/ Spend("late")
  /\ Becomes(g, [object[g] EXCEPT !.caller = "free", !.process = FALSE])
  /\ UNCHANGED <<up, helper, pipe, adapter, library>>

\* The program exits without closing anything, and Windows closes its ends.
Crash ==
  /\ up /\ Spend("crash")
  /\ up' = FALSE
  /\ object' = [g \in Gen |-> [object[g] EXCEPT !.listening = FALSE, !.worker =
                                 IF @ \in {"none", "asking"} THEN @ ELSE "done"]]
  /\ pipe' = [g \in Gen |-> [pipe[g] EXCEPT !.app = FALSE, !.toApp = <<>>]]
  /\ UNCHANGED <<helper, adapter, library>>

-----------------------------------------------------------------------------
(***************************************************************************)
(* The worker thread, AdapterHelper._start().                              *)
(***************************************************************************)

\* What ensure_wintun() may come to: a bundled copy counts if it is the
\* official build, a cached one is replaced by a download if it is not.
EnsureWintun(copies) ==
  IF copies["bundled"] # "missing"
  THEN {[ok |-> copies["bundled"] = "official", place |-> "bundled", copies |-> copies]}
  ELSE IF copies["cached"] = "official"
  THEN {[ok |-> TRUE, place |-> "cached", copies |-> copies]}
  ELSE {[ok |-> FALSE, place |-> "cached", copies |-> copies],
        [ok |-> TRUE, place |-> "cached",
         copies |-> [copies EXCEPT !["cached"] = "official"]]}

Prepare(g) ==
  /\ up /\ object[g].worker = "preparing"
  /\ \E got \in EnsureWintun(library) :
       /\ library' = got.copies
       /\ Becomes(g, IF got.ok
                     THEN [object[g] EXCEPT !.worker = "asking", !.library = got.place]
                     ELSE Fail([object[g] EXCEPT !.worker = "done"]))
  /\ UNCHANGED <<up, helper, pipe, adapter, used>>

\* The UAC prompt is answered, maybe after the program has gone.
Consent(g) ==
  /\ object[g].worker = "asking"
  /\ helper' = [helper EXCEPT ![g].main = "connecting"]
  /\ Becomes(g, [object[g] EXCEPT !.worker = IF up THEN "launched" ELSE "done"])
  /\ UNCHANGED <<up, pipe, adapter, library, used>>

Decline(g) ==
  /\ object[g].worker = "asking"
  /\ Becomes(g, Fail([object[g] EXCEPT !.worker = "done"]))
  /\ UNCHANGED <<up, helper, pipe, adapter, library, used>>

\* The first look at _closing under the lock; then listener.accept().
Launched(g) ==
  /\ object[g].worker = "launched"
  /\ Becomes(g, IF object[g].closing THEN [object[g] EXCEPT !.worker = "done"]
                ELSE [object[g] EXCEPT !.worker = "accepting", !.process = TRUE])
  /\ UNCHANGED <<up, helper, pipe, adapter, library, used>>

\* The helper connects, and both prove that they know the key.
Accept(g) ==
  /\ object[g].worker = "accepting" /\ helper[g].main = "connecting"
  /\ Becomes(g, [object[g] EXCEPT !.worker = "accepted"])
  /\ pipe' = [pipe EXCEPT ![g].app = TRUE, ![g].helper = TRUE]
  /\ helper' = [helper EXCEPT ![g].main = "loading", ![g].writer = "on"]
  /\ UNCHANGED <<up, adapter, library, used>>

\* close() woke accept(), which fails.
Woken(g) ==
  /\ object[g].worker = "accepting" /\ object[g].woken
  /\ Becomes(g, Fail([object[g] EXCEPT !.worker = "done"]))
  /\ UNCHANGED <<up, helper, pipe, adapter, library, used>>

\* The helper died while the two proved to each other who they are.
HandshakeFails(g) ==
  /\ object[g].worker = "accepting" /\ helper[g].main = "done"
  /\ Becomes(g, Fail([object[g] EXCEPT !.worker = "done"]))
  /\ UNCHANGED <<up, helper, pipe, adapter, library, used>>

\* Mutant of Publish: nobody looks whether it was closed meanwhile.
PublishAnyway(g) ==
  /\ object[g].worker = "accepted"
  /\ Becomes(g, [object[g] EXCEPT !.worker = "done", !.connection = TRUE])
  /\ UNCHANGED <<up, helper, pipe, adapter, library, used>>

\* The second look at _closing under the lock.
Publish(g) ==
  /\ object[g].worker = "accepted"
  /\ IF object[g].closing
     THEN /\ Becomes(g, [object[g] EXCEPT !.worker = "done"])
          /\ pipe' = [pipe EXCEPT ![g].app = FALSE, ![g].toApp = <<>>]
     ELSE /\ Becomes(g, [object[g] EXCEPT !.worker = "done", !.connection = TRUE])
          /\ UNCHANGED pipe
  /\ UNCHANGED <<up, helper, adapter, library, used>>

-----------------------------------------------------------------------------
(***************************************************************************)
(* The helper process.                                                     *)
(***************************************************************************)
Runs(g, p) == helper' = [helper EXCEPT ![g] = p]
Reported(p) == [p EXCEPT !.queue = Append(@, Error), !.reported = TRUE]

\* main() finds no pipe to connect to: nothing has been changed yet.
NoPipe(g) ==
  /\ helper[g].main = "connecting"
  /\ ~object[g].listening /\ object[g].worker # "accepting"
  /\ Runs(g, [helper[g] EXCEPT !.main = "done"])
  /\ UNCHANGED <<up, object, pipe, adapter, library, used>>

\* serve() loads wintun.dll, which it checks again, and opens the adapter,
\* or creates it if there is none.
Load(g) ==
  /\ helper[g].main = "loading" /\ library[object[g].library] = "official"
  /\ Runs(g, [helper[g] EXCEPT !.main = "starting",
                !.handle = IF adapter = None THEN "created" ELSE "opened"])
  /\ adapter' = IF adapter = None THEN g ELSE adapter
  /\ UNCHANGED <<up, object, pipe, library, used>>

LoadFails(g) ==
  /\ helper[g].main = "loading"
  /\ (library[object[g].library] # "official" /\ Free) \/ Spend("fault")
  /\ Runs(g, Reported([helper[g] EXCEPT !.main = "removing"]))
  /\ UNCHANGED <<up, object, pipe, adapter, library>>

\* The adapter's session starts, and Helper.run().
StartSession(g) ==
  /\ helper[g].main = "starting"
  /\ Runs(g, [helper[g] EXCEPT !.main = "running", !.session = TRUE, !.reader = "on",
                               !.queue = Append(@, Ready)])
  /\ UNCHANGED <<up, object, pipe, adapter, library, used>>

StartFails(g) ==
  /\ helper[g].main = "starting" /\ Spend("fault")
  /\ Runs(g, Reported([helper[g] EXCEPT !.main = "removing"]))
  /\ UNCHANGED <<up, object, pipe, adapter, library>>

\* Mutant of Ending: the reader is not waited for.
EndingAtOnce(p, failed) ==
  [p EXCEPT !.main = "removing", !.stop = TRUE, !.failed = failed]

\* run() is on its way out: the reader is told, and waited for.
Ending(p, failed) == [p EXCEPT !.main = "joining", !.stop = TRUE, !.failed = failed]

\* set_address(): the first address is assigned, another one refused.
Assigned(p, a) ==
  IF p.address \in {None, a}
  THEN [p EXCEPT !.address = a, !.queue = Append(@, SetTo(a))]
  ELSE Ending(p, TRUE)

\* handle(): STOP, SET_ADDRESS or a PACKET, which Windows takes or not.
Answer(p, m) ==
  CASE m.tag = "stop"    -> Ending(p, FALSE)
    [] m.tag = "address" -> Assigned(p, m.address)
    [] OTHER             -> p

\* Mutant of Receive: an address is confirmed before Windows has taken it.
ReceiveConfirmed(g) ==
  /\ helper[g].main = "running" /\ pipe[g].toHelper # <<>>
  /\ pipe' = [pipe EXCEPT ![g].toHelper = Tail(@)]
  /\ \/ Free /\ Runs(g, Answer(helper[g], Head(pipe[g].toHelper)))
     \/ /\ Head(pipe[g].toHelper).tag = "address" /\ Spend("fault")
        /\ Runs(g, Ending([helper[g] EXCEPT !.queue = Append(@, Head(pipe[g].toHelper))], TRUE))
  /\ UNCHANGED <<up, object, adapter, library>>

\* Mutant of Receive: one thread reads, and sends what waits before it does.
ReceiveInTurn(g) ==
  /\ helper[g].main = "running" /\ pipe[g].toHelper # <<>> /\ helper[g].queue = <<>>
  /\ pipe' = [pipe EXCEPT ![g].toHelper = Tail(@)]
  /\ Runs(g, Answer(helper[g], Head(pipe[g].toHelper)))
  /\ UNCHANGED <<up, object, adapter, library, used>>

Receive(g) ==
  /\ helper[g].main = "running" /\ pipe[g].toHelper # <<>>
  /\ pipe' = [pipe EXCEPT ![g].toHelper = Tail(@)]
  /\ \/ Free /\ Runs(g, Answer(helper[g], Head(pipe[g].toHelper)))
     \/ /\ Head(pipe[g].toHelper).tag \in {"packet", "address"} /\ Spend("fault")
        /\ Runs(g, Ending(helper[g], TRUE))
  /\ UNCHANGED <<up, object, adapter, library>>

\* The program's end of the pipe closes.
ReceiveEnd(g) ==
  /\ helper[g].main = "running" /\ pipe[g].toHelper = <<>> /\ ~pipe[g].app
  /\ Runs(g, Ending(helper[g], FALSE))
  /\ UNCHANGED <<up, object, pipe, adapter, library, used>>

\* _read(): a packet from Windows, maybe read while run() already ends.
ReaderReads(g) ==
  /\ helper[g].reader = "on" /\ helper[g].address # None /\ Spend("frame")
  /\ Len(helper[g].queue) < QueueRoom
  /\ Runs(g, [helper[g] EXCEPT !.queue = Append(@, Packet)])
  /\ UNCHANGED <<up, object, pipe, adapter, library>>

ReaderFails(g) ==
  /\ helper[g].reader = "on" /\ Spend("fault")
  /\ Runs(g, Reported([helper[g] EXCEPT !.reader = "ended"]))
  /\ UNCHANGED <<up, object, pipe, adapter, library>>

ReaderStops(g) ==
  /\ helper[g].reader = "on" /\ helper[g].stop
  /\ Runs(g, [helper[g] EXCEPT !.reader = "ended"])
  /\ UNCHANGED <<up, object, pipe, adapter, library, used>>

\* The reader has ended; serve() reports what run() failed with.
Joined(g) ==
  /\ helper[g].main = "joining" /\ helper[g].reader = "ended"
  /\ Runs(g, IF helper[g].failed THEN Reported([helper[g] EXCEPT !.main = "removing"])
             ELSE [helper[g] EXCEPT !.main = "removing"])
  /\ UNCHANGED <<up, object, pipe, adapter, library, used>>

\* VirtualAdapter.close(): only its creator's handle removes the adapter.
Remove(g) ==
  /\ helper[g].main = "removing"
  /\ Runs(g, [helper[g] EXCEPT !.main = "flushing", !.session = FALSE, !.handle = "none"])
  /\ adapter' = IF helper[g].handle = "created" THEN None ELSE adapter
  /\ UNCHANGED <<up, object, pipe, library, used>>

\* Channel._write()
Write(g) ==
  /\ helper[g].writer = "on" /\ helper[g].queue # <<>>
  /\ IF pipe[g].app
     THEN /\ Len(pipe[g].toApp) < PipeRoom
          /\ pipe' = [pipe EXCEPT ![g].toApp = Append(@, Head(helper[g].queue))]
          /\ Runs(g, [helper[g] EXCEPT !.queue = Tail(@)])
     ELSE Runs(g, [helper[g] EXCEPT !.writer = "ended", !.queue = <<>>]) /\ UNCHANGED pipe
  /\ UNCHANGED <<up, object, adapter, library, used>>

Exited(p) == [NewProcess EXCEPT !.main = "done", !.reported = p.reported]

\* Channel.close() has sent what was queued, or has waited for two seconds,
\* for room in the pipe or for a slow writer; the connection is closed and
\* the process exits.
Flush(g) ==
  /\ helper[g].main = "flushing"
  /\ \/ /\ \/ helper[g].queue = <<>> \/ helper[g].writer = "ended"
           \/ Len(pipe[g].toApp) = PipeRoom
        /\ Free
     \/ Spend("late")
  /\ Runs(g, Exited(helper[g]))
  /\ pipe' = [pipe EXCEPT ![g].helper = FALSE, ![g].toHelper = <<>>]
  /\ UNCHANGED <<up, object, adapter, library>>

\* The process is killed; Windows removes an adapter with its creator.
Kill(g) ==
  /\ helper[g].main \notin {"none", "done"} /\ Spend("kill")
  /\ Runs(g, Exited(helper[g]))
  /\ pipe' = [pipe EXCEPT ![g].helper = FALSE, ![g].toHelper = <<>>]
  /\ adapter' = IF adapter = g THEN None ELSE adapter
  /\ UNCHANGED <<up, object, library>>

\* The cached wintun.dll is lost or changed behind the program's back.
Spoil ==
  /\ library["cached"] = "official" /\ Spend("fault")
  /\ \E f \in {"missing", "other"} : library' = [library EXCEPT !["cached"] = f]
  /\ UNCHANGED <<up, object, helper, pipe, adapter>>

-----------------------------------------------------------------------------
Caller(g) ==
  \/ Poll(g) \/ PollEnd(g) \/ CheckStart(g) \/ SendGoesOn(g)
  \/ AskToStop(g) \/ StopReads(g) \/ StopEnds(g) \/ WaitEnds(g)

Worker(g) ==
  \/ Prepare(g) \/ Consent(g) \/ Decline(g) \/ Launched(g)
  \/ Accept(g) \/ Woken(g) \/ Publish(g)

MainThread(g) ==
  \/ NoPipe(g) \/ Load(g) \/ LoadFails(g) \/ StartSession(g) \/ StartFails(g)
  \/ Receive(g) \/ ReceiveEnd(g) \/ Joined(g) \/ Remove(g) \/ Flush(g)

Next ==
  \/ Crash \/ Spoil
  \/ \E g \in Gen :
       \/ Start(g) \/ Close(g) \/ SendPacket(g) \/ \E a \in Address : SetAddress(g, a)
       \/ Caller(g) \/ Worker(g) \/ HandshakeFails(g) \/ MainThread(g)
       \/ ReaderReads(g) \/ ReaderFails(g) \/ ReaderStops(g) \/ Write(g) \/ Kill(g)

Spec == Init /\ [][Next]_vars

\* The window's timer keeps polling, and closes a helper that has failed;
\* a call that may go on goes on; the user answers the UAC prompt; each of
\* the threads on both sides runs.
Fairness ==
  \A g \in Gen :
    /\ WF_vars(Caller(g) \/ (object[g].state = "failed" /\ Close(g)))
    /\ WF_vars(Worker(g))
    /\ WF_vars(MainThread(g))
    /\ WF_vars(ReaderStops(g))
    /\ WF_vars(Write(g))

FairSpec == Spec /\ Fairness

-----------------------------------------------------------------------------
\* Wintun's session is not used once it has ended: the reader has stopped
\* before the adapter is closed (helper.py:153, the finally of run()).
ReaderInSession == \A g \in Gen : helper[g].reader = "on" => helper[g].session

\* The address the program takes for confirmed is the one the adapter has,
\* however the answers and the helper's end overlap.
Confirmed ==
  \A g \in Gen : object[g].address # None /\ helper[g].session
                   => helper[g].address = object[g].address

\* Two sessions never share an adapter: unless a wait has timed out, the
\* next helper starts when the last one has let go of it (launcher.py:171).
OneOwner ==
  used["late"] = 0 =>
    \A g, h \in Gen : helper[g].handle # "none" /\ helper[h].handle # "none" => g = h

\* Once it is closed, has failed or its program has gone, a helper exits and
\* its adapter goes, wherever the threads were, and stays gone.
HelperGoes ==
  \A g \in Gen :
    object[g].closing \/ object[g].state = "failed" \/ ~up
      ~> [](helper[g].main \in {"none", "done"} /\ helper[g].handle = "none")

\* A call into AdapterHelper that waits, for room in the pipe or for the
\* helper's end, returns: the two never wait for each other.
CallReturns == \A g \in Gen : object[g].caller # "free" ~> object[g].caller = "free" \/ ~up

\* close() also ends the worker thread, whatever it waits for.
WorkerEnds == \A g \in Gen : object[g].closing ~> object[g].worker = "done"

\* A helper that has exited does not go unnoticed: the state does not stay
\* one in which the window waits for it, or sends packets to it.
EndNoticed ==
  \A g \in Gen : helper[g].main = "done" ~> object[g].state \in {"failed", "stopped"} \/ ~up

Takes(g, m) ==
  /\ pipe[g].toHelper # <<>> /\ Head(pipe[g].toHelper) = m
  /\ pipe'[g].toHelper = Tail(pipe[g].toHelper)

\* The comment of ERROR (protocol.py:29): "the helper stops after sending it".
\* Does not hold: the reader sends it as well, and then only the reader stops.
LastWord ==
  [][\A g \in Gen :
       helper[g].reported /\ helper'[g].main = "running" => ~Takes(g, Packet)]_vars
=============================================================================

------------------------ MODULE AdapterHelperProofs ------------------------
(***************************************************************************)
(* The safety of the adapter helper with any number of helpers, any room   *)
(* in the pipe and the queue, and any troubles, also several at a time.    *)
(***************************************************************************)
EXTENDS AdapterHelper, SequenceTheorems, TLAPS

-----------------------------------------------------------------------------
\* The inductive invariant.  Every part of Local is about one helper: its
\* object o, its process h, its pipe p, and whether a wait has timed out.

\* Where the two sides are allows no other helper to be up with this one.
Before == {"none", "connecting"}

ObjectInv(o) ==
  /\ o.connection => o.worker = "done" /\ ~o.closing /\ o.process
  /\ o.state = "idle" => o.worker = "none" /\ ~o.closing /\ o.caller = "free"
  /\ o.closing => o.state \in {"failed", "stopped"}
  /\ o.caller \in {"asked", "stopping"} => o.closing /\ o.process
  /\ o.caller = "waiting" => o.closing
  /\ o.caller = "sending" => ~o.closing

\* Only a helper that somebody waits for, or that has not come to the pipe,
\* is not up to anything.
StartInv(o, h) ==
  /\ o.worker \in {"none", "preparing", "asking"} => h.main = "none"
  /\ ~o.closing /\ ~o.process
       => h.main \in Before \cup {"done"} /\ o.worker \notin {"accepting", "accepted"}
  /\ o.worker = "launched" => h.main \in Before \cup {"done"}

ProcessInv(h) ==
  /\ h.reader = "on" => h.main \in {"running", "joining"}
  /\ h.main \in {"running", "joining"} => h.session
  /\ h.session => h.main \in {"running", "joining", "removing"}
  /\ h.handle # "none" => h.main \in {"starting", "running", "joining", "removing"}
  /\ h.main \in Before \cup {"loading", "starting"} => h.address = None

\* Every address that is confirmed, or on its way to be, is a.
Matches(q, a) == \A i \in DOMAIN q : q[i].tag = "address" => q[i].address = a

EchoInv(o, h, p) ==
  h.main # "done" =>
    /\ Matches(h.queue, h.address) /\ Matches(p.toApp, h.address)
    /\ o.address # None => o.address = h.address

\* After a close() that did not time out the helper is gone, or it will find
\* nobody to connect to.
ReleasedInv(o, h) ==
  o.closing /\ o.caller = "free" =>
    \/ h.main = "done"
    \/ h.main \in Before /\ o.worker \notin {"accepting", "accepted"}

RoomInv(p) == Len(p.toApp) <= PipeRoom /\ Len(p.toHelper) <= PipeRoom

Local(o, h, p, late) ==
  /\ o \in Object /\ h \in Process /\ p \in Pipe
  /\ ObjectInv(o) /\ StartInv(o, h) /\ ProcessInv(h) /\ EchoInv(o, h, p) /\ RoomInv(p)
  /\ late = 0 => ReleasedInv(o, h)

Shut(o) == o.closing /\ o.caller = "free"

\* A helper is only started when those before it are closed.
OrderInv(objects) ==
  \A g, h \in Gen : h < g /\ objects[g].state # "idle" => Shut(objects[h])

GlobalInv ==
  /\ up \in BOOLEAN
  /\ object \in [Gen -> Object] /\ helper \in [Gen -> Process] /\ pipe \in [Gen -> Pipe]
  /\ adapter \in Gen \cup {None}
  /\ library \in [Place -> File]
  /\ used \in [What -> Nat]

IInv ==
  /\ GlobalInv
  /\ \A g \in Gen : Local(object[g], helper[g], pipe[g], used["late"])
  /\ OrderInv(object)

LEMMA InvImplies == IInv => TypeOK /\ ReaderInSession /\ Confirmed /\ OneOwner
<1> SUFFICES ASSUME IInv PROVE TypeOK /\ ReaderInSession /\ Confirmed /\ OneOwner
  OBVIOUS
<1>1. TypeOK
  BY DEF IInv, GlobalInv, TypeOK, Local, ObjectInv, RoomInv
<1>2. ReaderInSession
  BY DEF IInv, Local, ProcessInv, ReaderInSession
<1>3. Confirmed
  <2> SUFFICES ASSUME NEW g \in Gen, object[g].address # None, helper[g].session
               PROVE  helper[g].address = object[g].address
    BY DEF Confirmed
  <2>1. helper[g].main # "done"
    BY DEF IInv, Local, ProcessInv
  <2> QED BY <2>1 DEF IInv, Local, EchoInv
<1>4. OneOwner
  <2> SUFFICES ASSUME used["late"] = 0, NEW g \in Gen, NEW h \in Gen, h < g,
                      helper[g].handle # "none", helper[h].handle # "none"
               PROVE  FALSE
    BY DEF OneOwner, Gen
  <2>1. helper[g].main \notin Before \cup {"done"} /\ helper[h].main \notin Before \cup {"done"}
    BY DEF IInv, Local, ProcessInv, Before
  <2>2. object[g].state # "idle"
    BY <2>1 DEF IInv, Local, ObjectInv, StartInv, Before
  <2>3. Shut(object[h])
    BY <2>2 DEF IInv, OrderInv
  <2> QED BY <2>1, <2>3 DEF IInv, Local, ReleasedInv, Shut
<1> QED BY <1>1, <1>2, <1>3, <1>4

-----------------------------------------------------------------------------
\* Queues and pipes.

LEMMA NewInv == Local(NewObject, NewProcess, NewPipe, 0)
<1>1. NewObject \in Object
  BY DEF NewObject, Object, Packet, Message, Place
<1>2. NewProcess \in Process
  BY EmptySeq DEF NewProcess, Process
<1>3. NewPipe \in Pipe
  BY EmptySeq DEF NewPipe, Pipe
<1>4. RoomInv(NewPipe)
  BY RoomAssumption, EmptySeq DEF NewPipe, RoomInv
<1> QED BY <1>1, <1>2, <1>3, <1>4
       DEF Local, ObjectInv, StartInv, ProcessInv, EchoInv, Matches, ReleasedInv,
           NewObject, NewProcess, NewPipe, Before

LEMMA InitInv == Init => IInv
<1> SUFFICES ASSUME Init PROVE IInv
  OBVIOUS
<1>1. \A g \in Gen : Local(object[g], helper[g], pipe[g], used["late"])
  BY NewInv DEF Init, What, Trouble
<1>2. OrderInv(object)
  BY DEF Init, OrderInv, NewObject
<1>3. GlobalInv
  BY <1>1, LibraryAssumption DEF Init, GlobalInv, Local, What, Trouble
<1> QED BY <1>1, <1>2, <1>3 DEF IInv

LEMMA AppendMatches ==
  ASSUME NEW q \in Seq(Message), NEW m \in Message, NEW a, Matches(q, a),
         m.tag = "address" => m.address = a
  PROVE  Matches(Append(q, m), a) /\ Append(q, m) \in Seq(Message)
BY AppendProperties DEF Matches

LEMMA TailMatches ==
  ASSUME NEW q \in Seq(Message), q # <<>>, NEW a, Matches(q, a)
  PROVE  /\ Tail(q) \in Seq(Message) /\ Matches(Tail(q), a)
         /\ Len(Tail(q)) = Len(q) - 1
         /\ Head(q) \in Message
         /\ Head(q).tag = "address" => Head(q).address = a
<1>1. Len(q) \in Nat /\ Len(q) > 0 /\ Head(q) = q[1]
  BY EmptySeq
<1>2. Tail(q) \in Seq(Message) /\ Len(Tail(q)) = Len(q) - 1 /\ Head(q) \in Message
      /\ \A i \in 1..Len(Tail(q)) : Tail(q)[i] = q[i + 1]
  BY HeadTailProperties
<1> QED BY <1>1, <1>2 DEF Matches

LEMMA EmptyMatches == <<>> \in Seq(Message) /\ Len(<<>>) = 0 /\ \A a : Matches(<<>>, a)
BY EmptySeq DEF Matches

\* While nothing is confirmed, nothing on its way confirms anything.
LEMMA NoneMatches ==
  ASSUME NEW q \in Seq(Message), Matches(q, None), NEW a
  PROVE  Matches(q, a)
<1>1. \A i \in DOMAIN q : q[i] \in Message
  BY ElementOfSeq, LenProperties
<1> QED BY <1>1, AddressAssumption DEF Matches, Message, Packet, Stop, Ready, Error, SetTo

LEMMA SpendIsFine ==
  ASSUME used \in [What -> Nat], NEW what \in What, Spend(what)
  PROVE  used' \in [What -> Nat] /\ used'["late"] >= used["late"]
         /\ (what = "late" => used'["late"] > 0)
BY DEF Spend, What, Trouble

\* Local does not ask for less once a wait has timed out.
LEMMA LocalLater ==
  ASSUME NEW o, NEW h, NEW p, NEW m \in Nat, NEW n \in Nat, m <= n, Local(o, h, p, m)
  PROVE  Local(o, h, p, n)
BY DEF Local

\* What a step may make of an object, so that the others' order is kept.
MayBecome(g, o) ==
  /\ Shut(object[g]) => Shut(o)
  /\ object[g].state = "idle" /\ o.state # "idle" => \A f \in Gen : f < g => Shut(object[f])

LEMMA SameMayBecome == \A g \in Gen : MayBecome(g, object[g])
BY DEF MayBecome

\* A step of one helper, seen from all of them.
LEMMA OneHelperSteps ==
  ASSUME IInv, NEW g \in Gen, NEW o, NEW h, NEW p,
         object' = [object EXCEPT ![g] = o],
         helper' = [helper EXCEPT ![g] = h],
         pipe' = [pipe EXCEPT ![g] = p],
         used' \in [What -> Nat], used'["late"] >= used["late"],
         Local(o, h, p, used'["late"]),
         MayBecome(g, o),
         up' \in BOOLEAN, adapter' \in Gen \cup {None}, library' \in [Place -> File]
  PROVE  IInv'
<1>1. used["late"] \in Nat /\ used'["late"] \in Nat
  BY DEF IInv, GlobalInv, What, Trouble
<1>2. /\ object' \in [Gen -> Object] /\ helper' \in [Gen -> Process] /\ pipe' \in [Gen -> Pipe]
      /\ object'[g] = o /\ helper'[g] = h /\ pipe'[g] = p
      /\ \A f \in Gen \ {g} :
           object'[f] = object[f] /\ helper'[f] = helper[f] /\ pipe'[f] = pipe[f]
  BY DEF IInv, GlobalInv, Local
<1>3. \A f \in Gen : Local(object'[f], helper'[f], pipe'[f], used'["late"])
  BY <1>1, <1>2, LocalLater DEF IInv
<1>4. OrderInv(object')
  <2> SUFFICES ASSUME NEW e \in Gen, NEW f \in Gen, f < e, object'[e].state # "idle"
               PROVE  Shut(object'[f])
    BY DEF OrderInv
  <2>1. f # e
    BY DEF Gen
  <2>2. CASE f = g
    BY <1>2, <2>1, <2>2 DEF IInv, OrderInv, MayBecome
  <2>3. CASE e = g
    BY <1>2, <2>1, <2>3 DEF IInv, OrderInv, MayBecome
  <2>4. CASE f # g /\ e # g
    BY <1>2, <2>4 DEF IInv, OrderInv
  <2> QED BY <2>2, <2>3, <2>4
<1>5. GlobalInv'
  BY <1>2 DEF GlobalInv
<1> QED BY <1>3, <1>4, <1>5 DEF IInv

LEMMA Known ==
  ASSUME IInv, NEW g \in Gen
  PROVE  /\ Local(object[g], helper[g], pipe[g], used["late"])
         /\ object[g] \in Object /\ helper[g] \in Process /\ pipe[g] \in Pipe
         /\ used \in [What -> Nat] /\ used["late"] \in Nat
         /\ up \in BOOLEAN /\ adapter \in Gen \cup {None} /\ library \in [Place -> File]
BY DEF IInv, GlobalInv, Local, What, Trouble

LEMMA Same ==
  ASSUME IInv, NEW g \in Gen
  PROVE  /\ object = [object EXCEPT ![g] = object[g]]
         /\ helper = [helper EXCEPT ![g] = helper[g]]
         /\ pipe = [pipe EXCEPT ![g] = pipe[g]]
BY DEF IInv, GlobalInv

\* A step in which only the object changes.
LEMMA ObjectSteps ==
  ASSUME IInv, NEW g \in Gen, NEW o, Becomes(g, o),
         UNCHANGED <<up, helper, pipe, adapter>>, library' \in [Place -> File],
         used' \in [What -> Nat], used'["late"] >= used["late"],
         Local(o, helper[g], pipe[g], used'["late"]),
         MayBecome(g, o)
  PROVE  IInv'
<1>1. /\ object' = [object EXCEPT ![g] = o]
      /\ helper' = [helper EXCEPT ![g] = helper[g]]
      /\ pipe' = [pipe EXCEPT ![g] = pipe[g]]
  BY Same DEF Becomes
<1>2. up' \in BOOLEAN /\ adapter' \in Gen \cup {None}
  BY Known
<1> QED BY <1>1, <1>2, SameMayBecome, OneHelperSteps

\* A step in which only the process changes, and perhaps the adapter.
LEMMA ProcessSteps ==
  ASSUME IInv, NEW g \in Gen, NEW h, Runs(g, h),
         UNCHANGED <<up, object, pipe, library>>, adapter' \in Gen \cup {None},
         used' \in [What -> Nat], used'["late"] >= used["late"],
         Local(object[g], h, pipe[g], used'["late"])
  PROVE  IInv'
<1>1. /\ object' = [object EXCEPT ![g] = object[g]]
      /\ helper' = [helper EXCEPT ![g] = h]
      /\ pipe' = [pipe EXCEPT ![g] = pipe[g]]
  BY Same DEF Runs
<1>2. up' \in BOOLEAN /\ library' \in [Place -> File]
  BY Known
<1> QED BY <1>1, <1>2, SameMayBecome, OneHelperSteps

-----------------------------------------------------------------------------
\* The program's thread.

LEMMA FailIsFine ==
  ASSUME NEW o \in Object, NEW h, NEW p, NEW n, Local(o, h, p, n), o.state # "idle"
  PROVE  /\ Fail(o) \in Object /\ Local(Fail(o), h, p, n)
         /\ Shut(o) => Shut(Fail(o))
         /\ Fail(o).state # "idle"
BY DEF Fail, Object, Local, ObjectInv, StartInv, EchoInv, ReleasedInv, Shut

LEMMA StartKeeps == ASSUME IInv, NEW g \in Gen, Start(g) PROVE IInv'
<1> DEFINE o == [object[g] EXCEPT !.state = "starting", !.listening = TRUE,
                                  !.worker = "preparing"]
<1>1. o \in Object
  BY Known DEF Start, Object
<1>2. Local(o, helper[g], pipe[g], used'["late"])
  BY <1>1, Known DEF Start, Object, Local, ObjectInv, StartInv, EchoInv, ReleasedInv
<1> QED BY <1>2, Known, ObjectSteps DEF Start, Shut, MayBecome

LEMMA PollKeeps == ASSUME IInv, NEW g \in Gen, Poll(g) PROVE IInv'
<1> DEFINE m == Head(pipe[g].toApp)
           o == Handled(object[g], m)
           p == [pipe[g] EXCEPT !.toApp = Tail(@)]
<1>1. /\ pipe[g].toApp \in Seq(Message) /\ pipe[g].toApp # <<>>
      /\ object[g].state \in {"starting", "ready"}
  BY Known DEF Poll, Polls, Pipe
<1>2. /\ Tail(pipe[g].toApp) \in Seq(Message) /\ m \in Message
      /\ Len(Tail(pipe[g].toApp)) = Len(pipe[g].toApp) - 1
      /\ helper[g].main # "done" => /\ Matches(Tail(pipe[g].toApp), helper[g].address)
                                    /\ m.tag = "address" => m.address = helper[g].address
  BY <1>1, Known, TailMatches DEF Local, EchoInv
<1>3. p \in Pipe
  BY <1>2, Known DEF Pipe
<1>4. o \in Object
  <2>1. m.tag = "address" => m.address \in Address
    BY <1>2 DEF Message, Packet, Stop, Ready, Error, SetTo
  <2>2. Fail(object[g]) \in Object
    BY <1>1, Known, FailIsFine
  <2> QED BY <2>1, <2>2, Known DEF Handled, Object
<1>5. RoomInv(p)
  <2>1. p.toApp = Tail(pipe[g].toApp) /\ p.toHelper = pipe[g].toHelper
    BY Known DEF Pipe
  <2>2. Len(pipe[g].toApp) \in Nat /\ RoomInv(pipe[g])
    BY <1>1, Known, LenProperties DEF Local
  <2> QED BY <1>2, <2>1, <2>2, RoomAssumption DEF RoomInv
<1>6. Local(o, helper[g], p, used["late"])
  BY <1>1, <1>2, <1>3, <1>4, <1>5, Known, FailIsFine
     DEF Handled, Fail, Object, Pipe, Local, ObjectInv, StartInv, EchoInv, ReleasedInv
<1>7. MayBecome(g, o)
  BY <1>1, Known DEF Local, ObjectInv, Shut, MayBecome
<1>8. /\ object' = [object EXCEPT ![g] = o]
      /\ pipe' = [pipe EXCEPT ![g] = p]
      /\ helper' = [helper EXCEPT ![g] = helper[g]]
      /\ UNCHANGED <<up, adapter, library, used>>
  BY Same DEF Poll, Becomes
<1> HIDE DEF o, p
<1>9. up' \in BOOLEAN /\ adapter' \in Gen \cup {None} /\ library' \in [Place -> File]
      /\ used' \in [What -> Nat] /\ used'["late"] >= used["late"]
      /\ Local(o, helper[g], p, used'["late"])
  BY <1>6, <1>8, Known
<1> QED BY <1>7, <1>8, <1>9, OneHelperSteps

LEMMA PollEndKeeps == ASSUME IInv, NEW g \in Gen, PollEnd(g) PROVE IInv'
<1>1. object[g].state # "idle"
  BY DEF PollEnd, Polls
<1> QED BY <1>1, Known, FailIsFine, ObjectSteps DEF PollEnd, MayBecome

LEMMA CheckStartKeeps == ASSUME IInv, NEW g \in Gen, CheckStart(g) PROVE IInv'
<1>1. object[g].state # "idle"
  BY DEF CheckStart, Polls
<1>2. used' \in [What -> Nat] /\ used'["late"] >= used["late"]
  BY Known, SpendIsFine DEF CheckStart, Free, What, Trouble
<1>3. Local(object[g], helper[g], pipe[g], used'["late"])
  BY <1>2, Known, LocalLater DEF What, Trouble
<1>4. /\ Fail(object[g]) \in Object
      /\ Local(Fail(object[g]), helper[g], pipe[g], used'["late"])
      /\ Shut(object[g]) => Shut(Fail(object[g]))
  BY <1>1, <1>3, Known, FailIsFine
<1> QED BY <1>1, <1>2, <1>4, Known, ObjectSteps DEF CheckStart, MayBecome

\* A step in which the object and the pipe change.
LEMMA PipeSteps ==
  ASSUME IInv, NEW g \in Gen, NEW o, NEW p,
         Becomes(g, o), pipe' = [pipe EXCEPT ![g] = p],
         UNCHANGED <<up, helper, adapter, library>>,
         used' \in [What -> Nat], used'["late"] >= used["late"],
         Local(o, helper[g], p, used'["late"]),
         MayBecome(g, o)
  PROVE  IInv'
<1>1. /\ object' = [object EXCEPT ![g] = o]
      /\ helper' = [helper EXCEPT ![g] = helper[g]]
  BY Same DEF Becomes
<1>2. up' \in BOOLEAN /\ adapter' \in Gen \cup {None} /\ library' \in [Place -> File]
  BY Known
<1> QED BY <1>1, <1>2, OneHelperSteps

\* Putting a message into the pipe towards the helper.
LEMMA ToHelperIsFine ==
  ASSUME NEW p \in Pipe, RoomInv(p), Len(p.toHelper) < PipeRoom, NEW m \in Message
  PROVE  /\ [p EXCEPT !.toHelper = Append(@, m)] \in Pipe
         /\ RoomInv([p EXCEPT !.toHelper = Append(@, m)])
         /\ [p EXCEPT !.toHelper = Append(@, m)].toApp = p.toApp
<1> DEFINE q == [p EXCEPT !.toHelper = Append(@, m)]
<1>1. p.toHelper \in Seq(Message) /\ p.toApp \in Seq(Message)
  BY DEF Pipe
<1>2. Append(p.toHelper, m) \in Seq(Message)
      /\ Len(Append(p.toHelper, m)) = Len(p.toHelper) + 1
      /\ Len(p.toHelper) \in Nat
  BY <1>1, AppendProperties, LenProperties
<1>3. q \in Pipe /\ q.toApp = p.toApp /\ q.toHelper = Append(p.toHelper, m)
  BY <1>2 DEF Pipe
<1>4. RoomInv(q)
  BY <1>2, <1>3, RoomAssumption DEF RoomInv
<1> QED BY <1>3, <1>4

LEMMA LocalOtherPipe ==
  ASSUME NEW o, NEW h, NEW p, NEW q \in Pipe, NEW n, Local(o, h, p, n),
         RoomInv(q), q.toApp = p.toApp \/ q.toApp = <<>>
  PROVE  Local(o, h, q, n)
BY EmptyMatches DEF Local, EchoInv

LEMMA SendsKeeps ==
  ASSUME IInv, NEW g \in Gen, NEW m \in Message, NEW o, Sends(g, m, o),
         o.state # "idle", ~o.closing, ~object[g].closing,
         UNCHANGED <<up, helper, adapter, library>>,
         used' \in [What -> Nat], used'["late"] >= used["late"],
         Local(o, helper[g], pipe[g], used'["late"]),
         object[g].state # "idle"
  PROVE  IInv'
<1>1. \A x : MayBecome(g, x)
  BY DEF MayBecome, Shut
<1>2. CASE ~pipe[g].helper
  <2>1. Becomes(g, Fail(o)) /\ UNCHANGED pipe
    BY <1>2 DEF Sends
  <2>2. Local(Fail(o), helper[g], pipe[g], used'["late"])
    <3>1. o \in Object
      BY DEF Local
    <3> QED BY <3>1, FailIsFine
  <2> QED BY <1>1, <2>1, <2>2, Known, ObjectSteps
<1>3. CASE pipe[g].helper /\ Len(pipe[g].toHelper) < PipeRoom
  <2> DEFINE p == [pipe[g] EXCEPT !.toHelper = Append(@, m)]
  <2>1. Becomes(g, o) /\ pipe' = [pipe EXCEPT ![g].toHelper = Append(@, m)]
    BY <1>3 DEF Sends
  <2>2. p \in Pipe /\ RoomInv(p) /\ p.toApp = pipe[g].toApp
    BY <1>3, Known, ToHelperIsFine DEF Local
  <2>3. pipe' = [pipe EXCEPT ![g] = p]
    BY <2>1
  <2> HIDE DEF p
  <2>4. Local(o, helper[g], p, used'["late"])
    BY <2>2, LocalOtherPipe
  <2> QED BY <1>1, <2>1, <2>3, <2>4, PipeSteps
<1>4. CASE pipe[g].helper /\ ~(Len(pipe[g].toHelper) < PipeRoom)
  <2> DEFINE w == [o EXCEPT !.caller = "sending", !.out = m]
  <2>1. Becomes(g, w) /\ UNCHANGED pipe
    BY <1>4 DEF Sends
  <2>2. w \in Object
    BY DEF Object, Local
  <2>3. Local(w, helper[g], pipe[g], used'["late"])
    BY <2>2 DEF Local, Object, ObjectInv, StartInv, EchoInv, ReleasedInv
  <2> HIDE DEF w
  <2> QED BY <1>1, <2>1, <2>3, Known, ObjectSteps
<1> QED BY <1>2, <1>3, <1>4

LEMMA SetAddressKeeps ==
  ASSUME IInv, NEW g \in Gen, NEW a \in Address, SetAddress(g, a) PROVE IInv'
<1> DEFINE o == [object[g] EXCEPT !.asked = a]
<1>1. object[g].state = "ready" /\ ~object[g].closing
  BY Known DEF SetAddress, Local, ObjectInv
<1>2. SetTo(a) \in Message
  BY DEF Message
<1>3. o \in Object
  BY Known DEF Object
<1>4. Local(o, helper[g], pipe[g], used'["late"])
  BY <1>3, Known DEF SetAddress, Object, Local, ObjectInv, StartInv, EchoInv, ReleasedInv
<1>5. o.state # "idle" /\ ~o.closing
  BY <1>1, Known DEF Object
<1>6. Sends(g, SetTo(a), o) /\ UNCHANGED <<up, helper, adapter, library, used>>
  BY DEF SetAddress
<1> HIDE DEF o
<1> QED BY <1>1, <1>2, <1>4, <1>5, <1>6, Known, SendsKeeps

LEMMA SendPacketKeeps == ASSUME IInv, NEW g \in Gen, SendPacket(g) PROVE IInv'
<1>1. object[g].state = "ready" /\ ~object[g].closing
  BY Known DEF SendPacket, Local, ObjectInv
<1>2. used' \in [What -> Nat] /\ used'["late"] >= used["late"]
  BY Known, SpendIsFine DEF SendPacket, What
<1>3. Local(object[g], helper[g], pipe[g], used'["late"])
  BY <1>2, Known, LocalLater DEF What, Trouble
<1>4. Packet \in Message
  BY DEF Message
<1>5. Sends(g, Packet, object[g]) /\ UNCHANGED <<up, helper, adapter, library>>
  BY DEF SendPacket
<1> QED BY <1>1, <1>2, <1>3, <1>4, <1>5, Known, SendsKeeps

LEMMA SendGoesOnKeeps == ASSUME IInv, NEW g \in Gen, SendGoesOn(g) PROVE IInv'
<1> DEFINE o == [object[g] EXCEPT !.caller = "free", !.out = Packet]
<1>1. object[g].caller = "sending" /\ ~object[g].closing
  BY Known DEF SendGoesOn, Local, ObjectInv
<1>2. o \in Object
  BY Known DEF Object, Message
<1>3. Local(o, helper[g], pipe[g], used["late"])
  BY <1>1, <1>2, Known DEF Object, Local, ObjectInv, StartInv, EchoInv, ReleasedInv
<1>4. object[g].state # "idle"
  BY <1>1, Known DEF Local, ObjectInv
<1>5. o.state # "idle" /\ ~o.closing
  BY <1>1, <1>4, Known DEF Object
<1>6. object[g].out \in Message
  BY Known DEF Object
<1>7. Sends(g, object[g].out, o) /\ UNCHANGED <<up, helper, adapter, library, used>>
  BY DEF SendGoesOn
<1> HIDE DEF o
<1> QED BY <1>1, <1>3, <1>4, <1>5, <1>6, <1>7, Known, SendsKeeps

LEMMA CloseKeeps == ASSUME IInv, NEW g \in Gen, Close(g) PROVE IInv'
<1> DEFINE st == IF object[g].state \in {"starting", "ready"} THEN "stopped"
                 ELSE object[g].state
           wk == ~object[g].connection /\ object[g].worker # "done"
           cl == IF object[g].connection THEN "asked"
                 ELSE IF object[g].process THEN "waiting" ELSE "free"
           o == [object[g] EXCEPT !.closing = TRUE, !.listening = FALSE, !.connection = FALSE,
                                  !.state = st, !.woken = wk, !.caller = cl]
<1>1. o \in Object
  <2>1. /\ st \in {"idle", "starting", "ready", "failed", "stopped"}
        /\ wk \in BOOLEAN /\ cl \in {"asked", "waiting", "free"}
    BY Known DEF Object
  <2> HIDE DEF st, wk, cl
  <2>2. [object[g] EXCEPT !.closing = TRUE, !.listening = FALSE, !.connection = FALSE] \in Object
    BY Known DEF Object
  <2>3. \A q \in Object : [q EXCEPT !.state = st] \in Object
    BY <2>1 DEF Object
  <2>4. \A q \in Object : [q EXCEPT !.woken = wk] \in Object
    BY <2>1 DEF Object
  <2>5. \A q \in Object : [q EXCEPT !.caller = cl] \in Object
    BY <2>1 DEF Object
  <2> DEFINE shut == [object[g] EXCEPT !.closing = TRUE, !.listening = FALSE, !.connection = FALSE]
             told == [[shut EXCEPT !.state = st] EXCEPT !.woken = wk]
  <2>6. [told EXCEPT !.caller = cl] \in Object
    BY <2>2, <2>3, <2>4, <2>5
  <2>7. o = [told EXCEPT !.caller = cl]
    BY Known DEF Object
  <2> QED BY <2>6, <2>7
<1>2. Local(o, helper[g], pipe[g], used["late"])
  BY <1>1, Known DEF Close, Object, Local, ObjectInv, StartInv, EchoInv, ReleasedInv
<1>3. Becomes(g, o) /\ UNCHANGED <<up, helper, pipe, adapter, library, used>>
  BY DEF Close
<1>4. ~object[g].closing /\ object[g].state # "idle"
  BY DEF Close
<1> HIDE DEF o
<1> QED BY <1>2, <1>3, <1>4, Known, ObjectSteps DEF MayBecome, Shut

\* The program's end of the pipe is closed.
AppEndClosed(p) == [p EXCEPT !.app = FALSE, !.toApp = <<>>]

LEMMA AppEndIsFine ==
  ASSUME NEW p \in Pipe, RoomInv(p)
  PROVE  /\ AppEndClosed(p) \in Pipe /\ RoomInv(AppEndClosed(p))
         /\ AppEndClosed(p).toApp = <<>>
<1>1. AppEndClosed(p) \in Pipe
  BY EmptyMatches DEF AppEndClosed, Pipe
<1>2. AppEndClosed(p).toApp = <<>> /\ AppEndClosed(p).toHelper = p.toHelper
  BY DEF AppEndClosed, Pipe
<1> QED BY <1>1, <1>2, EmptyMatches, RoomAssumption DEF RoomInv

LEMMA AppEndChange ==
  ASSUME IInv, NEW g \in Gen, pipe' = [pipe EXCEPT ![g].app = FALSE, ![g].toApp = <<>>]
  PROVE  pipe' = [pipe EXCEPT ![g] = AppEndClosed(pipe[g])]
BY DEF IInv, GlobalInv, AppEndClosed

\* A caller that waited is one step further.
LEMMA CallerIsFine ==
  ASSUME NEW o \in Object, NEW h, NEW p, NEW n, Local(o, h, p, n),
         o.caller \in {"asked", "stopping", "waiting"},
         NEW c \in {"stopping", "waiting", "free"},
         c = "stopping" => o.process,
         c = "free" => n > 0 \/ ReleasedInv([o EXCEPT !.caller = c], h)
  PROVE  Local([o EXCEPT !.caller = c], h, p, n)
<1> DEFINE q == [o EXCEPT !.caller = c]
<1>1. q \in Object /\ q.caller = c /\ q.closing = o.closing /\ q.worker = o.worker
  BY DEF Object
<1>2. o.closing
  BY DEF Local, ObjectInv
<1>3. n = 0 => ReleasedInv(q, h)
  BY <1>1 DEF ReleasedInv
<1> QED BY <1>1, <1>2, <1>3 DEF Object, Local, ObjectInv, StartInv, EchoInv

\* The next place at which close() waits.
Then(o) == IF o.process THEN "waiting" ELSE "free"

LEMMA AskToStopKeeps == ASSUME IInv, NEW g \in Gen, AskToStop(g) PROVE IInv'
<1>1. /\ object[g].caller = "asked" /\ object[g].closing /\ object[g].process
      /\ UNCHANGED <<up, helper, adapter, library, used>>
  BY Known DEF AskToStop, Local, ObjectInv
<1>2. \A c : MayBecome(g, [object[g] EXCEPT !.caller = c])
  BY <1>1, Known DEF MayBecome, Shut, Object
<1>3. CASE pipe[g].helper
  <2> DEFINE p == [pipe[g] EXCEPT !.toHelper = Append(@, Stop)]
             o == [object[g] EXCEPT !.caller = "stopping"]
  <2>1. p \in Pipe /\ RoomInv(p) /\ p.toApp = pipe[g].toApp
    BY <1>3, Known, ToHelperIsFine DEF Local, AskToStop, Message
  <2>2. Becomes(g, o) /\ pipe' = [pipe EXCEPT ![g] = p]
    BY <1>3 DEF AskToStop
  <2>3. Local(o, helper[g], pipe[g], used["late"])
    BY <1>1, Known, CallerIsFine
  <2>4. MayBecome(g, o)
    BY <1>2
  <2> HIDE DEF o, p
  <2>5. Local(o, helper[g], p, used["late"])
    BY <2>1, <2>3, LocalOtherPipe
  <2>6. used' \in [What -> Nat] /\ used'["late"] >= used["late"]
        /\ Local(o, helper[g], p, used'["late"])
    BY <1>1, <2>5, Known
  <2> QED BY <1>1, <2>2, <2>4, <2>6, PipeSteps
<1>4. CASE ~pipe[g].helper
  <2> DEFINE p == AppEndClosed(pipe[g])
             o == [object[g] EXCEPT !.caller = "waiting"]
  <2>1. p \in Pipe /\ RoomInv(p) /\ p.toApp = <<>>
    BY Known, AppEndIsFine DEF Local
  <2>2. Becomes(g, o) /\ pipe' = [pipe EXCEPT ![g] = p]
    BY <1>1, <1>4, AppEndChange DEF AskToStop
  <2>3. Local(o, helper[g], pipe[g], used["late"])
    BY <1>1, Known, CallerIsFine
  <2>4. MayBecome(g, o)
    BY <1>2
  <2> HIDE DEF o, p
  <2>5. Local(o, helper[g], p, used["late"])
    BY <2>1, <2>3, LocalOtherPipe
  <2>6. used' \in [What -> Nat] /\ used'["late"] >= used["late"]
        /\ Local(o, helper[g], p, used'["late"])
    BY <1>1, <2>5, Known
  <2> QED BY <1>1, <2>2, <2>4, <2>6, PipeSteps
<1> QED BY <1>3, <1>4

LEMMA StopReadsKeeps == ASSUME IInv, NEW g \in Gen, StopReads(g) PROVE IInv'
<1> DEFINE p == [pipe[g] EXCEPT !.toApp = Tail(@)]
<1>1. pipe[g].toApp \in Seq(Message) /\ pipe[g].toApp # <<>>
  BY Known DEF StopReads, Pipe
<1>2. /\ Tail(pipe[g].toApp) \in Seq(Message)
      /\ Len(Tail(pipe[g].toApp)) = Len(pipe[g].toApp) - 1
      /\ helper[g].main # "done" => Matches(Tail(pipe[g].toApp), helper[g].address)
  BY <1>1, Known, TailMatches DEF Local, EchoInv
<1>3. p \in Pipe /\ p.toApp = Tail(pipe[g].toApp) /\ p.toHelper = pipe[g].toHelper
  BY <1>2, Known DEF Pipe
<1>4. Len(pipe[g].toApp) \in Nat /\ RoomInv(pipe[g])
  BY <1>1, Known, LenProperties DEF Local
<1>5. RoomInv(p)
  BY <1>2, <1>3, <1>4, RoomAssumption DEF RoomInv
<1>6. /\ Becomes(g, object[g]) /\ pipe' = [pipe EXCEPT ![g] = p]
      /\ UNCHANGED <<up, helper, adapter, library, used>>
  BY Same DEF StopReads, Becomes
<1> HIDE DEF p
<1>7. Local(object[g], helper[g], p, used["late"])
  BY <1>2, <1>3, <1>5, Known DEF Local, EchoInv
<1>8. used' \in [What -> Nat] /\ used'["late"] >= used["late"]
      /\ Local(object[g], helper[g], p, used'["late"])
  BY <1>6, <1>7, Known
<1> QED BY <1>6, <1>8, SameMayBecome, PipeSteps

LEMMA StopEndsKeeps == ASSUME IInv, NEW g \in Gen, StopEnds(g) PROVE IInv'
<1> DEFINE p == AppEndClosed(pipe[g])
           o == [object[g] EXCEPT !.caller = "waiting"]
<1>1. /\ object[g].caller = "stopping" /\ object[g].closing /\ object[g].process
      /\ UNCHANGED <<up, helper, adapter, library>>
  BY Known DEF StopEnds, Local, ObjectInv
<1>2. p \in Pipe /\ RoomInv(p) /\ p.toApp = <<>>
  BY Known, AppEndIsFine DEF Local
<1>3. Becomes(g, o) /\ pipe' = [pipe EXCEPT ![g] = p]
  BY <1>1, AppEndChange DEF StopEnds
<1>4. used' \in [What -> Nat] /\ used'["late"] >= used["late"]
  BY Known, SpendIsFine DEF StopEnds, Free, What, Trouble
<1>5. Local(object[g], helper[g], pipe[g], used'["late"])
  BY <1>4, Known, LocalLater DEF What, Trouble
<1>6. Local(o, helper[g], pipe[g], used'["late"])
  BY <1>1, <1>5, Known, CallerIsFine
<1>7. MayBecome(g, o)
  BY <1>1, Known DEF MayBecome, Shut, Object
<1> HIDE DEF o, p
<1>8. Local(o, helper[g], p, used'["late"])
  BY <1>2, <1>6, LocalOtherPipe
<1> QED BY <1>1, <1>3, <1>4, <1>7, <1>8, Known, PipeSteps

LEMMA WaitEndsKeeps == ASSUME IInv, NEW g \in Gen, WaitEnds(g) PROVE IInv'
<1> DEFINE o == [object[g] EXCEPT !.caller = "free", !.process = FALSE]
<1>1. /\ object[g].caller = "waiting" /\ object[g].closing
      /\ Becomes(g, o) /\ UNCHANGED <<up, helper, pipe, adapter, library>>
  BY Known DEF WaitEnds, Local, ObjectInv
<1>2. used' \in [What -> Nat] /\ used'["late"] >= used["late"]
      /\ (helper[g].main # "done" => used'["late"] > 0)
  BY Known, SpendIsFine DEF WaitEnds, Free, What, Trouble
<1>3. Local(object[g], helper[g], pipe[g], used'["late"])
  BY <1>2, Known, LocalLater DEF What, Trouble
<1>4. o \in Object
  BY Known DEF Object
<1>5. Local(o, helper[g], pipe[g], used'["late"])
  BY <1>1, <1>2, <1>3, <1>4, Known DEF Object, Local, ObjectInv, StartInv, EchoInv, ReleasedInv
<1>6. MayBecome(g, o)
  BY <1>1, Known DEF MayBecome, Shut, Object, Local, ObjectInv
<1> HIDE DEF o
<1> QED BY <1>1, <1>2, <1>5, <1>6, Known, ObjectSteps

LEMMA CrashKeeps == ASSUME IInv, Crash PROVE IInv'
<1> DEFINE w(o) == IF o.worker \in {"none", "asking"} THEN o.worker ELSE "done"
           new(o) == [o EXCEPT !.listening = FALSE, !.worker = w(o)]
<1>1. used' \in [What -> Nat] /\ used'["late"] >= used["late"]
  BY SpendIsFine DEF IInv, GlobalInv, Crash, What, Trouble
<1>2. ASSUME NEW g \in Gen
      PROVE  Local(new(object[g]), helper[g], AppEndClosed(pipe[g]), used'["late"])
  <2>1. Local(object[g], helper[g], pipe[g], used'["late"])
    BY <1>1, Known, LocalLater DEF What, Trouble
  <2>2. w(object[g]) \in {"none", "asking", "done"}
    OBVIOUS
  <2> HIDE DEF w
  <2>3. new(object[g]) \in Object
    BY <2>2, Known DEF Object
  <2>4. Local(new(object[g]), helper[g], pipe[g], used'["late"])
    BY <2>1, <2>3, Known DEF w, Object, Local, ObjectInv, StartInv, EchoInv, ReleasedInv
  <2>5. AppEndClosed(pipe[g]) \in Pipe /\ RoomInv(AppEndClosed(pipe[g]))
        /\ AppEndClosed(pipe[g]).toApp = <<>>
    BY Known, AppEndIsFine DEF Local
  <2> HIDE DEF new
  <2> QED BY <2>4, <2>5, LocalOtherPipe
<1>3. ASSUME NEW g \in Gen
      PROVE  new(object[g]).state = object[g].state /\ (Shut(object[g]) => Shut(new(object[g])))
  BY Known DEF Object, Shut
<1>4. /\ object' = [g \in Gen |-> new(object[g])]
      /\ pipe' = [g \in Gen |-> AppEndClosed(pipe[g])]
      /\ up' \in BOOLEAN /\ UNCHANGED <<helper, adapter, library>>
  <2>1. \A g \in Gen : [object[g] EXCEPT !.listening = FALSE, !.worker =
                           IF @ \in {"none", "asking"} THEN @ ELSE "done"] = new(object[g])
    BY Known DEF Object
  <2> QED BY <2>1 DEF Crash, AppEndClosed
<1> HIDE DEF new
<1>5. OrderInv(object')
  BY <1>3, <1>4 DEF IInv, OrderInv
<1>6. \A g \in Gen : Local(object'[g], helper'[g], pipe'[g], used'["late"])
  BY <1>2, <1>4
<1>7. GlobalInv'
  BY <1>1, <1>4, <1>6 DEF IInv, GlobalInv, Local
<1> QED BY <1>5, <1>6, <1>7 DEF IInv

-----------------------------------------------------------------------------
\* The worker thread.

\* Its end, with a failure.
LEMMA WorkerFailsKeeps ==
  ASSUME IInv, NEW g \in Gen, Becomes(g, Fail([object[g] EXCEPT !.worker = "done"])),
         UNCHANGED <<up, helper, pipe, adapter, used>>, library' \in [Place -> File],
         object[g].worker # "none",
         helper[g].main = "none" \/ object[g].worker = "accepting"
  PROVE  IInv'
<1> DEFINE o == [object[g] EXCEPT !.worker = "done"]
<1>1. o \in Object /\ o.state # "idle" /\ object[g].state # "idle"
  BY Known DEF Object, Local, ObjectInv
<1>2. Local(o, helper[g], pipe[g], used["late"])
  BY <1>1, Known DEF Object, Local, ObjectInv, StartInv, EchoInv, ReleasedInv, Before
<1>3. Shut(object[g]) => Shut(o)
  BY Known DEF Shut, Object
<1>4. Becomes(g, Fail(o))
  OBVIOUS
<1> HIDE DEF o
<1>5. /\ Local(Fail(o), helper[g], pipe[g], used["late"])
      /\ Shut(o) => Shut(Fail(o))
  BY <1>1, <1>2, FailIsFine
<1>6. MayBecome(g, Fail(o))
  BY <1>1, <1>3, <1>5 DEF MayBecome
<1> QED BY <1>4, <1>5, <1>6, Known, ObjectSteps

LEMMA PrepareKeeps == ASSUME IInv, NEW g \in Gen, Prepare(g) PROVE IInv'
<1> PICK got \in EnsureWintun(library) :
      /\ library' = got.copies
      /\ Becomes(g, IF got.ok
                    THEN [object[g] EXCEPT !.worker = "asking", !.library = got.place]
                    ELSE Fail([object[g] EXCEPT !.worker = "done"]))
  BY DEF Prepare
<1>1. got.copies \in [Place -> File] /\ got.place \in Place
  BY Known DEF EnsureWintun, Place, File
<1>2. /\ object[g].worker = "preparing" /\ object[g].state # "idle" /\ helper[g].main = "none"
      /\ UNCHANGED <<up, helper, pipe, adapter, used>>
  BY Known DEF Prepare, Local, ObjectInv, StartInv
<1>3. CASE got.ok
  <2> DEFINE o == [object[g] EXCEPT !.worker = "asking", !.library = got.place]
  <2>1. Becomes(g, o)
    BY <1>3
  <2>2. o \in Object
    <3>1. [object[g] EXCEPT !.worker = "asking"] \in Object
      BY Known DEF Object
    <3>2. \A q \in Object : [q EXCEPT !.library = got.place] \in Object
      BY <1>1 DEF Object
    <3>3. o = [[object[g] EXCEPT !.worker = "asking"] EXCEPT !.library = got.place]
      BY Known DEF Object
    <3> QED BY <3>1, <3>2, <3>3
  <2>3. Local(o, helper[g], pipe[g], used["late"])
    BY <1>2, <2>2, Known DEF Object, Local, ObjectInv, StartInv, EchoInv, ReleasedInv, Before
  <2>4. MayBecome(g, o)
    BY <1>2, Known DEF MayBecome, Shut, Object
  <2> HIDE DEF o
  <2> QED BY <1>1, <1>2, <2>1, <2>3, <2>4, Known, ObjectSteps
<1>4. CASE ~got.ok
  BY <1>1, <1>2, <1>4, WorkerFailsKeeps
<1> QED BY <1>3, <1>4

LEMMA ConsentKeeps == ASSUME IInv, NEW g \in Gen, Consent(g) PROVE IInv'
<1> DEFINE w == IF up THEN "launched" ELSE "done"
           o == [object[g] EXCEPT !.worker = w]
           h == [helper[g] EXCEPT !.main = "connecting"]
<1>1. /\ object[g].worker = "asking" /\ object[g].state # "idle" /\ helper[g].main = "none"
      /\ UNCHANGED <<up, pipe, adapter, library, used>>
  BY Known DEF Consent, Local, ObjectInv, StartInv
<1>2. w \in {"launched", "done"}
  OBVIOUS
<1>3. Becomes(g, o) /\ helper' = [helper EXCEPT ![g] = h]
  BY DEF Consent
<1> HIDE DEF w
<1>4. o \in Object /\ h \in Process
  <2>1. o \in Object
    BY <1>2, Known DEF Object
  <2>2. h \in Process
    BY Known DEF Process
  <2> QED BY <2>1, <2>2
<1>5. Local(o, h, pipe[g], used["late"])
  BY <1>1, <1>2, <1>4, Known
     DEF Object, Process, Local, ObjectInv, StartInv, ProcessInv, EchoInv, ReleasedInv, Before
<1>6. MayBecome(g, o)
  BY <1>1, Known DEF MayBecome, Shut, Object
<1>7. object' = [object EXCEPT ![g] = o] /\ pipe' = [pipe EXCEPT ![g] = pipe[g]]
  BY <1>1, <1>3, Same DEF Becomes
<1> HIDE DEF o, h
<1>8. up' \in BOOLEAN /\ adapter' \in Gen \cup {None} /\ library' \in [Place -> File]
      /\ used' \in [What -> Nat] /\ used'["late"] >= used["late"]
      /\ Local(o, h, pipe[g], used'["late"])
  BY <1>1, <1>5, Known
<1> QED BY <1>3, <1>6, <1>7, <1>8, OneHelperSteps

LEMMA DeclineKeeps == ASSUME IInv, NEW g \in Gen, Decline(g) PROVE IInv'
BY Known, WorkerFailsKeeps DEF Decline, Local, StartInv

LEMMA LaunchedKeeps == ASSUME IInv, NEW g \in Gen, Launched(g) PROVE IInv'
<1>1. /\ object[g].worker = "launched" /\ object[g].state # "idle"
      /\ helper[g].main \in Before \cup {"done"}
      /\ UNCHANGED <<up, helper, pipe, adapter, library, used>>
  BY Known DEF Launched, Local, ObjectInv, StartInv
<1>2. CASE object[g].closing
  <2> DEFINE o == [object[g] EXCEPT !.worker = "done"]
  <2>1. Becomes(g, o)
    BY <1>2 DEF Launched
  <2>2. o \in Object
    BY Known DEF Object
  <2>3. Local(o, helper[g], pipe[g], used["late"])
    BY <1>1, <2>2, Known DEF Object, Local, ObjectInv, StartInv, EchoInv, ReleasedInv
  <2>4. MayBecome(g, o)
    BY <1>1, Known DEF MayBecome, Shut, Object
  <2> HIDE DEF o
  <2> QED BY <1>1, <2>1, <2>3, <2>4, Known, ObjectSteps
<1>3. CASE ~object[g].closing
  <2> DEFINE o == [object[g] EXCEPT !.worker = "accepting", !.process = TRUE]
  <2>1. Becomes(g, o)
    BY <1>3 DEF Launched
  <2>2. o \in Object
    BY Known DEF Object
  <2>3. Local(o, helper[g], pipe[g], used["late"])
    BY <1>1, <1>3, <2>2, Known DEF Object, Local, ObjectInv, StartInv, EchoInv, ReleasedInv
  <2>4. MayBecome(g, o)
    BY <1>1, <1>3, Known DEF MayBecome, Shut, Object
  <2> HIDE DEF o
  <2> QED BY <1>1, <2>1, <2>3, <2>4, Known, ObjectSteps
<1> QED BY <1>2, <1>3

LEMMA AcceptKeeps == ASSUME IInv, NEW g \in Gen, Accept(g) PROVE IInv'
<1> DEFINE o == [object[g] EXCEPT !.worker = "accepted"]
           h == [helper[g] EXCEPT !.main = "loading", !.writer = "on"]
           p == [pipe[g] EXCEPT !.app = TRUE, !.helper = TRUE]
<1>1. /\ object[g].worker = "accepting" /\ object[g].state # "idle"
      /\ helper[g].main = "connecting"
      /\ UNCHANGED <<up, adapter, library, used>>
  BY Known DEF Accept, Local, ObjectInv
<1>2. o \in Object /\ h \in Process /\ p \in Pipe
  <2>1. o \in Object
    BY Known DEF Object
  <2>2. h \in Process
    BY Known DEF Process
  <2>3. p \in Pipe
    BY Known DEF Pipe
  <2> QED BY <2>1, <2>2, <2>3
<1>3. RoomInv(p) /\ p.toApp = pipe[g].toApp
  BY Known DEF Local, RoomInv, Pipe
<1>4. Local(o, h, pipe[g], used["late"])
  BY <1>1, <1>2, Known
     DEF Object, Process, Local, ObjectInv, StartInv, ProcessInv, EchoInv, ReleasedInv, Before
<1>5. MayBecome(g, o)
  BY <1>1, Known DEF MayBecome, Shut, Object
<1>6. /\ object' = [object EXCEPT ![g] = o] /\ helper' = [helper EXCEPT ![g] = h]
      /\ pipe' = [pipe EXCEPT ![g] = p]
  BY DEF Accept, Becomes, IInv, GlobalInv
<1> HIDE DEF o, h, p
<1>7. Local(o, h, p, used["late"])
  BY <1>2, <1>3, <1>4, LocalOtherPipe
<1>8. up' \in BOOLEAN /\ adapter' \in Gen \cup {None} /\ library' \in [Place -> File]
      /\ used' \in [What -> Nat] /\ used'["late"] >= used["late"]
      /\ Local(o, h, p, used'["late"])
  BY <1>1, <1>7, Known
<1> QED BY <1>5, <1>6, <1>8, OneHelperSteps

LEMMA WokenKeeps == ASSUME IInv, NEW g \in Gen, Woken(g) PROVE IInv'
BY Known, WorkerFailsKeeps DEF Woken

LEMMA HandshakeFailsKeeps == ASSUME IInv, NEW g \in Gen, HandshakeFails(g) PROVE IInv'
BY Known, WorkerFailsKeeps DEF HandshakeFails

LEMMA PublishKeeps == ASSUME IInv, NEW g \in Gen, Publish(g) PROVE IInv'
<1>1. /\ object[g].worker = "accepted" /\ object[g].state # "idle"
      /\ object[g].closing \/ object[g].process
      /\ UNCHANGED <<up, helper, adapter, library, used>>
  BY Known DEF Publish, Local, ObjectInv, StartInv
<1>2. CASE object[g].closing
  <2> DEFINE o == [object[g] EXCEPT !.worker = "done"]
             p == AppEndClosed(pipe[g])
  <2>1. Becomes(g, o) /\ pipe' = [pipe EXCEPT ![g] = p]
    BY <1>2, AppEndChange DEF Publish
  <2>2. o \in Object /\ p \in Pipe /\ RoomInv(p) /\ p.toApp = <<>>
    BY Known, AppEndIsFine DEF Object, Local
  <2>3. Local(o, helper[g], pipe[g], used["late"])
    BY <1>1, <1>2, <2>2, Known DEF Object, Local, ObjectInv, StartInv, EchoInv, ReleasedInv
  <2>4. MayBecome(g, o)
    BY <1>1, Known DEF MayBecome, Shut, Object
  <2> HIDE DEF o, p
  <2>5. used' \in [What -> Nat] /\ used'["late"] >= used["late"]
        /\ Local(o, helper[g], p, used'["late"])
    BY <1>1, <2>2, <2>3, Known, LocalOtherPipe
  <2> QED BY <1>1, <2>1, <2>4, <2>5, PipeSteps
<1>3. CASE ~object[g].closing
  <2> DEFINE o == [object[g] EXCEPT !.worker = "done", !.connection = TRUE]
  <2>1. Becomes(g, o) /\ UNCHANGED pipe
    BY <1>3 DEF Publish
  <2>2. o \in Object
    BY Known DEF Object
  <2>3. Local(o, helper[g], pipe[g], used["late"])
    BY <1>1, <1>3, <2>2, Known DEF Object, Local, ObjectInv, StartInv, EchoInv, ReleasedInv
  <2>4. MayBecome(g, o)
    BY <1>1, <1>3, Known DEF MayBecome, Shut, Object
  <2> HIDE DEF o
  <2> QED BY <1>1, <2>1, <2>3, <2>4, Known, ObjectSteps
<1> QED BY <1>2, <1>3

-----------------------------------------------------------------------------
\* The helper process.

\* Once it has come to the pipe somebody waits for it, or a wait has timed
\* out, and its object allows whatever it does next.
LEMMA AwakeSteps ==
  ASSUME IInv, NEW g \in Gen, NEW h \in Process, Runs(g, h),
         UNCHANGED <<up, object, pipe, library>>, adapter' \in Gen \cup {None},
         used' \in [What -> Nat], used'["late"] >= used["late"],
         helper[g].main \notin Before \cup {"done"},
         ProcessInv(h), EchoInv(object[g], h, pipe[g])
  PROVE  IInv'
<1>1. Local(object[g], helper[g], pipe[g], used'["late"])
  BY Known, LocalLater DEF What, Trouble
<1>2. Local(object[g], h, pipe[g], used'["late"])
  BY <1>1 DEF Local, StartInv, ReleasedInv, Before
<1> QED BY <1>2, ProcessSteps

\* What may be queued for the program.
LEMMA QueueIsFine ==
  ASSUME NEW h \in Process, Matches(h.queue, h.address), NEW m \in Message,
         m.tag = "address" => m.address = h.address
  PROVE  Append(h.queue, m) \in Seq(Message) /\ Matches(Append(h.queue, m), h.address)
BY AppendMatches DEF Process

LEMMA TagsOfOthers ==
  /\ Packet \in Message /\ Stop \in Message /\ Ready \in Message /\ Error \in Message
  /\ Packet.tag # "address" /\ Stop.tag # "address"
  /\ Ready.tag # "address" /\ Error.tag # "address"
BY DEF Message, Packet, Stop, Ready, Error

LEMMA NoPipeKeeps == ASSUME IInv, NEW g \in Gen, NoPipe(g) PROVE IInv'
<1> DEFINE h == [helper[g] EXCEPT !.main = "done"]
<1>1. helper[g].main = "connecting" /\ Runs(g, h)
      /\ UNCHANGED <<up, object, pipe, adapter, library, used>>
  BY DEF NoPipe
<1>2. h \in Process
  BY Known DEF Process
<1>3. Local(object[g], h, pipe[g], used["late"])
  BY <1>1, <1>2, Known
     DEF Process, Local, StartInv, ProcessInv, EchoInv, ReleasedInv, Before
<1> HIDE DEF h
<1>4. Local(object[g], h, pipe[g], used'["late"])
  BY <1>1, <1>3
<1> QED BY <1>1, <1>4, Known, ProcessSteps

LEMMA LoadKeeps == ASSUME IInv, NEW g \in Gen, Load(g) PROVE IInv'
<1> DEFINE hd == IF adapter = None THEN "created" ELSE "opened"
           h == [helper[g] EXCEPT !.main = "starting", !.handle = hd]
<1>1. helper[g].main = "loading" /\ Runs(g, h) /\ adapter' \in Gen \cup {None}
      /\ UNCHANGED <<up, object, pipe, library, used>>
  BY Known DEF Load
<1>2. hd \in {"created", "opened"}
  OBVIOUS
<1> HIDE DEF hd
<1>3. h \in Process
  BY <1>2, Known DEF Process
<1>4. ProcessInv(h) /\ EchoInv(object[g], h, pipe[g])
  BY <1>1, Known DEF Process, Local, ProcessInv, EchoInv, Before
<1> HIDE DEF h
<1> QED BY <1>1, <1>3, <1>4, Known, AwakeSteps DEF Before

\* A step from main to main2, the adapter's session untouched, with something
\* in the queue that confirms no address.
LEMMA ReportIsFine ==
  ASSUME NEW o, NEW h \in Process, NEW p, NEW n, Local(o, h, p, n), h.main # "done",
         NEW m \in Message, m.tag # "address",
         NEW h2 \in Process, h2.queue = Append(h.queue, m), h2.address = h.address
  PROVE  EchoInv(o, h2, p)
<1>1. Matches(h.queue, h.address)
  BY DEF Local, EchoInv
<1>2. Matches(h2.queue, h2.address)
  BY <1>1, QueueIsFine
<1> QED BY <1>2 DEF Local, EchoInv

LEMMA ReportedIsFine ==
  ASSUME NEW h \in Process
  PROVE  /\ Reported(h) \in Process
         /\ Reported(h).queue = Append(h.queue, Error)
         /\ Reported(h).address = h.address /\ Reported(h).main = h.main
         /\ Reported(h).reader = h.reader /\ Reported(h).session = h.session
         /\ Reported(h).handle = h.handle
<1>1. h.queue \in Seq(Message)
  BY DEF Process
<1>2. Append(h.queue, Error) \in Seq(Message)
  BY <1>1, TagsOfOthers, AppendProperties
<1> QED BY <1>2 DEF Reported, Process

\* serve() fails before run(): there is no session and no reader yet.
LEMMA FailsToStart ==
  ASSUME IInv, NEW g \in Gen, helper[g].main \in {"loading", "starting"},
         Runs(g, Reported([helper[g] EXCEPT !.main = "removing"])),
         UNCHANGED <<up, object, pipe, adapter, library>>,
         used' \in [What -> Nat], used'["late"] >= used["late"]
  PROVE  IInv'
<1> DEFINE h == [helper[g] EXCEPT !.main = "removing"]
<1>1. h \in Process
  BY Known DEF Process
<1>2. /\ h.queue = helper[g].queue /\ h.address = helper[g].address
      /\ h.main = "removing" /\ h.reader # "on" /\ ~h.session
  BY Known DEF Process, Local, ProcessInv
<1>3. Runs(g, Reported(h))
  OBVIOUS
<1> HIDE DEF h
<1>4. ProcessInv(Reported(h))
  BY <1>1, <1>2, ReportedIsFine DEF ProcessInv, Before
<1>5. /\ Reported(h) \in Process
      /\ Reported(h).queue = Append(helper[g].queue, Error)
      /\ Reported(h).address = helper[g].address
  BY <1>1, <1>2, ReportedIsFine
<1>6. EchoInv(object[g], Reported(h), pipe[g])
  BY <1>5, ReportIsFine, TagsOfOthers, Known
<1> QED BY <1>3, <1>4, <1>5, <1>6, Known, AwakeSteps DEF Before

LEMMA LoadFailsKeeps == ASSUME IInv, NEW g \in Gen, LoadFails(g) PROVE IInv'
<1>1. used' \in [What -> Nat] /\ used'["late"] >= used["late"]
  BY Known, SpendIsFine DEF LoadFails, Free, What, Trouble
<1> QED BY <1>1, FailsToStart DEF LoadFails

LEMMA StartFailsKeeps == ASSUME IInv, NEW g \in Gen, StartFails(g) PROVE IInv'
<1>1. used' \in [What -> Nat] /\ used'["late"] >= used["late"]
  BY Known, SpendIsFine DEF StartFails, What, Trouble
<1> QED BY <1>1, FailsToStart DEF StartFails

LEMMA StartSessionKeeps == ASSUME IInv, NEW g \in Gen, StartSession(g) PROVE IInv'
<1> DEFINE q == Append(helper[g].queue, Ready)
           h == [helper[g] EXCEPT !.main = "running", !.session = TRUE, !.reader = "on",
                                  !.queue = q]
<1>1. helper[g].main = "starting" /\ Runs(g, h)
      /\ UNCHANGED <<up, object, pipe, adapter, library, used>>
  BY DEF StartSession
<1>2. helper[g].queue \in Seq(Message) /\ Matches(helper[g].queue, helper[g].address)
  BY <1>1, Known DEF Process, Local, EchoInv
<1>3. q \in Seq(Message) /\ Matches(q, helper[g].address)
  BY <1>2, TagsOfOthers, QueueIsFine, Known
<1> HIDE DEF q
<1>4. h \in Process
  BY <1>3, Known DEF Process
<1>5. ProcessInv(h) /\ EchoInv(object[g], h, pipe[g])
  BY <1>1, <1>3, Known DEF Process, Local, ProcessInv, EchoInv, Before
<1> HIDE DEF h
<1> QED BY <1>1, <1>4, <1>5, Known, AwakeSteps DEF Before

\* run() goes on its way out.
LEMMA EndingIsFine ==
  ASSUME NEW o, NEW h \in Process, NEW p, NEW n, Local(o, h, p, n), h.main = "running",
         NEW failed \in BOOLEAN
  PROVE  /\ Ending(h, failed) \in Process
         /\ ProcessInv(Ending(h, failed)) /\ EchoInv(o, Ending(h, failed), p)
<1>1. Ending(h, failed) \in Process
  BY DEF Ending, Process
<1> QED BY <1>1 DEF Ending, Process, Local, ProcessInv, EchoInv, Before

\* The one address it will ever have: what was on its way had none.
LEMMA AssignedIsFine ==
  ASSUME NEW o, NEW h \in Process, NEW p \in Pipe, NEW n, Local(o, h, p, n),
         h.main = "running", NEW a \in Address
  PROVE  /\ Assigned(h, a) \in Process
         /\ ProcessInv(Assigned(h, a)) /\ EchoInv(o, Assigned(h, a), p)
<1>1. CASE h.address \in {None, a}
  <2> DEFINE q == Append(h.queue, SetTo(a))
             k == [h EXCEPT !.address = a, !.queue = q]
  <2>1. h.queue \in Seq(Message) /\ p.toApp \in Seq(Message)
        /\ Matches(h.queue, h.address) /\ Matches(p.toApp, h.address)
    BY DEF Process, Pipe, Local, EchoInv
  <2>2. Matches(h.queue, a) /\ Matches(p.toApp, a)
    BY <1>1, <2>1, NoneMatches
  <2>3. SetTo(a) \in Message /\ SetTo(a).address = a
    BY DEF Message, SetTo
  <2>4. q \in Seq(Message) /\ Matches(q, a)
    BY <2>1, <2>2, <2>3, AppendMatches
  <2> HIDE DEF q
  <2>5. k \in Process
    BY <2>4 DEF Process
  <2>6. ProcessInv(k) /\ EchoInv(o, k, p)
    BY <1>1, <2>2, <2>4, <2>5, AddressAssumption
       DEF Process, Local, ProcessInv, EchoInv, Before
  <2>7. Assigned(h, a) = k
    BY <1>1 DEF Assigned, q
  <2> QED BY <2>5, <2>6, <2>7
<1>2. CASE ~(h.address \in {None, a})
  <2>1. Assigned(h, a) = Ending(h, TRUE)
    BY <1>2 DEF Assigned
  <2> QED BY <2>1, EndingIsFine
<1> QED BY <1>1, <1>2

LEMMA ReceiveKeeps == ASSUME IInv, NEW g \in Gen, Receive(g) PROVE IInv'
<1> DEFINE m == Head(pipe[g].toHelper)
           p == [pipe[g] EXCEPT !.toHelper = Tail(@)]
<1>1. /\ helper[g].main = "running"
      /\ pipe[g].toHelper \in Seq(Message) /\ pipe[g].toHelper # <<>>
      /\ pipe[g].toApp \in Seq(Message)
      /\ pipe' = [pipe EXCEPT ![g] = p]
      /\ UNCHANGED <<up, object, adapter, library>>
  BY Known DEF Receive, Pipe
<1>2. /\ Tail(pipe[g].toHelper) \in Seq(Message) /\ m \in Message
      /\ Len(Tail(pipe[g].toHelper)) = Len(pipe[g].toHelper) - 1
      /\ Len(pipe[g].toHelper) \in Nat /\ RoomInv(pipe[g])
  BY <1>1, Known, HeadTailProperties, LenProperties DEF Local
<1>3. p \in Pipe /\ p.toApp = pipe[g].toApp /\ p.toHelper = Tail(pipe[g].toHelper)
  BY <1>2, Known DEF Pipe
<1>4. RoomInv(p)
  BY <1>2, <1>3, RoomAssumption DEF RoomInv
<1>5. used' \in [What -> Nat] /\ used'["late"] >= used["late"]
  <2>1. used' = used \/ Spend("fault")
    BY DEF Receive, Free
  <2> QED BY <2>1, Known, SpendIsFine DEF What, Trouble
<1>6. \E h \in Process : /\ Runs(g, h) /\ ProcessInv(h)
                         /\ EchoInv(object[g], h, pipe[g])
  <2>1. CASE Runs(g, Answer(helper[g], m))
    <3>1. CASE m.tag = "stop"
      <4>1. Answer(helper[g], m) = Ending(helper[g], FALSE)
        BY <3>1 DEF Answer
      <4> QED BY <1>1, <2>1, <4>1, EndingIsFine, Known
    <3>2. CASE m.tag = "address"
      <4>1. m.address \in Address
        BY <1>2, <3>2 DEF Message, Packet, Stop, Ready, Error, SetTo
      <4>2. Answer(helper[g], m) = Assigned(helper[g], m.address)
        BY <3>2 DEF Answer
      <4> QED BY <1>1, <2>1, <4>1, <4>2, AssignedIsFine, Known
    <3>3. CASE m.tag \notin {"stop", "address"}
      <4>1. Answer(helper[g], m) = helper[g]
        BY <3>3 DEF Answer
      <4> QED BY <1>1, <2>1, <4>1, Known DEF Local
    <3> QED BY <3>1, <3>2, <3>3
  <2>2. CASE Runs(g, Ending(helper[g], TRUE))
    BY <1>1, <2>2, EndingIsFine, Known
  <2> QED BY <2>1, <2>2 DEF Receive
<1> PICK h \in Process : Runs(g, h) /\ ProcessInv(h) /\ EchoInv(object[g], h, pipe[g])
  BY <1>6
<1>7. /\ object' = [object EXCEPT ![g] = object[g]]
      /\ helper' = [helper EXCEPT ![g] = h]
      /\ up' \in BOOLEAN /\ adapter' \in Gen \cup {None} /\ library' \in [Place -> File]
  BY <1>1, Same, Known DEF Runs
<1> HIDE DEF p
<1>8. Local(object[g], helper[g], pipe[g], used'["late"])
  BY <1>5, Known, LocalLater DEF What, Trouble
<1>9. Local(object[g], h, p, used'["late"])
  BY <1>1, <1>3, <1>4, <1>8 DEF Local, StartInv, EchoInv, ReleasedInv, Before
<1> QED BY <1>1, <1>5, <1>7, <1>9, SameMayBecome, OneHelperSteps

LEMMA ReceiveEndKeeps == ASSUME IInv, NEW g \in Gen, ReceiveEnd(g) PROVE IInv'
<1> DEFINE h == Ending(helper[g], FALSE)
<1>1. /\ helper[g].main = "running" /\ Runs(g, h)
      /\ UNCHANGED <<up, object, pipe, adapter, library, used>>
  BY DEF ReceiveEnd
<1>2. h \in Process /\ ProcessInv(h) /\ EchoInv(object[g], h, pipe[g])
  BY <1>1, Known, EndingIsFine
<1> HIDE DEF h
<1> QED BY <1>1, <1>2, Known, AwakeSteps DEF Before

LEMMA ReaderReadsKeeps == ASSUME IInv, NEW g \in Gen, ReaderReads(g) PROVE IInv'
<1> DEFINE q == Append(helper[g].queue, Packet)
           h == [helper[g] EXCEPT !.queue = q]
<1>1. /\ helper[g].reader = "on" /\ helper[g].main \in {"running", "joining"} /\ Runs(g, h)
      /\ UNCHANGED <<up, object, pipe, adapter, library>>
  BY Known DEF ReaderReads, Local, ProcessInv
<1>2. used' \in [What -> Nat] /\ used'["late"] >= used["late"]
  BY Known, SpendIsFine DEF ReaderReads, What
<1>3. q \in Seq(Message)
  BY TagsOfOthers, Known, AppendProperties DEF Process
<1> HIDE DEF q
<1>4. h \in Process /\ h.queue = q /\ h.address = helper[g].address
  BY <1>3, Known DEF Process
<1>5. ProcessInv(h)
  BY <1>4, Known DEF Process, Local, ProcessInv
<1> HIDE DEF h
<1>6. EchoInv(object[g], h, pipe[g])
  BY <1>1, <1>4, ReportIsFine, TagsOfOthers, Known DEF q
<1> QED BY <1>1, <1>2, <1>4, <1>5, <1>6, Known, AwakeSteps DEF Before

LEMMA ReaderFailsKeeps == ASSUME IInv, NEW g \in Gen, ReaderFails(g) PROVE IInv'
<1> DEFINE h == [helper[g] EXCEPT !.reader = "ended"]
<1>1. /\ helper[g].main \in {"running", "joining"} /\ Runs(g, Reported(h))
      /\ UNCHANGED <<up, object, pipe, adapter, library>>
  BY Known DEF ReaderFails, Local, ProcessInv
<1>2. used' \in [What -> Nat] /\ used'["late"] >= used["late"]
  BY Known, SpendIsFine DEF ReaderFails, What, Trouble
<1>3. h \in Process
  BY Known DEF Process
<1>4. /\ h.queue = helper[g].queue /\ h.address = helper[g].address
      /\ h.main = helper[g].main /\ h.reader = "ended" /\ h.session = helper[g].session
      /\ h.handle = helper[g].handle
  BY Known DEF Process
<1> HIDE DEF h
<1>5. /\ Reported(h) \in Process
      /\ Reported(h).queue = Append(helper[g].queue, Error)
      /\ Reported(h).address = helper[g].address
      /\ ProcessInv(Reported(h))
  BY <1>3, <1>4, ReportedIsFine, Known DEF Local, ProcessInv
<1>6. EchoInv(object[g], Reported(h), pipe[g])
  BY <1>1, <1>5, ReportIsFine, TagsOfOthers, Known
<1> QED BY <1>1, <1>2, <1>5, <1>6, Known, AwakeSteps DEF Before

LEMMA ReaderStopsKeeps == ASSUME IInv, NEW g \in Gen, ReaderStops(g) PROVE IInv'
<1> DEFINE h == [helper[g] EXCEPT !.reader = "ended"]
<1>1. /\ helper[g].main \in {"running", "joining"} /\ Runs(g, h)
      /\ UNCHANGED <<up, object, pipe, adapter, library, used>>
  BY Known DEF ReaderStops, Local, ProcessInv
<1>2. h \in Process
  BY Known DEF Process
<1>3. ProcessInv(h) /\ EchoInv(object[g], h, pipe[g])
  BY <1>2, Known DEF Process, Local, ProcessInv, EchoInv
<1> HIDE DEF h
<1> QED BY <1>1, <1>2, <1>3, Known, AwakeSteps DEF Before

LEMMA JoinedKeeps == ASSUME IInv, NEW g \in Gen, Joined(g) PROVE IInv'
<1> DEFINE h == [helper[g] EXCEPT !.main = "removing"]
<1>1. /\ helper[g].main = "joining" /\ helper[g].reader = "ended"
      /\ Runs(g, IF helper[g].failed THEN Reported(h) ELSE h)
      /\ UNCHANGED <<up, object, pipe, adapter, library, used>>
  BY DEF Joined
<1>2. h \in Process
  BY Known DEF Process
<1>3. /\ h.queue = helper[g].queue /\ h.address = helper[g].address
      /\ h.main = "removing" /\ h.reader = "ended"
  BY <1>1, Known DEF Process
<1> HIDE DEF h
<1>4. CASE helper[g].failed
  <2>1. /\ Reported(h) \in Process
        /\ Reported(h).queue = Append(helper[g].queue, Error)
        /\ Reported(h).address = helper[g].address
        /\ ProcessInv(Reported(h))
    BY <1>2, <1>3, ReportedIsFine DEF ProcessInv, Before
  <2>2. EchoInv(object[g], Reported(h), pipe[g])
    BY <1>1, <2>1, ReportIsFine, TagsOfOthers, Known
  <2>3. Runs(g, Reported(h))
    BY <1>1, <1>4
  <2> QED BY <1>1, <2>1, <2>2, <2>3, Known, AwakeSteps DEF Before
<1>5. CASE ~helper[g].failed
  <2>1. ProcessInv(h)
    BY <1>3 DEF ProcessInv, Before
  <2>2. EchoInv(object[g], h, pipe[g])
    BY <1>1, <1>3, Known DEF Local, EchoInv
  <2>3. Runs(g, h)
    BY <1>1, <1>5
  <2> QED BY <1>1, <1>2, <2>1, <2>2, <2>3, Known, AwakeSteps DEF Before
<1> QED BY <1>4, <1>5

LEMMA RemoveKeeps == ASSUME IInv, NEW g \in Gen, Remove(g) PROVE IInv'
<1> DEFINE h == [helper[g] EXCEPT !.main = "flushing", !.session = FALSE, !.handle = "none"]
<1>1. /\ helper[g].main = "removing" /\ Runs(g, h) /\ adapter' \in Gen \cup {None}
      /\ UNCHANGED <<up, object, pipe, library, used>>
  BY Known DEF Remove
<1>2. h \in Process
  BY Known DEF Process
<1>3. ProcessInv(h) /\ EchoInv(object[g], h, pipe[g])
  BY <1>1, <1>2, Known DEF Process, Local, ProcessInv, EchoInv, Before
<1> HIDE DEF h
<1> QED BY <1>1, <1>2, <1>3, Known, AwakeSteps DEF Before

LEMMA WriteKeeps == ASSUME IInv, NEW g \in Gen, Write(g) PROVE IInv'
<1> DEFINE q == helper[g].queue
<1>1. /\ q \in Seq(Message) /\ q # <<>> /\ pipe[g].toApp \in Seq(Message)
      /\ UNCHANGED <<up, object, adapter, library, used>>
  BY Known DEF Write, Process, Pipe
<1>2. Tail(q) \in Seq(Message) /\ Head(q) \in Message
  BY <1>1, HeadTailProperties
<1>3. CASE ~pipe[g].app
  <2> DEFINE h == [helper[g] EXCEPT !.writer = "ended", !.queue = <<>>]
  <2>1. Runs(g, h) /\ UNCHANGED pipe
    BY <1>3 DEF Write
  <2>2. h \in Process
    BY Known, EmptyMatches DEF Process
  <2>3. Local(object[g], h, pipe[g], used["late"])
    BY <2>2, Known, EmptyMatches
       DEF Process, Local, StartInv, ProcessInv, EchoInv, ReleasedInv
  <2> HIDE DEF h
  <2>4. Local(object[g], h, pipe[g], used'["late"])
    BY <1>1, <2>3
  <2> QED BY <1>1, <2>1, <2>4, Known, ProcessSteps
<1>4. CASE pipe[g].app
  <2> DEFINE t == Append(pipe[g].toApp, Head(q))
             h == [helper[g] EXCEPT !.queue = Tail(@)]
             p == [pipe[g] EXCEPT !.toApp = t]
  <2>1. /\ Len(pipe[g].toApp) < PipeRoom /\ Runs(g, h)
        /\ pipe' = [pipe EXCEPT ![g] = p]
    BY <1>4 DEF Write
  <2>2. t \in Seq(Message) /\ Len(t) = Len(pipe[g].toApp) + 1 /\ Len(pipe[g].toApp) \in Nat
    BY <1>1, <1>2, AppendProperties, LenProperties
  <2>3. helper[g].main # "done" =>
          Matches(t, helper[g].address) /\ Matches(Tail(q), helper[g].address)
    <3> SUFFICES ASSUME helper[g].main # "done"
                 PROVE  Matches(t, helper[g].address) /\ Matches(Tail(q), helper[g].address)
      OBVIOUS
    <3>1. Matches(q, helper[g].address) /\ Matches(pipe[g].toApp, helper[g].address)
      BY Known DEF Local, EchoInv
    <3> HIDE DEF q
    <3>2. Matches(Tail(q), helper[g].address)
          /\ (Head(q).tag = "address" => Head(q).address = helper[g].address)
      BY <1>1, <3>1, TailMatches
    <3> QED BY <1>1, <1>2, <3>1, <3>2, AppendMatches
  <2>4. h \in Process /\ h.queue = Tail(q)
    BY <1>2, Known DEF Process
  <2> HIDE DEF t
  <2>5. p \in Pipe /\ p.toApp = t /\ p.toHelper = pipe[g].toHelper
    BY <2>2, Known DEF Pipe
  <2>6. RoomInv(p)
    BY <2>1, <2>2, <2>5, Known, RoomAssumption DEF Local, RoomInv
  <2>7. Local(object[g], h, p, used["late"])
    BY <2>3, <2>4, <2>5, <2>6, Known
       DEF Process, Local, StartInv, ProcessInv, EchoInv, ReleasedInv
  <2>8. /\ object' = [object EXCEPT ![g] = object[g]]
        /\ helper' = [helper EXCEPT ![g] = h]
        /\ up' \in BOOLEAN /\ adapter' \in Gen \cup {None} /\ library' \in [Place -> File]
    BY <1>1, <2>1, Same, Known DEF Runs
  <2> HIDE DEF h, p
  <2>9. used' \in [What -> Nat] /\ used'["late"] >= used["late"]
        /\ Local(object[g], h, p, used'["late"])
    BY <1>1, <2>7, Known
  <2> QED BY <2>1, <2>8, <2>9, SameMayBecome, OneHelperSteps
<1> QED BY <1>3, <1>4

\* The process has exited and its end of the pipe is closed.
LEMMA ExitKeeps ==
  ASSUME IInv, NEW g \in Gen, helper[g].main # "none", Runs(g, Exited(helper[g])),
         pipe' = [pipe EXCEPT ![g].helper = FALSE, ![g].toHelper = <<>>],
         adapter' \in Gen \cup {None}, UNCHANGED <<up, object, library>>,
         used' \in [What -> Nat], used'["late"] >= used["late"]
  PROVE  IInv'
<1> DEFINE h == Exited(helper[g])
           p == [pipe[g] EXCEPT !.helper = FALSE, !.toHelper = <<>>]
<1>1. h \in Process /\ h.main = "done" /\ h.reader = "none" /\ ~h.session /\ h.handle = "none"
  BY Known, EmptyMatches DEF Exited, NewProcess, Process
<1>2. p \in Pipe /\ p.toApp = pipe[g].toApp /\ p.toHelper = <<>>
  BY Known, EmptyMatches DEF Pipe
<1>3. RoomInv(p)
  BY <1>2, Known, EmptyMatches, RoomAssumption DEF Local, RoomInv
<1>4. Local(object[g], helper[g], pipe[g], used'["late"])
  BY Known, LocalLater DEF What, Trouble
<1>5. /\ object' = [object EXCEPT ![g] = object[g]]
      /\ helper' = [helper EXCEPT ![g] = h]
      /\ pipe' = [pipe EXCEPT ![g] = p]
      /\ up' \in BOOLEAN /\ library' \in [Place -> File]
  BY Same, Known DEF Runs, IInv, GlobalInv
<1> HIDE DEF h, p
<1>6. Local(object[g], h, p, used'["late"])
  BY <1>1, <1>2, <1>3, <1>4
     DEF Local, StartInv, ProcessInv, EchoInv, ReleasedInv, Before
<1> QED BY <1>5, <1>6, SameMayBecome, OneHelperSteps

LEMMA FlushKeeps == ASSUME IInv, NEW g \in Gen, Flush(g) PROVE IInv'
<1>1. used' \in [What -> Nat] /\ used'["late"] >= used["late"]
  <2>1. used' = used \/ Spend("late")
    BY DEF Flush, Free
  <2> QED BY <2>1, Known, SpendIsFine DEF What, Trouble
<1>2. /\ helper[g].main = "flushing" /\ Runs(g, Exited(helper[g]))
      /\ pipe' = [pipe EXCEPT ![g].helper = FALSE, ![g].toHelper = <<>>]
      /\ UNCHANGED <<up, object, adapter, library>>
  BY DEF Flush
<1> QED BY <1>1, <1>2, Known, ExitKeeps

LEMMA KillKeeps == ASSUME IInv, NEW g \in Gen, Kill(g) PROVE IInv'
<1>1. used' \in [What -> Nat] /\ used'["late"] >= used["late"]
  BY Known, SpendIsFine DEF Kill, What, Trouble
<1>2. /\ helper[g].main # "none" /\ Runs(g, Exited(helper[g]))
      /\ pipe' = [pipe EXCEPT ![g].helper = FALSE, ![g].toHelper = <<>>]
      /\ adapter' \in Gen \cup {None} /\ UNCHANGED <<up, object, library>>
  BY Known DEF Kill
<1> QED BY <1>1, <1>2, ExitKeeps

LEMMA SpoilKeeps == ASSUME IInv, Spoil PROVE IInv'
<1>1. used' \in [What -> Nat] /\ used'["late"] >= used["late"]
  BY SpendIsFine DEF IInv, GlobalInv, Spoil, What, Trouble
<1>2. library' \in [Place -> File] /\ UNCHANGED <<up, object, helper, pipe, adapter>>
  BY DEF IInv, GlobalInv, Spoil, Place, File
<1>3. \A g \in Gen : Local(object'[g], helper'[g], pipe'[g], used'["late"])
  BY <1>1, <1>2, Known, LocalLater DEF What, Trouble
<1> QED BY <1>1, <1>2, <1>3 DEF IInv, GlobalInv, OrderInv

-----------------------------------------------------------------------------
LEMMA NextInv == IInv /\ [Next]_vars => IInv'
<1> SUFFICES ASSUME IInv, [Next]_vars PROVE IInv'
  OBVIOUS
<1>1. CASE UNCHANGED vars
  BY <1>1 DEF vars, IInv, GlobalInv, OrderInv
<1>2. CASE Crash \/ Spoil
  BY <1>2, CrashKeeps, SpoilKeeps
<1>3. ASSUME NEW g \in Gen, Start(g) \/ Close(g) \/ SendPacket(g) \/ \E a \in Address : SetAddress(g, a)
      PROVE  IInv'
  BY <1>3, StartKeeps, CloseKeeps, SendPacketKeeps, SetAddressKeeps
<1>4. ASSUME NEW g \in Gen, Caller(g) PROVE IInv'
  BY <1>4, PollKeeps, PollEndKeeps, CheckStartKeeps, SendGoesOnKeeps, AskToStopKeeps,
     StopReadsKeeps, StopEndsKeeps, WaitEndsKeeps DEF Caller
<1>5. ASSUME NEW g \in Gen, Worker(g) \/ HandshakeFails(g) PROVE IInv'
  BY <1>5, PrepareKeeps, ConsentKeeps, DeclineKeeps, LaunchedKeeps, AcceptKeeps,
     WokenKeeps, PublishKeeps, HandshakeFailsKeeps DEF Worker
<1>6. ASSUME NEW g \in Gen, MainThread(g) PROVE IInv'
  BY <1>6, NoPipeKeeps, LoadKeeps, LoadFailsKeeps, StartSessionKeeps, StartFailsKeeps,
     ReceiveKeeps, ReceiveEndKeeps, JoinedKeeps, RemoveKeeps, FlushKeeps DEF MainThread
<1>7. ASSUME NEW g \in Gen,
             ReaderReads(g) \/ ReaderFails(g) \/ ReaderStops(g) \/ Write(g) \/ Kill(g)
      PROVE  IInv'
  BY <1>7, ReaderReadsKeeps, ReaderFailsKeeps, ReaderStopsKeeps, WriteKeeps, KillKeeps
<1> QED BY <1>1, <1>2, <1>3, <1>4, <1>5, <1>6, <1>7 DEF Next

\* The records of the two sides keep their shape, a connection is only held
\* by an object that is not being closed and whose worker has ended, and
\* neither direction of the pipe ever holds more than it has room for.
THEOREM TypesStay == Spec => []TypeOK
<1>1. Spec => []IInv
  BY InitInv, NextInv, PTL DEF Spec
<1> QED BY <1>1, InvImplies, PTL

\* However the program, its helper and the user interleave, and whatever
\* fails or is killed, no thread of the helper reads from Wintun's session
\* after it has ended.
THEOREM ReaderStaysInSession == Spec => []ReaderInSession
<1>1. Spec => []IInv
  BY InitInv, NextInv, PTL DEF Spec
<1> QED BY <1>1, InvImplies, PTL

\* An address the program shows as confirmed is the one the adapter has,
\* for as long as the adapter's session lasts.
THEOREM ConfirmedIsTrue == Spec => []Confirmed
<1>1. Spec => []IInv
  BY InitInv, NextInv, PTL DEF Spec
<1> QED BY <1>1, InvImplies, PTL

\* Of any number of helpers at most one has a hold of the adapter, unless
\* close() or a start has stopped waiting for one of them.
THEOREM OneOwnerAtATime == Spec => []OneOwner
<1>1. Spec => []IInv
  BY InitInv, NextInv, PTL DEF Spec
<1> QED BY <1>1, InvImplies, PTL
=============================================================================

------------------------- MODULE ConnectionsProofs -------------------------
(***************************************************************************)
(* Theorems about Connections, for any two PCs, any number of connections, *)
(* any size of a batch, and however often connections fail, PCs come and   *)
(* go, and lose Steam.                                                     *)
(***************************************************************************)
EXTENDS Connections, TLAPS, NaturalsInduction, WellFoundedInduction

LEMMA Nodes ==
  ASSUME NEW p \in Node
  PROVE  /\ Other(p) \in Node /\ Other(p) # p /\ Other(Other(p)) = p
         /\ Initiates(Other(p)) <=> ~Initiates(p)
         /\ Node = {p, Other(p)}
<1>1. PICK a, b \in Node : a < b /\ Node = {a, b}
  BY NodeAssumption
<1>2. a \in Nat /\ b \in Nat /\ a # b
  BY <1>1, NodeAssumption
<1>3. \A x \in Node : Other(x) \in Node /\ Other(x) # x
  <2> SUFFICES ASSUME NEW x \in Node PROVE Other(x) \in Node /\ Other(x) # x
    OBVIOUS
  <2>1. \E y \in Node : y # x
    BY <1>1, <1>2
  <2> QED BY <2>1 DEF Other
<1>4. p = a \/ p = b
  BY <1>1
<1>5. Other(a) = b /\ Other(b) = a
  BY <1>1, <1>3
<1>6. Initiates(a) /\ ~Initiates(b)
  BY <1>1, <1>2, <1>5 DEF Initiates
<1> QED BY <1>1, <1>2, <1>4, <1>5, <1>6

-----------------------------------------------------------------------------
(***************************************************************************)
(* What a PC has received, drained, not read and has yet to receive from   *)
(* the other one: four sequences of message numbers, of which n were sent. *)
(***************************************************************************)
Rising(s) == \A i, j \in DOMAIN s : i < j => s[i] < s[j]
Below(s, t) == \A i \in DOMAIN s, j \in DOMAIN t : s[i] < t[j]
AtMost(s, n) == \A i \in DOMAIN s : s[i] <= n

Chain(a, b, c, d, n) ==
  /\ a \in Seq(Nat) /\ b \in Seq(Nat) /\ c \in Seq(Nat) /\ d \in Seq(Nat) /\ n \in Nat
  /\ Rising(a) /\ Rising(b) /\ Rising(c) /\ Rising(d)
  /\ Below(a, b) /\ Below(a, c) /\ Below(a, d)
  /\ Below(b, c) /\ Below(b, d) /\ Below(c, d)
  /\ AtMost(a, n) /\ AtMost(b, n) /\ AtMost(c, n) /\ AtMost(d, n)

LEMMA Joined2 ==
  ASSUME NEW s \in Seq(Nat), NEW t \in Seq(Nat)
  PROVE  /\ s \o t \in Seq(Nat)
         /\ Rising(s) /\ Rising(t) /\ Below(s, t) => Rising(s \o t)
         /\ \A u \in Seq(Nat) : Below(s, u) /\ Below(t, u) => Below(s \o t, u)
         /\ \A u \in Seq(Nat) : Below(u, s) /\ Below(u, t) => Below(u, s \o t)
         /\ \A n \in Nat : AtMost(s, n) /\ AtMost(t, n) => AtMost(s \o t, n)
<1>1. /\ s \o t \in Seq(Nat) /\ Len(s \o t) = Len(s) + Len(t)
      /\ Len(s) \in Nat /\ Len(t) \in Nat
      /\ DOMAIN s = 1..Len(s) /\ DOMAIN t = 1..Len(t) /\ DOMAIN (s \o t) = 1..Len(s) + Len(t)
  OBVIOUS
<1>2. \A i \in DOMAIN (s \o t) :
        \/ i \in DOMAIN s /\ (s \o t)[i] = s[i]
        \/ i - Len(s) \in DOMAIN t /\ (s \o t)[i] = t[i - Len(s)] /\ i > Len(s)
  BY <1>1
<1>3. /\ \A i \in DOMAIN s : s[i] \in Nat
      /\ \A i \in DOMAIN t : t[i] \in Nat
  OBVIOUS
<1>4. ASSUME Rising(s), Rising(t), Below(s, t) PROVE Rising(s \o t)
  <2> SUFFICES ASSUME NEW i \in DOMAIN (s \o t), NEW j \in DOMAIN (s \o t), i < j
               PROVE  (s \o t)[i] < (s \o t)[j]
    BY DEF Rising
  <2>1. i \in Int /\ j \in Int /\ Len(s) \in Int
    BY <1>1
  <2>2. CASE i \in DOMAIN s /\ j \in DOMAIN s
    <3>1. (s \o t)[i] = s[i] /\ (s \o t)[j] = s[j]
      BY <1>1, <1>2, <2>1, <2>2
    <3> QED BY <1>4, <2>2, <3>1 DEF Rising
  <2>3. CASE i \in DOMAIN s /\ j \notin DOMAIN s
    <3>1. (s \o t)[i] = s[i]
      BY <1>1, <1>2, <2>1, <2>3
    <3>2. j - Len(s) \in DOMAIN t /\ (s \o t)[j] = t[j - Len(s)]
      BY <1>2, <2>3
    <3> QED BY <1>4, <2>3, <3>1, <3>2 DEF Below
  <2>4. CASE i \notin DOMAIN s
    <3>1. i > Len(s) /\ j > Len(s) /\ j \notin DOMAIN s
      BY <1>1, <1>2, <2>1, <2>4
    <3>2. /\ i - Len(s) \in DOMAIN t /\ (s \o t)[i] = t[i - Len(s)]
          /\ j - Len(s) \in DOMAIN t /\ (s \o t)[j] = t[j - Len(s)]
      BY <1>2, <2>4, <3>1
    <3>3. i - Len(s) < j - Len(s)
      BY <2>1
    <3> QED BY <1>4, <3>2, <3>3 DEF Rising
  <2> QED BY <2>2, <2>3, <2>4
<1>5. ASSUME NEW u \in Seq(Nat), Below(s, u), Below(t, u) PROVE Below(s \o t, u)
  BY <1>2, <1>5 DEF Below
<1>6. ASSUME NEW u \in Seq(Nat), Below(u, s), Below(u, t) PROVE Below(u, s \o t)
  BY <1>2, <1>6 DEF Below
<1>7. ASSUME NEW n \in Nat, AtMost(s, n), AtMost(t, n) PROVE AtMost(s \o t, n)
  BY <1>2, <1>7 DEF AtMost
<1> QED BY <1>1, <1>4, <1>5, <1>6, <1>7

LEMMA EmptySeq ==
  /\ <<>> \in Seq(Nat) /\ Rising(<<>>)
  /\ \A s \in Seq(Nat) : Below(s, <<>>) /\ Below(<<>>, s) /\ s \o <<>> = s
  /\ \A n \in Nat : AtMost(<<>>, n)
<1>1. \A s \in Seq(Nat) : s \o <<>> = s
  OBVIOUS
<1>2. <<>> \in Seq(Nat) /\ DOMAIN <<>> = {}
  OBVIOUS
<1> QED BY <1>1, <1>2 DEF Rising, Below, AtMost

\* A batch, and what is left after it.
LEMMA Batches ==
  ASSUME NEW c \in Seq(Nat)
  PROVE  /\ FirstBatch(c) \in Seq(Nat) /\ AfterBatch(c) \in Seq(Nat)
         /\ Rising(c) => Rising(FirstBatch(c)) /\ Rising(AfterBatch(c))
                          /\ Below(FirstBatch(c), AfterBatch(c))
         /\ \A u \in Seq(Nat) : /\ Below(u, c) => Below(u, FirstBatch(c)) /\ Below(u, AfterBatch(c))
                                /\ Below(c, u) => Below(FirstBatch(c), u) /\ Below(AfterBatch(c), u)
         /\ \A n \in Nat : AtMost(c, n) => AtMost(FirstBatch(c), n) /\ AtMost(AfterBatch(c), n)
<1> DEFINE k == IF Len(c) < MaxBatch THEN Len(c) ELSE MaxBatch
<1> DEFINE f == FirstBatch(c)
<1> DEFINE r == AfterBatch(c)
<1>1. k \in Nat /\ k <= Len(c) /\ Len(c) \in Nat
  BY MaxBatchAssumption
<1>2. f = SubSeq(c, 1, k)
  BY DEF FirstBatch
<1>3. f \in Seq(Nat) /\ Len(f) = k /\ DOMAIN f = 1..k /\ \A i \in 1..k : f[i] = c[i] /\ i \in DOMAIN c
  <2> HIDE DEF k
  <2>1. f \in Seq(Nat) /\ Len(f) = k /\ \A i \in 1..k : f[i] = c[i]
    <3> HIDE DEF f
    <3> QED BY <1>1, <1>2
  <2> HIDE DEF f
  <2> QED BY <1>1, <2>1
<1>4. r = SubSeq(c, k + 1, Len(c))
  <2> HIDE DEF k
  <2>1. r = SubSeq(c, Len(f) + 1, Len(c))
    BY DEF AfterBatch
  <2> HIDE DEF f, r
  <2> QED BY <1>3, <2>1
<1>5. r \in Seq(Nat) /\ DOMAIN r = 1..(Len(c) - k)
      /\ \A i \in 1..(Len(c) - k) : r[i] = c[k + i] /\ k + i \in DOMAIN c
  <2> HIDE DEF k, r
  <2> QED BY <1>1, <1>4
<1>6. \A i \in DOMAIN c : c[i] \in Nat
  OBVIOUS
<1> HIDE DEF k, f, r
<1>7. ASSUME Rising(c) PROVE Rising(f) /\ Rising(r) /\ Below(f, r)
  <2>1. Rising(f)
    BY <1>1, <1>3, <1>7 DEF Rising
  <2>2. ASSUME NEW i \in DOMAIN r, NEW j \in DOMAIN r, i < j PROVE r[i] < r[j]
    <3>1. r[i] = c[k + i] /\ r[j] = c[k + j] /\ k + i \in DOMAIN c /\ k + j \in DOMAIN c
      BY <1>5
    <3>2. k + i < k + j
      BY <1>1, <1>5, <2>2
    <3> QED BY <1>7, <3>1, <3>2 DEF Rising
  <2>3. ASSUME NEW i \in DOMAIN f, NEW j \in DOMAIN r PROVE f[i] < r[j]
    <3>1. f[i] = c[i] /\ r[j] = c[k + j] /\ i \in DOMAIN c /\ k + j \in DOMAIN c
      BY <1>3, <1>5
    <3>2. i < k + j
      BY <1>1, <1>3, <1>5
    <3> QED BY <1>7, <3>1, <3>2 DEF Rising
  <2> QED BY <2>1, <2>2, <2>3 DEF Rising, Below
<1>8. \A u \in Seq(Nat) : /\ Below(u, c) => Below(u, f) /\ Below(u, r)
                          /\ Below(c, u) => Below(f, u) /\ Below(r, u)
  BY <1>1, <1>3, <1>5 DEF Below
<1>9. \A n \in Nat : AtMost(c, n) => AtMost(f, n) /\ AtMost(r, n)
  BY <1>1, <1>3, <1>5 DEF AtMost
<1> QED BY <1>3, <1>5, <1>7, <1>8, <1>9 DEF f, r

\* What happens to a chain: it is taken, moved to the drained messages, lost
\* with its connection, it moves on, and a message is added to it.
LEMMA Chains ==
  ASSUME NEW a, NEW b, NEW c, NEW d, NEW n, Chain(a, b, c, d, n)
  PROVE  /\ Chain(a, b, <<>>, <<>>, n)
         /\ Chain(a, b, c, <<>>, n)
         /\ Chain(a, <<>>, <<>>, <<>>, n)
         /\ Chain(a, b \o FirstBatch(c), <<>>, <<>>, n)
         /\ Chain(a \o b \o <<>>, <<>>, c, d, n)
         /\ Chain(a \o b \o FirstBatch(c), <<>>, AfterBatch(c), d, n)
         /\ Chain(a, b, c, d, n + 1)
<1>1. /\ a \in Seq(Nat) /\ b \in Seq(Nat) /\ c \in Seq(Nat) /\ d \in Seq(Nat) /\ n \in Nat
      /\ Rising(a) /\ Rising(b) /\ Rising(c) /\ Rising(d)
      /\ Below(a, b) /\ Below(a, c) /\ Below(a, d)
      /\ Below(b, c) /\ Below(b, d) /\ Below(c, d)
      /\ AtMost(a, n) /\ AtMost(b, n) /\ AtMost(c, n) /\ AtMost(d, n)
  BY DEF Chain
<1> DEFINE f == FirstBatch(c)
<1> DEFINE r == AfterBatch(c)
<1>2. /\ f \in Seq(Nat) /\ r \in Seq(Nat) /\ Rising(f) /\ Rising(r) /\ Below(f, r)
      /\ Below(a, f) /\ Below(a, r) /\ Below(b, f) /\ Below(b, r) /\ Below(f, d) /\ Below(r, d)
      /\ AtMost(f, n) /\ AtMost(r, n)
  BY <1>1, Batches
<1> HIDE DEF f, r
<1> DEFINE z == <<>>
<1>3. /\ z \in Seq(Nat) /\ Rising(z) /\ AtMost(z, n)
      /\ \A s \in Seq(Nat) : Below(s, z) /\ Below(z, s) /\ s \o z = s
  BY <1>1, EmptySeq
<1> HIDE DEF z
<1>4. Chain(a, b, z, z, n) /\ Chain(a, b, c, z, n) /\ Chain(a, z, z, z, n)
  BY <1>1, <1>3 DEF Chain
<1> DEFINE bf == b \o f
<1>5. bf \in Seq(Nat) /\ Rising(bf) /\ Below(a, bf) /\ AtMost(bf, n)
  BY <1>1, <1>2, Joined2
<1> HIDE DEF bf
<1>6. Chain(a, bf, z, z, n)
  BY <1>1, <1>3, <1>5 DEF Chain
<1> DEFINE ab == a \o b
<1>7. /\ ab \in Seq(Nat) /\ Rising(ab) /\ Below(ab, c) /\ Below(ab, d) /\ AtMost(ab, n)
      /\ Below(ab, f) /\ Below(ab, r)
  BY <1>1, <1>2, Joined2
<1> HIDE DEF ab
<1>8. Chain(ab, z, c, d, n) /\ ab \o z = ab
  BY <1>1, <1>3, <1>7 DEF Chain
<1> DEFINE abf == ab \o f
<1>9. abf \in Seq(Nat) /\ Rising(abf) /\ Below(abf, r) /\ Below(abf, d) /\ AtMost(abf, n)
  BY <1>1, <1>2, <1>7, Joined2
<1> HIDE DEF abf
<1>10. Chain(abf, z, r, d, n)
  BY <1>1, <1>2, <1>3, <1>9 DEF Chain
<1>11. \A s \in Seq(Nat) : AtMost(s, n) => AtMost(s, n + 1)
  <2> SUFFICES ASSUME NEW s \in Seq(Nat), AtMost(s, n), NEW i \in DOMAIN s PROVE s[i] <= n + 1
    BY DEF AtMost
  <2>1. s[i] \in Nat /\ s[i] <= n
    BY DEF AtMost
  <2> QED BY <1>1, <2>1
<1>12. Chain(a, b, c, d, n + 1)
  BY <1>1, <1>11 DEF Chain
<1> QED BY <1>4, <1>6, <1>8, <1>10, <1>12 DEF z, f, r, bf, ab, abf

LEMMA ChainSent ==
  ASSUME NEW a, NEW b, NEW c, NEW d, NEW n, Chain(a, b, c, d, n)
  PROVE  Chain(a, b, c, Append(d, n + 1), n + 1)
<1>1. Chain(a, b, c, d, n + 1)
  BY Chains
<1>2. n \in Nat /\ a \in Seq(Nat) /\ b \in Seq(Nat) /\ c \in Seq(Nat) /\ d \in Seq(Nat)
  BY DEF Chain
<1> DEFINE e == <<n + 1>>
<1>3. Append(d, n + 1) = d \o e
  BY <1>2
<1>4. e \in Seq(Nat) /\ DOMAIN e = {1} /\ e[1] = n + 1
  BY <1>2
<1> HIDE DEF e
<1>5. Rising(e) /\ AtMost(e, n + 1)
  BY <1>2, <1>4 DEF Rising, AtMost
<1>6. \A s \in Seq(Nat) : AtMost(s, n) => Below(s, e)
  <2> SUFFICES ASSUME NEW s \in Seq(Nat), AtMost(s, n), NEW i \in DOMAIN s PROVE s[i] < e[1]
    BY <1>4 DEF Below
  <2>1. s[i] \in Nat /\ s[i] <= n
    BY DEF AtMost
  <2> QED BY <1>2, <1>4, <2>1
<1>7. Below(a, e) /\ Below(b, e) /\ Below(c, e) /\ Below(d, e)
  BY <1>2, <1>6 DEF Chain
<1> DEFINE de == d \o e
<1>8. /\ de \in Seq(Nat) /\ Rising(de) /\ AtMost(de, n + 1)
      /\ Below(a, de) /\ Below(b, de) /\ Below(c, de)
  BY <1>1, <1>2, <1>4, <1>5, <1>7, Joined2 DEF Chain
<1> HIDE DEF de
<1>9. Chain(a, b, c, de, n + 1)
  BY <1>1, <1>8 DEF Chain
<1> QED BY <1>3, <1>9 DEF de

LEMMA ChainArrives ==
  ASSUME NEW a, NEW b, NEW c, NEW d, NEW n, Chain(a, b, c, d, n), d # <<>>
  PROVE  Chain(a, b, Append(c, Head(d)), Tail(d), n)
<1>1. n \in Nat /\ a \in Seq(Nat) /\ b \in Seq(Nat) /\ c \in Seq(Nat) /\ d \in Seq(Nat)
  BY DEF Chain
<1> DEFINE e == <<Head(d)>>
<1> DEFINE t == Tail(d)
<1>2. Append(c, Head(d)) = c \o e /\ Head(d) = d[1] /\ d[1] \in Nat /\ 1 \in DOMAIN d
  BY <1>1
<1>3. e \in Seq(Nat) /\ DOMAIN e = {1} /\ e[1] = d[1]
  BY <1>2
<1>4. t \in Seq(Nat) /\ \A i \in DOMAIN t : i \in Nat /\ t[i] = d[i + 1] /\ i + 1 \in DOMAIN d /\ 1 < i + 1
  BY <1>1
<1> HIDE DEF e, t
<1>5. /\ Rising(d) /\ Below(a, d) /\ Below(b, d) /\ Below(c, d) /\ AtMost(d, n)
  BY DEF Chain
<1>6. Rising(e) /\ AtMost(e, n) /\ Below(a, e) /\ Below(b, e) /\ Below(c, e)
  BY <1>2, <1>3, <1>5 DEF Rising, AtMost, Below
<1>7. Below(e, t)
  BY <1>2, <1>3, <1>4, <1>5 DEF Rising, Below
<1>8. Rising(t)
  <2> SUFFICES ASSUME NEW i \in DOMAIN t, NEW j \in DOMAIN t, i < j PROVE t[i] < t[j]
    BY DEF Rising
  <2>1. i + 1 < j + 1
    BY <1>4
  <2> QED BY <1>4, <1>5, <2>1 DEF Rising
<1>9. Below(a, t) /\ Below(b, t) /\ Below(c, t) /\ AtMost(t, n)
  BY <1>4, <1>5 DEF Below, AtMost
<1> DEFINE ce == c \o e
<1>10. ce \in Seq(Nat) /\ Rising(ce) /\ AtMost(ce, n) /\ Below(a, ce) /\ Below(b, ce) /\ Below(ce, t)
  BY <1>1, <1>3, <1>4, <1>6, <1>7, <1>9, Joined2 DEF Chain
<1> HIDE DEF ce
<1>11. Chain(a, b, ce, t, n)
  BY <1>1, <1>4, <1>8, <1>9, <1>10 DEF Chain
<1> QED BY <1>2, <1>11 DEF ce, t

-----------------------------------------------------------------------------
(***************************************************************************)
(* The invariant.  At says of a connection what its end at p has to do     *)
(* with p's session s and the callbacks ev that p has yet to handle: an    *)
(* end that was accepted or connected is the peer's, one that connects is  *)
(* the peer's or about to be accepted, one that ended will be reported.    *)
(***************************************************************************)
Ev(kind, l) == [kind |-> kind, link |-> l]

At(s, c, ev, p, l) ==
  /\ c.end[p] \in {"accepted", "connected"} => s.on /\ s.peer.link = l
  /\ c.end[p] = "accepted" => ~Initiates(p)
  /\ c.end[p] = "connecting" /\ Initiates(p) => s.on /\ s.peer.link = l
  /\ c.end[p] = "connecting" /\ ~Initiates(p) => Ev("incoming", l) \in ev /\ s.peer.link # l
  /\ c.end[p] \in {"connecting", "accepted"} => Ev("connected", l) \notin ev
  /\ c.end[p] = "ended" => Ev("ended", l) \in ev
  /\ c.end[p] \in {"none", "connecting", "accepted"} => c.inbox[p] = <<>> /\ c.flight[p] = <<>>
  /\ c.end[p] = "none" /\ Initiates(p) => c = NoLink
  /\ c.end[p] = "none" /\ c.end[Other(p)] = "connecting" => \A e \in ev : e.link # l
  /\ c.end[Other(p)] = "connected" => c.end[p] \in {"connected", "ended", "closed"}

\* What a session says of its connection is so.
Own(s, L, p) ==
  /\ s.peer.link # NoHandle => L[s.peer.link].end[p] \notin {"none", "closed"}
  /\ s.peer.connected =>
       s.peer.link # NoHandle /\ L[s.peer.link].end[p] \in {"connected", "ended"}
  /\ ~s.peer.known => s.peer = NoPeer

Sound(s, L, ev, p) ==
  /\ s \in Session /\ ev \subseteq Event
  /\ \A l \in Handle : At(s, L[l], ev, p, l)
  /\ Own(s, L, p)
  /\ ~s.on => s = NoSession /\ ev = {}

\* A connection that a PC counts on, or is about to; the two PCs have no two.
Up(s, ev, l) == s.peer.link = l /\ (s.peer.connected \/ Ev("connected", l) \in ev)
Lone(s, ev, t, ew) == \A l, m \in Handle : Up(s, ev, l) /\ Up(t, ew, m) => l = m

Unread(s, L, p) == IF s.peer.link = NoHandle THEN <<>> ELSE L[s.peer.link].inbox[p]
Flying(s, L, p) ==
  IF s.peer.link = NoHandle THEN <<>>
  ELSE IF L[s.peer.link].end[p] = "connected" THEN L[s.peer.link].flight[p] ELSE <<>>
Line(g, s, L, p, n) == Chain(g, s.drained, Unread(s, L, p), Flying(s, L, p), n)

Pending(p) == {events[p][i] : i \in DOMAIN events[p]}

IInv ==
  /\ TypeOK
  /\ \A p \in Node : /\ Sound(sess[p], link, Pending(p), p)
                     /\ Line(got[p], sess[p], link, p, Sent(Other(p)))
                     /\ Lone(sess[p], Pending(p), sess[Other(p)], Pending(Other(p)))

(***************************************************************************)
(* The same of a view in the middle of what p does, when p has yet to      *)
(* handle ev; x is what stays as it is meanwhile.                          *)
(***************************************************************************)
World(p) == [s |-> sess[Other(p)], ev |-> Pending(Other(p)), mine |-> got[p],
             theirs |-> got[Other(p)], sent |-> Sent(p), heard |-> Sent(Other(p))]

Shape(v) ==
  /\ v = [s |-> v.s, link |-> v.link]
  /\ v.s \in Session /\ v.link \in [Handle -> Link]

Fine(v, p, ev, x) ==
  /\ Shape(v) /\ v.s.on
  /\ Sound(v.s, v.link, ev, p) /\ Sound(x.s, v.link, x.ev, Other(p))
  /\ Lone(v.s, ev, x.s, x.ev)
  /\ Line(x.mine, v.s, v.link, p, x.heard)
  /\ Line(x.theirs, x.s, v.link, Other(p), x.sent)

-----------------------------------------------------------------------------
LEMMA Handles == NoHandle \notin Handle
BY MaxLinkAssumption DEF Handle, NoHandle

LEMMA NoLinkType ==
  /\ NoLink \in Link
  /\ \A p \in Node : NoLink.end[p] = "none" /\ NoLink.inbox[p] = <<>> /\ NoLink.flight[p] = <<>>
BY DEF NoLink, Link, End

LEMMA SessionType ==
  /\ NoSession \in Session /\ NewPeer \in Peer /\ NoPeer \in Peer
  /\ NewPeer.known /\ NewPeer.link = NoHandle /\ ~NewPeer.connected
  /\ ~NoPeer.known /\ NoPeer.link = NoHandle /\ ~NoPeer.connected
  /\ ~NoSession.on /\ NoSession.peer = NoPeer /\ NoSession.drained = <<>>
<1>1. /\ NewPeer = [known |-> TRUE, link |-> NoHandle, connected |-> FALSE,
                    ended |-> FALSE, retry |-> "never"]
      /\ NewPeer \in Peer
  BY DEF NewPeer, Peer
<1>2. NoPeer \in Peer /\ ~NoPeer.known /\ NoPeer.link = NoHandle /\ ~NoPeer.connected
  <2>1. /\ NewPeer \in Peer /\ NewPeer.link = NoHandle /\ NewPeer.connected = FALSE
    BY <1>1
  <2> QED BY <2>1 DEF NoPeer, Peer
<1>3. <<>> \in Seq(Nat)
  OBVIOUS
<1>4. NoSession \in Session
  BY <1>2, <1>3 DEF NoSession, Session
<1> QED BY <1>1, <1>2, <1>4 DEF NoSession

\* The fields of a connection that PC p has closed its end of.
ClosedEnd(c, d, p) ==
  \/ /\ c.end[Other(p)] \in {"none", "closed"} /\ d = NoLink
  \/ /\ c.end[Other(p)] \notin {"none", "closed"}
     /\ d.end[p] = "closed" /\ d.end[Other(p)] = c.end[Other(p)]
     /\ d.inbox[p] = <<>> /\ d.inbox[Other(p)] = c.inbox[Other(p)]
     /\ d.flight[p] = <<>> /\ d.flight[Other(p)] = c.flight[Other(p)]

LEMMA CloseShape ==
  ASSUME NEW p \in Node, NEW L \in [Handle -> Link], NEW l \in Handle, NEW linger \in BOOLEAN
  PROVE  /\ CloseHandle(L, p, l, linger) \in [Handle -> Link]
         /\ ClosedEnd(L[l], CloseHandle(L, p, l, linger)[l], p)
         /\ \A m \in Handle : m # l => CloseHandle(L, p, l, linger)[m] = L[m]
<1> DEFINE q == Other(p)
<1> DEFINE c == L[l]
<1> DEFINE d == Shut(c, p, linger)
<1>1. q \in Node /\ q # p
  BY Nodes
<1>2. c \in Link
  OBVIOUS
<1>3. CloseHandle(L, p, l, linger) =
        [L EXCEPT ![l] = IF c.end[q] \in {"none", "closed"} THEN NoLink ELSE d]
  BY DEF CloseHandle
<1>4. /\ d.end = [c.end EXCEPT ![p] = "closed"]
      /\ d.flight = [c.flight EXCEPT ![p] = <<>>] /\ d.inbox = [c.inbox EXCEPT ![p] = <<>>]
      /\ d.linger = IF linger THEN c.linger \cup {p} ELSE c.linger
      /\ d \in [end : {d.end}, linger : {d.linger}, flight : {d.flight}, inbox : {d.inbox}]
  <2> HIDE DEF c
  <2> QED BY <1>2 DEF Shut, Link
<1>5. /\ c.end \in [Node -> End] /\ c.linger \in SUBSET Node
      /\ c.flight \in [Node -> Seq(Nat)] /\ c.inbox \in [Node -> Seq(Nat)]
  <2> HIDE DEF c
  <2> QED BY <1>2 DEF Link
<1> HIDE DEF c, d
<1>6. d \in Link
  <2>1. d.end \in [Node -> End]
    BY <1>4, <1>5 DEF End
  <2>2. d.linger \in SUBSET Node
    BY <1>4, <1>5
  <2>3. d.flight \in [Node -> Seq(Nat)] /\ d.inbox \in [Node -> Seq(Nat)]
    BY <1>4, <1>5
  <2> QED BY <1>4, <2>1, <2>2, <2>3 DEF Link
<1>7. c.end[q] \notin {"none", "closed"} => ClosedEnd(c, d, p)
  BY <1>1, <1>4, <1>5 DEF ClosedEnd
<1>8. CASE c.end[q] \in {"none", "closed"}
  <2>1. CloseHandle(L, p, l, linger) = [L EXCEPT ![l] = NoLink]
    BY <1>3, <1>8
  <2> QED BY <1>8, <2>1, NoLinkType DEF ClosedEnd, c
<1>9. CASE c.end[q] \notin {"none", "closed"}
  <2>1. CloseHandle(L, p, l, linger) = [L EXCEPT ![l] = d]
    BY <1>3, <1>9
  <2> QED BY <1>6, <1>7, <1>9, <2>1 DEF c
<1> QED BY <1>8, <1>9

-----------------------------------------------------------------------------
(***************************************************************************)
(* What the operators on views do.                                         *)
(***************************************************************************)
LEMMA FineType ==
  ASSUME NEW p \in Node, NEW v, NEW ev, NEW x, Fine(v, p, ev, x)
  PROVE  /\ v = [s |-> v.s, link |-> v.link]
         /\ v.s \in Session /\ v.link \in [Handle -> Link] /\ ev \subseteq Event
         /\ v.s.on /\ v.s.peer \in Peer /\ v.s.drained \in Seq(Nat)
         /\ v.s.peer.link \in Handle \cup {NoHandle}
         /\ x.s \in Session /\ x.ev \subseteq Event /\ x.s.peer.link \in Handle \cup {NoHandle}
         /\ \A l \in Handle : /\ v.link[l] \in Link
                              /\ v.link[l].end \in [Node -> End]
                              /\ v.link[l].inbox \in [Node -> Seq(Nat)]
                              /\ v.link[l].flight \in [Node -> Seq(Nat)]
<1>1. /\ v = [s |-> v.s, link |-> v.link] /\ v.s.on
      /\ v.s \in Session /\ v.link \in [Handle -> Link] /\ ev \subseteq Event
      /\ x.s \in Session /\ x.ev \subseteq Event
  BY DEF Fine, Shape, Sound
<1>2. \A l \in Handle : v.link[l] \in Link
  BY <1>1
<1>3. \A c \in Link : /\ c.end \in [Node -> End] /\ c.inbox \in [Node -> Seq(Nat)]
                      /\ c.flight \in [Node -> Seq(Nat)]
  BY DEF Link
<1>4. \A t \in Session : t.peer \in Peer /\ t.drained \in Seq(Nat)
  BY DEF Session
<1>5. \A t \in Peer : t.link \in Handle \cup {NoHandle}
  BY DEF Peer
<1> QED BY <1>1, <1>2, <1>3, <1>4, <1>5

\* The session s closes its end of l, which is its peer's connection or none.
LEMMA ClosedFine ==
  ASSUME NEW p \in Node, NEW v, NEW ev, NEW x, Fine(v, p, ev, x),
         NEW l \in Handle, NEW linger \in BOOLEAN, NEW s \in Session, s.on,
         s.peer.link = IF v.s.peer.link = l THEN NoHandle ELSE v.s.peer.link,
         s.peer.connected => v.s.peer.connected /\ v.s.peer.link # l,
         ~s.peer.known => s.peer = NoPeer,
         \/ s.drained = v.s.drained
         \/ /\ v.s.peer.link = l
            /\ s.drained = v.s.drained \o FirstBatch(v.link[l].inbox[p])
  PROVE  Fine([s |-> s, link |-> CloseHandle(v.link, p, l, linger)], p, ev, x)
<1> DEFINE q == Other(p)
<1> DEFINE L == v.link
<1> DEFINE M == CloseHandle(L, p, l, linger)
<1>1. /\ q \in Node /\ q # p /\ Other(q) = p /\ (Initiates(q) <=> ~Initiates(p))
  BY Nodes
<1>2. /\ v.s \in Session /\ L \in [Handle -> Link] /\ ev \subseteq Event /\ v.s.on
      /\ v.s.peer.link \in Handle \cup {NoHandle}
      /\ x.s.peer.link \in Handle \cup {NoHandle}
      /\ \A m \in Handle : L[m].end \in [Node -> End]
  BY FineType
<1>3. /\ M \in [Handle -> Link] /\ ClosedEnd(L[l], M[l], p)
      /\ \A m \in Handle : m # l => M[m] = L[m]
  BY <1>2, CloseShape
<1>4. /\ \A m \in Handle : At(v.s, L[m], ev, p, m) /\ At(x.s, L[m], x.ev, q, m)
      /\ Own(v.s, L, p) /\ Own(x.s, L, q) /\ Lone(v.s, ev, x.s, x.ev)
      /\ Line(x.mine, v.s, L, p, x.heard) /\ Line(x.theirs, x.s, L, q, x.sent)
  BY DEF Fine, Sound
<1>5. NoHandle \notin Handle /\ \A n \in Node : NoLink.end[n] = "none" /\ NoLink.inbox[n] = <<>> /\ NoLink.flight[n] = <<>>
  BY Handles, NoLinkType
<1> HIDE DEF q, L, M
<1>6. ASSUME NEW m \in Handle PROVE At(s, M[m], ev, p, m)
  <2>1. CASE m = l
    <3>1. M[l] = NoLink \/ M[l].end[p] = "closed"
      BY <1>3 DEF ClosedEnd
    <3>2. CASE M[l] = NoLink
      BY <1>1, <1>5, <2>1, <3>2 DEF At, q
    <3>3. CASE M[l].end[p] = "closed"
      BY <2>1, <3>3 DEF At
    <3> QED BY <3>1, <3>2, <3>3
  <2>2. CASE m # l
    <3>1. M[m] = L[m] /\ (s.peer.link = m <=> v.s.peer.link = m)
      BY <1>3, <1>5, <2>2
    <3>2. At(v.s, L[m], ev, p, m) /\ s.on
      BY <1>4
    <3>3. At(s, L[m], ev, p, m)
      BY <3>1, <3>2 DEF At
    <3> QED BY <3>1, <3>3
  <2> QED BY <2>1, <2>2
<1>7. Own(s, M, p)
  <2>1. s.peer.link # NoHandle => s.peer.link = v.s.peer.link /\ M[s.peer.link] = L[s.peer.link]
    BY <1>2, <1>3
  <2> QED BY <1>4, <2>1 DEF Own
<1>8. \/ M[l] = NoLink /\ L[l].end[q] \in {"none", "closed"}
      \/ /\ L[l].end[q] \notin {"none", "closed"} /\ M[l].end[p] = "closed" /\ M[l].end[q] = L[l].end[q]
         /\ M[l].inbox[q] = L[l].inbox[q] /\ M[l].flight[q] = L[l].flight[q]
  BY <1>3 DEF ClosedEnd, q
<1>9. ASSUME NEW m \in Handle PROVE At(x.s, M[m], x.ev, q, m)
  <2>1. CASE m = l
    <3>1. CASE M[l] = NoLink
      BY <1>1, <1>5, <2>1, <3>1 DEF At
    <3>2. CASE /\ L[l].end[q] \notin {"none", "closed"}
               /\ M[l].end[p] = "closed" /\ M[l].end[q] = L[l].end[q]
               /\ M[l].inbox[q] = L[l].inbox[q] /\ M[l].flight[q] = L[l].flight[q]
      <4>1. At(x.s, L[l], x.ev, q, l)
        BY <1>4
      <4> QED BY <1>1, <2>1, <3>2, <4>1 DEF At
    <3> QED BY <1>8, <3>1, <3>2
  <2>2. CASE m # l
    BY <1>3, <1>4, <2>2
  <2> QED BY <2>1, <2>2
<1>10. x.s.peer.link # NoHandle =>
         /\ M[x.s.peer.link].end[q] = L[x.s.peer.link].end[q]
         /\ M[x.s.peer.link].inbox[q] = L[x.s.peer.link].inbox[q]
         /\ M[x.s.peer.link].flight[q] = L[x.s.peer.link].flight[q]
  <2>1. CASE x.s.peer.link = l
    BY <1>4, <1>8, <2>1 DEF Own
  <2>2. CASE x.s.peer.link # l
    BY <1>2, <1>3, <2>2
  <2> QED BY <2>1, <2>2
<1>11. Own(x.s, M, q)
  BY <1>4, <1>10 DEF Own
<1>12. Unread(x.s, M, q) = Unread(x.s, L, q) /\ Flying(x.s, M, q) = Flying(x.s, L, q)
  BY <1>10 DEF Unread, Flying
<1>13. Line(x.theirs, x.s, M, q, x.sent)
  BY <1>4, <1>12 DEF Line
<1>14. Lone(s, ev, x.s, x.ev)
  BY <1>4, <1>5 DEF Lone, Up
<1>15. Line(x.mine, s, M, p, x.heard)
  <2>1. Chain(x.mine, v.s.drained, Unread(v.s, L, p), Flying(v.s, L, p), x.heard)
    BY <1>4 DEF Line
  <2>2. CASE v.s.peer.link = l
    <3>1. Unread(s, M, p) = <<>> /\ Flying(s, M, p) = <<>>
      BY <2>2 DEF Unread, Flying
    <3>2. Unread(v.s, L, p) = L[l].inbox[p]
      BY <1>5, <2>2 DEF Unread
    <3>3. s.drained = v.s.drained \/ s.drained = v.s.drained \o FirstBatch(Unread(v.s, L, p))
      BY <3>2 DEF L
    <3>4. Chain(x.mine, s.drained, <<>>, <<>>, x.heard)
      BY <2>1, <3>3, Chains
    <3> QED BY <3>1, <3>4 DEF Line
  <2>3. CASE v.s.peer.link # l
    <3>1. s.peer.link = v.s.peer.link /\ s.drained = v.s.drained
      BY <2>3
    <3>2. s.peer.link # NoHandle => M[s.peer.link] = L[s.peer.link]
      BY <1>2, <1>3, <2>3, <3>1
    <3>3. Unread(s, M, p) = Unread(v.s, L, p) /\ Flying(s, M, p) = Flying(v.s, L, p)
      BY <3>1, <3>2 DEF Unread, Flying
    <3> QED BY <2>1, <3>1, <3>3 DEF Line
  <2> QED BY <2>2, <2>3
<1>16. Sound(s, M, ev, p) /\ Sound(x.s, M, x.ev, q)
  BY <1>2, <1>6, <1>7, <1>9, <1>11 DEF Sound, Fine, q
<1> DEFINE w == [s |-> s, link |-> M]
<1>17. w.s = s /\ w.link = M /\ w = [s |-> w.s, link |-> w.link]
  OBVIOUS
<1> HIDE DEF w
<1>18. Shape(w) /\ w.s.on
  BY <1>3, <1>17 DEF Shape
<1>19. Fine(w, p, ev, x)
  BY <1>13, <1>14, <1>15, <1>16, <1>17, <1>18 DEF Fine, q
<1> QED BY <1>19 DEF w, M, L

\* Only what does not matter to a connection changes in the session.
LEMMA AlikeFine ==
  ASSUME NEW p \in Node, NEW v, NEW ev, NEW x, Fine(v, p, ev, x), NEW s \in Session, s.on,
         s.peer.link = v.s.peer.link, s.drained = v.s.drained,
         s.peer.connected => v.s.peer.connected,
         ~s.peer.known => s.peer = NoPeer
  PROVE  Fine([s |-> s, link |-> v.link], p, ev, x)
<1> DEFINE w == [s |-> s, link |-> v.link]
<1>1. w.s = s /\ w.link = v.link /\ w = [s |-> w.s, link |-> w.link]
  OBVIOUS
<1> HIDE DEF w
<1>2. \A l \in Handle : At(v.s, v.link[l], ev, p, l) => At(s, v.link[l], ev, p, l)
  BY FineType DEF At
<1>3. Own(s, v.link, p)
  BY DEF Fine, Sound, Own
<1>4. Sound(s, v.link, ev, p)
  BY <1>2, <1>3 DEF Fine, Sound
<1>5. Lone(s, ev, x.s, x.ev)
  BY DEF Fine, Lone, Up
<1>6. Line(x.mine, s, v.link, p, x.heard)
  BY DEF Fine, Line, Unread, Flying
<1>7. Shape(w)
  BY <1>1 DEF Fine, Shape
<1>8. Fine(w, p, ev, x)
  BY <1>1, <1>4, <1>5, <1>6, <1>7 DEF Fine
<1> QED BY <1>8 DEF w

LEMMA CloseFine ==
  ASSUME NEW p \in Node, NEW v, NEW ev, NEW x, Fine(v, p, ev, x), NEW linger \in BOOLEAN,
         v.s.peer.known
  PROVE  /\ Fine(Close(v, p, linger), p, ev, x)
         /\ Close(v, p, linger).s.peer.link = NoHandle
         /\ Close(v, p, linger).s.peer.known
         /\ \A l \in Handle : l # v.s.peer.link => Close(v, p, linger).link[l] = v.link[l]
<1> DEFINE k == v.s.peer.link
<1> DEFINE w == Close(v, p, linger)
<1> DEFINE dr == IF v.s.peer.connected THEN v.s.drained \o FirstBatch(v.link[k].inbox[p])
                 ELSE v.s.drained
<1>1. /\ v.s \in Session /\ v.link \in [Handle -> Link] /\ v.s.on
      /\ v.s.peer \in Peer /\ v.s.drained \in Seq(Nat)
      /\ k \in Handle \cup {NoHandle}
      /\ v.s.peer.connected => k # NoHandle
  BY FineType DEF Fine, Sound, Own
<1>2. w.link = IF k = NoHandle THEN v.link ELSE CloseHandle(v.link, p, k, linger)
  BY DEF Close
<1> DEFINE n == [v.s.peer EXCEPT !.link = NoHandle, !.connected = FALSE, !.ended = TRUE,
                                 !.retry = "never"]
<1>3. n \in Peer /\ n.link = NoHandle /\ n.connected = FALSE /\ n.known = v.s.peer.known
  BY <1>1 DEF Peer
<1>4. w.s = [v.s EXCEPT !.drained = dr, !.peer = n]
  BY DEF Close
<1>5. dr \in Seq(Nat)
  <2>1. CASE v.s.peer.connected
    <3>1. v.link[k].inbox[p] \in Seq(Nat)
      BY <1>1, <2>1, FineType
    <3>2. FirstBatch(v.link[k].inbox[p]) \in Seq(Nat)
      BY <3>1, Batches
    <3> QED BY <1>1, <2>1, <3>2
  <2>2. CASE ~v.s.peer.connected
    BY <1>1, <2>2
  <2> QED BY <2>1, <2>2
<1> HIDE DEF n
<1>6. w.s \in Session /\ w.s.on /\ w.s.peer = n /\ w.s.drained = dr
  <2> HIDE DEF dr, w
  <2> QED BY <1>1, <1>3, <1>4, <1>5 DEF Session
<1>7. w = [s |-> w.s, link |-> w.link]
  BY DEF Close
<1> HIDE DEF w
<1>8. CASE k = NoHandle
  <2>1. Fine([s |-> w.s, link |-> v.link], p, ev, x)
    BY <1>1, <1>3, <1>6, <1>8, AlikeFine
  <2> QED BY <1>2, <1>3, <1>6, <1>7, <1>8, <2>1 DEF w
<1>9. CASE k # NoHandle
  <2>1. k \in Handle
    BY <1>1, <1>9
  <2>2. Fine([s |-> w.s, link |-> CloseHandle(v.link, p, k, linger)], p, ev, x)
    BY <1>1, <1>3, <1>6, <2>1, ClosedFine
  <2>3. \A l \in Handle : l # k => CloseHandle(v.link, p, k, linger)[l] = v.link[l]
    BY <1>1, <2>1, CloseShape
  <2> QED BY <1>2, <1>3, <1>6, <1>7, <1>9, <2>2, <2>3 DEF w
<1> QED BY <1>8, <1>9

\* A callback about a connection that is not the peer's may close it.
LEMMA StrayFine ==
  ASSUME NEW p \in Node, NEW v, NEW ev, NEW x, Fine(v, p, ev, x),
         NEW l \in Handle, v.s.peer.link # l
  PROVE  LET w == [v EXCEPT !.link = CloseHandle(@, p, l, FALSE)] IN
         /\ Fine(w, p, ev, x) /\ w.link[l].end[p] \in {"none", "closed"}
<1> DEFINE w == [v EXCEPT !.link = CloseHandle(@, p, l, FALSE)]
<1> DEFINE M == CloseHandle(v.link, p, l, FALSE)
<1>1. v = [s |-> v.s, link |-> v.link] /\ v.s \in Session /\ v.link \in [Handle -> Link] /\ v.s.on
  BY FineType
<1>2. w = [s |-> v.s, link |-> M]
  <2>1. w = [v EXCEPT !.link = M]
    OBVIOUS
  <2> HIDE DEF M
  <2> QED BY <1>1, <2>1
<1>3. ~v.s.peer.known => v.s.peer = NoPeer
  BY DEF Fine, Sound, Own
<1>4. Fine([s |-> v.s, link |-> M], p, ev, x)
  BY <1>1, <1>3, ClosedFine
<1>5. ClosedEnd(v.link[l], M[l], p)
  BY <1>1, CloseShape
<1>6. M[l].end[p] \in {"none", "closed"}
  BY <1>5, NoLinkType DEF ClosedEnd
<1> HIDE DEF M, w
<1>7. w.link = M
  BY <1>2
<1> QED BY <1>2, <1>4, <1>6, <1>7 DEF w

LEMMA UpdateFine ==
  ASSUME NEW p \in Node, NEW v, NEW ev, NEW x, Fine(v, p, ev, x), NEW members \in SUBSET Node
  PROVE  LET w == UpdateMembers(v, p, members) IN
         /\ Fine(w, p, ev, x)
         /\ w.s.peer.link \in {NoHandle, v.s.peer.link}
         /\ \A l \in Handle : l # v.s.peer.link => w.link[l] = v.link[l]
<1> DEFINE w == UpdateMembers(v, p, members)
<1> DEFINE read == [v EXCEPT !.s.unsettled = FALSE]
<1>1. /\ v = [s |-> v.s, link |-> v.link] /\ v.s \in Session /\ v.link \in [Handle -> Link]
      /\ v.s.on /\ v.s.peer \in Peer
  BY FineType
<1>2. ~v.s.peer.known => v.s.peer = NoPeer
  BY DEF Fine, Sound, Own
<1>3. ASSUME NEW b \in BOOLEAN
      PROVE  LET u == [v EXCEPT !.s.unsettled = b] IN
             Fine(u, p, ev, x) /\ u.s.peer = v.s.peer /\ u.link = v.link
  <2> DEFINE s == [v.s EXCEPT !.unsettled = b]
  <2> DEFINE u == [v EXCEPT !.s.unsettled = b]
  <2>1. s \in Session /\ s.on /\ s.peer = v.s.peer /\ s.drained = v.s.drained
    BY <1>1 DEF Session
  <2>2. u = [s |-> s, link |-> v.link]
    BY <1>1
  <2> HIDE DEF s, u
  <2>3. Fine([s |-> s, link |-> v.link], p, ev, x)
    BY <1>1, <1>2, <2>1, AlikeFine
  <2>4. u.s.peer = v.s.peer /\ u.link = v.link /\ Fine(u, p, ev, x)
    BY <2>1, <2>2, <2>3
  <2> QED BY <2>4 DEF u
<1>6. Fine(read, p, ev, x) /\ read.s.peer = v.s.peer /\ read.link = v.link
  BY <1>3
<1>7. CASE p \notin members
  <2>1. w = [v EXCEPT !.s.unsettled = TRUE]
    BY <1>7 DEF UpdateMembers
  <2> QED BY <1>3, <2>1
<1> HIDE DEF read
<1>8. CASE p \in members /\ Other(p) \in members /\ ~v.s.peer.known
  <2> DEFINE s == [read.s EXCEPT !.peer = NewPeer]
  <2>1. w = [read EXCEPT !.s.peer = NewPeer]
    BY <1>8 DEF UpdateMembers, read
  <2>2. /\ read = [s |-> read.s, link |-> read.link] /\ read.s \in Session /\ read.s.on
    BY <1>6, FineType
  <2>3. s \in Session /\ s.on /\ s.peer = NewPeer /\ s.drained = read.s.drained
    BY <2>2, SessionType DEF Session
  <2>4. w = [s |-> s, link |-> read.link]
    BY <2>1, <2>2
  <2>5. read.s.peer = NoPeer
    BY <1>2, <1>6, <1>8
  <2> HIDE DEF s, w
  <2>6. Fine([s |-> s, link |-> read.link], p, ev, x)
    BY <1>6, <2>3, <2>5, SessionType, AlikeFine
  <2> QED BY <1>6, <2>3, <2>4, <2>6, SessionType DEF w
<1>9. CASE p \in members /\ Other(p) \notin members /\ v.s.peer.known
  <2> DEFINE c == Close(read, p, FALSE)
  <2> DEFINE s == [c.s EXCEPT !.peer = NoPeer]
  <2>1. w = [c EXCEPT !.s.peer = NoPeer]
    BY <1>9 DEF UpdateMembers, read
  <2>2. /\ Fine(c, p, ev, x) /\ c.s.peer.link = NoHandle
        /\ \A l \in Handle : l # read.s.peer.link => c.link[l] = read.link[l]
    <3>1. Fine(read, p, ev, x) /\ read.s.peer.known
      BY <1>6, <1>9
    <3>2. /\ Fine(Close(read, p, FALSE), p, ev, x)
          /\ Close(read, p, FALSE).s.peer.link = NoHandle
          /\ \A l \in Handle : l # read.s.peer.link => Close(read, p, FALSE).link[l] = read.link[l]
      <4>1. Fine(Close(read, p, FALSE), p, ev, x)
        BY <3>1, CloseFine
      <4>2. Close(read, p, FALSE).s.peer.link = NoHandle
        BY <3>1, CloseFine
      <4>3. ASSUME NEW l \in Handle, l # read.s.peer.link
            PROVE  Close(read, p, FALSE).link[l] = read.link[l]
        BY <3>1, <4>3, CloseFine
      <4> QED BY <4>1, <4>2, <4>3
    <3> QED BY <3>2
  <2> HIDE DEF c
  <2>3. c = [s |-> c.s, link |-> c.link] /\ c.s \in Session /\ c.s.on
    BY <2>2, FineType
  <2>4. s \in Session /\ s.on /\ s.peer = NoPeer /\ s.drained = c.s.drained
    BY <2>3, SessionType DEF Session
  <2>5. w = [s |-> s, link |-> c.link]
    BY <2>1, <2>3
  <2> HIDE DEF s, w
  <2>6. Fine([s |-> s, link |-> c.link], p, ev, x)
    BY <2>2, <2>4, SessionType, AlikeFine
  <2>7. w.s.peer.link = NoHandle /\ w.link = c.link
    BY <2>4, <2>5, SessionType
  <2> QED BY <1>6, <2>2, <2>5, <2>6, <2>7 DEF w
<1>10. CASE /\ p \in members /\ ~(Other(p) \in members /\ ~v.s.peer.known)
            /\ ~(Other(p) \notin members /\ v.s.peer.known)
  <2>1. w = read
    BY <1>10 DEF UpdateMembers, read
  <2> QED BY <1>6, <2>1
<1> QED BY <1>7, <1>8, <1>9, <1>10

WithEnd(L, l, p, e) == [L EXCEPT ![l].end[p] = e]

EndSet(c, d, p, e) ==
  /\ d.end = [c.end EXCEPT ![p] = e] /\ d.end[p] = e /\ d.end[Other(p)] = c.end[Other(p)]
  /\ d.inbox = c.inbox /\ d.flight = c.flight /\ d.linger = c.linger

LEMMA EndShape ==
  ASSUME NEW p \in Node, NEW L \in [Handle -> Link], NEW l \in Handle, NEW e \in End
  PROVE  /\ WithEnd(L, l, p, e) \in [Handle -> Link]
         /\ EndSet(L[l], WithEnd(L, l, p, e)[l], p, e)
         /\ \A m \in Handle : m # l => WithEnd(L, l, p, e)[m] = L[m]
<1> DEFINE c == L[l]
<1> DEFINE d == [c EXCEPT !.end[p] = e]
<1> DEFINE M == WithEnd(L, l, p, e)
<1>1. Other(p) # p /\ Other(p) \in Node
  BY Nodes
<1>2. M = [L EXCEPT ![l] = d]
  BY DEF WithEnd
<1>3. c \in Link
  OBVIOUS
<1> HIDE DEF c
<1>4. d \in Link /\ d.end = [c.end EXCEPT ![p] = e] /\ d.inbox = c.inbox /\ d.flight = c.flight
      /\ d.linger = c.linger /\ c.end \in [Node -> End]
  BY <1>3 DEF Link
<1> HIDE DEF d, M
<1>5. M \in [Handle -> Link] /\ M[l] = d /\ \A m \in Handle : m # l => M[m] = L[m]
  BY <1>2, <1>4
<1>6. EndSet(c, d, p, e)
  BY <1>1, <1>4 DEF EndSet
<1> QED BY <1>5, <1>6 DEF c, M

LEMMA AcceptedFine ==
  ASSUME NEW p \in Node, NEW v, NEW ev, NEW x, Fine(v, p, ev, x), NEW l \in Handle,
         v.s.peer.link = NoHandle, v.link[l].end[p] = "connecting", ~Initiates(p),
         NEW s \in Session, s.on, s.peer.link = l, s.peer.known, ~s.peer.connected,
         s.drained = v.s.drained
  PROVE  Fine([s |-> s, link |-> WithEnd(v.link, l, p, "accepted")], p, ev, x)
<1> DEFINE q == Other(p)
<1> DEFINE L == v.link
<1> DEFINE M == WithEnd(L, l, p, "accepted")
<1>1. /\ q \in Node /\ q # p /\ Other(q) = p /\ (Initiates(q) <=> ~Initiates(p))
  BY Nodes
<1>2. /\ L \in [Handle -> Link] /\ ev \subseteq Event
      /\ x.s.peer.link \in Handle \cup {NoHandle}
      /\ l # NoHandle /\ "accepted" \in End
  BY FineType, Handles DEF End
<1>3. /\ \A m \in Handle : At(v.s, L[m], ev, p, m) /\ At(x.s, L[m], x.ev, q, m)
      /\ Own(v.s, L, p) /\ Own(x.s, L, q) /\ Lone(v.s, ev, x.s, x.ev)
      /\ Line(x.mine, v.s, L, p, x.heard) /\ Line(x.theirs, x.s, L, q, x.sent)
  BY DEF Fine, Sound
<1>4. /\ M \in [Handle -> Link] /\ M[l].end[p] = "accepted" /\ M[l].end[q] = L[l].end[q]
      /\ M[l].inbox = L[l].inbox /\ M[l].flight = L[l].flight
      /\ \A m \in Handle : m # l => M[m] = L[m]
  <2> HIDE DEF L, M
  <2>1. M \in [Handle -> Link]
    BY <1>2, EndShape DEF M
  <2>2. EndSet(L[l], M[l], p, "accepted")
    BY <1>2, EndShape DEF M
  <2>3. ASSUME NEW m \in Handle, m # l PROVE M[m] = L[m]
    BY <1>2, <2>3, EndShape DEF M
  <2> QED BY <2>1, <2>2, <2>3 DEF EndSet
<1> HIDE DEF q, L, M
<1>5. /\ L[l].end[p] = "connecting" /\ L[l].end[q] # "connected"
      /\ L[l].inbox[p] = <<>> /\ L[l].flight[p] = <<>> /\ Ev("connected", l) \notin ev
  BY <1>3 DEF At, L, q
<1>6. L[l] # NoLink
  BY <1>5, NoLinkType
<1>7. ASSUME NEW m \in Handle PROVE At(s, M[m], ev, p, m)
  <2>1. CASE m = l
    BY <1>4, <1>5, <2>1 DEF At, q
  <2>2. CASE m # l
    <3>1. At(v.s, L[m], ev, p, m) /\ v.s.peer.link # m
      BY <1>3, Handles
    <3>2. At(s, L[m], ev, p, m)
      BY <2>2, <3>1 DEF At
    <3> QED BY <1>4, <2>2, <3>2
  <2> QED BY <2>1, <2>2
<1>8. ASSUME NEW m \in Handle PROVE At(x.s, M[m], x.ev, q, m)
  <2>1. CASE m = l
    <3>1. At(x.s, L[l], x.ev, q, l)
      BY <1>3
    <3> QED BY <1>1, <1>4, <1>6, <2>1, <3>1 DEF At
  <2>2. CASE m # l
    BY <1>3, <1>4, <2>2
  <2> QED BY <2>1, <2>2
<1>9. Own(s, M, p)
  BY <1>2, <1>4 DEF Own
<1>10. x.s.peer.link # NoHandle =>
         /\ M[x.s.peer.link].end[q] = L[x.s.peer.link].end[q]
         /\ M[x.s.peer.link].inbox = L[x.s.peer.link].inbox
         /\ M[x.s.peer.link].flight = L[x.s.peer.link].flight
  BY <1>2, <1>4
<1>11. Own(x.s, M, q)
  BY <1>3, <1>10 DEF Own
<1>12. Line(x.theirs, x.s, M, q, x.sent)
  <2>1. Unread(x.s, M, q) = Unread(x.s, L, q) /\ Flying(x.s, M, q) = Flying(x.s, L, q)
    BY <1>10 DEF Unread, Flying
  <2> QED BY <1>3, <2>1 DEF Line
<1>13. Lone(s, ev, x.s, x.ev)
  BY <1>5 DEF Lone, Up
<1>14. Line(x.mine, s, M, p, x.heard)
  <2>1. Unread(s, M, p) = <<>> /\ Flying(s, M, p) = <<>>
    BY <1>2, <1>4, <1>5 DEF Unread, Flying
  <2>2. Chain(x.mine, v.s.drained, <<>>, <<>>, x.heard)
    BY <1>3, Chains DEF Line
  <2> QED BY <2>1, <2>2 DEF Line
<1>15. Sound(s, M, ev, p) /\ Sound(x.s, M, x.ev, q)
  BY <1>2, <1>7, <1>8, <1>9, <1>11 DEF Sound, Fine, q
<1> DEFINE w == [s |-> s, link |-> M]
<1>16. w.s = s /\ w.link = M /\ w = [s |-> w.s, link |-> w.link]
  OBVIOUS
<1> HIDE DEF w
<1>17. Shape(w) /\ w.s.on
  BY <1>4, <1>16 DEF Shape
<1>18. Fine(w, p, ev, x)
  BY <1>12, <1>13, <1>14, <1>15, <1>16, <1>17 DEF Fine, q
<1> QED BY <1>18 DEF w, M, L

\* A callback about an incoming connection is dealt with: it is accepted, or
\* closed.
LEMMA AcceptFine ==
  ASSUME NEW p \in Node, NEW v, NEW ev, NEW x, Fine(v, p, ev, x), NEW l \in Handle,
         v.s.peer.link # l, copy[p] \in SUBSET Node
  PROVE  LET a == AcceptFrom(v, p, l) IN
         Fine(a, p, ev, x) /\ a.link[l].end[p] # "connecting"
<1> DEFINE a == AcceptFrom(v, p, l)
<1> DEFINE w == IF v.s.peer.known THEN v ELSE UpdateMembers(v, p, copy[p])
<1> DEFINE r == IF w.s.peer.link = NoHandle THEN w ELSE Close(w, p, FALSE)
<1>1. Fine(w, p, ev, x) /\ w.s.peer.link # l
  <2>1. CASE v.s.peer.known
    BY <2>1
  <2>2. CASE ~v.s.peer.known
    <3>1. UpdateMembers(v, p, copy[p]).s.peer.link \in {NoHandle, v.s.peer.link}
      BY UpdateFine
    <3>2. Fine(UpdateMembers(v, p, copy[p]), p, ev, x)
      BY UpdateFine
    <3>3. w = UpdateMembers(v, p, copy[p])
      BY <2>2
    <3> HIDE DEF w
    <3> QED BY <3>1, <3>2, <3>3, Handles
  <2> QED BY <2>1, <2>2
<1>2. a = IF ~w.s.peer.known \/ Initiates(p)
          THEN [w EXCEPT !.link = CloseHandle(@, p, l, FALSE)]
          ELSE IF r.link[l].end[p] # "connecting"
          THEN [r EXCEPT !.link = CloseHandle(@, p, l, FALSE)]
          ELSE [r EXCEPT !.link[l].end[p] = "accepted",
                         !.s.peer.link = l, !.s.peer.ended = FALSE, !.s.peer.retry = "never"]
  BY DEF AcceptFrom
<1> HIDE DEF w, a
<1>3. CASE ~w.s.peer.known \/ Initiates(p)
  <2>1. a = [w EXCEPT !.link = CloseHandle(@, p, l, FALSE)]
    BY <1>2, <1>3
  <2>2. LET b == [w EXCEPT !.link = CloseHandle(@, p, l, FALSE)] IN
         /\ Fine(b, p, ev, x) /\ b.link[l].end[p] \in {"none", "closed"}
    BY <1>1, StrayFine
  <2> QED BY <2>1, <2>2 DEF a
<1>4. CASE w.s.peer.known /\ ~Initiates(p)
  <2>1. Fine(r, p, ev, x) /\ r.s.peer.link = NoHandle /\ r.s.peer.known
    <3>1. CASE w.s.peer.link = NoHandle
      BY <1>1, <1>4, <3>1
    <3>2. CASE w.s.peer.link # NoHandle
      <4>1. /\ Fine(Close(w, p, FALSE), p, ev, x)
            /\ Close(w, p, FALSE).s.peer.link = NoHandle
            /\ Close(w, p, FALSE).s.peer.known
        <5>1. Fine(Close(w, p, FALSE), p, ev, x)
          BY <1>1, <1>4, CloseFine
        <5>2. Close(w, p, FALSE).s.peer.link = NoHandle
          BY <1>1, <1>4, CloseFine
        <5>3. Close(w, p, FALSE).s.peer.known
          BY <1>1, <1>4, CloseFine
        <5> QED BY <5>1, <5>2, <5>3
      <4> QED BY <3>2, <4>1
    <3> QED BY <3>1, <3>2
  <2> HIDE DEF r
  <2>2. CASE r.link[l].end[p] # "connecting"
    <3>1. a = [r EXCEPT !.link = CloseHandle(@, p, l, FALSE)]
      BY <1>2, <1>4, <2>2
    <3>2. LET b == [r EXCEPT !.link = CloseHandle(@, p, l, FALSE)] IN
           /\ Fine(b, p, ev, x) /\ b.link[l].end[p] \in {"none", "closed"}
      BY <2>1, Handles, StrayFine
    <3> QED BY <3>1, <3>2 DEF a
  <2>3. CASE r.link[l].end[p] = "connecting"
    <3> DEFINE s == [r.s EXCEPT !.peer.link = l, !.peer.ended = FALSE, !.peer.retry = "never"]
    <3> DEFINE M == WithEnd(r.link, l, p, "accepted")
    <3>1. r = [s |-> r.s, link |-> r.link] /\ r.s \in Session /\ r.s.peer \in Peer /\ r.s.on
          /\ r.link \in [Handle -> Link]
      BY <2>1, FineType
    <3>2. ~r.s.peer.connected
      BY <2>1 DEF Fine, Sound, Own
    <3>3. s \in Session /\ s.on /\ s.peer.link = l /\ s.peer.known /\ ~s.peer.connected
          /\ s.drained = r.s.drained
      BY <2>1, <3>1, <3>2 DEF Session, Peer
    <3>4. a = [s |-> s, link |-> M]
      BY <1>2, <1>4, <2>3, <3>1 DEF WithEnd
    <3> HIDE DEF s
    <3>5. Fine([s |-> s, link |-> M], p, ev, x)
      BY <1>4, <2>1, <2>3, <3>3, AcceptedFine
    <3>6. M[l].end[p] = "accepted"
      <4>1. "accepted" \in End
        BY DEF End
      <4>2. EndSet(r.link[l], M[l], p, "accepted")
        BY <3>1, <4>1, EndShape
      <4> QED BY <4>2 DEF EndSet
    <3> HIDE DEF M
    <3> QED BY <3>4, <3>5, <3>6 DEF a
  <2> QED BY <2>2, <2>3
<1> QED BY <1>3, <1>4

-----------------------------------------------------------------------------
(***************************************************************************)
(* A callback is handled: one about a connection that comes in, or ended,  *)
(* is needed until then.                                                   *)
(***************************************************************************)
Dealt(w, p, e) ==
  /\ e.kind = "incoming" /\ w.link[e.link].end[p] = "connecting" => Initiates(p)
  /\ e.kind = "ended" => w.link[e.link].end[p] # "ended"

LEMMA EventType ==
  /\ \A e \in Event : /\ e.kind \in {"incoming", "connected", "ended"} => e.link \in Handle
                      /\ e.kind = "lobby" => e.link = NoHandle
                      /\ e.kind \in {"lobby", "incoming", "connected", "ended"}
                      /\ e = Ev(e.kind, e.link)
  /\ LobbyUpdate \in Event
  /\ \A kind \in {"incoming", "connected", "ended"}, l \in Handle : Ev(kind, l) \in Event
  /\ \A kind, l : Ev(kind, l).kind = kind /\ Ev(kind, l).link = l
<1>1. \A kind, l : Ev(kind, l).kind = kind /\ Ev(kind, l).link = l
  BY DEF Ev
<1>2. LobbyUpdate \in Event
  BY DEF Event
<1>3. \A kind \in {"incoming", "connected", "ended"}, l \in Handle : Ev(kind, l) \in Event
  BY DEF Ev, Event
<1>4. ASSUME NEW e \in Event
      PROVE  /\ e.kind \in {"incoming", "connected", "ended"} => e.link \in Handle
             /\ e.kind = "lobby" => e.link = NoHandle
             /\ e.kind \in {"lobby", "incoming", "connected", "ended"}
             /\ e = Ev(e.kind, e.link)
  <2>1. CASE e = LobbyUpdate
    BY <2>1 DEF LobbyUpdate, Ev
  <2>2. CASE e \in [kind : {"incoming", "connected", "ended"}, link : Handle]
    BY <2>2 DEF Ev
  <2> QED BY <2>1, <2>2 DEF Event
<1> QED BY <1>1, <1>2, <1>3, <1>4

LEMMA ForgetFine ==
  ASSUME NEW p \in Node, NEW w, NEW ev, NEW x, Fine(w, p, ev, x),
         NEW e \in Event, NEW rest, rest \subseteq ev, ev \subseteq rest \cup {e}, Dealt(w, p, e)
  PROVE  Fine(w, p, rest, x)
<1>1. \A l \in Handle : At(w.s, w.link[l], ev, p, l) /\ Own(w.s, w.link, p)
  BY DEF Fine, Sound
<1>2. \A kind, l : Ev(kind, l).kind = kind /\ Ev(kind, l).link = l
  BY DEF Ev
<1>3. ASSUME NEW l \in Handle PROVE At(w.s, w.link[l], rest, p, l)
  <2>1. At(w.s, w.link[l], ev, p, l)
    BY <1>1
  <2>2. w.link[l].end[p] = "connecting" /\ ~Initiates(p) => Ev("incoming", l) \in rest
    BY <1>2, <2>1 DEF At, Dealt
  <2>3. w.link[l].end[p] = "ended" => Ev("ended", l) \in rest
    BY <1>2, <2>1 DEF At, Dealt
  <2> QED BY <2>1, <2>2, <2>3 DEF At
<1>4. Lone(w.s, rest, x.s, x.ev)
  BY DEF Fine, Lone, Up
<1>5. Sound(w.s, w.link, rest, p)
  BY <1>3 DEF Fine, Sound
<1> QED BY <1>4, <1>5 DEF Fine

\* A connection that is the peer's is connected.
LEMMA ConnectedFine ==
  ASSUME NEW p \in Node, NEW v, NEW ev, NEW x, Fine(v, p, ev, x), NEW l \in Handle,
         v.s.peer.link = l, Ev("connected", l) \in ev
  PROVE  Fine([v EXCEPT !.s.peer.connected = TRUE], p, ev, x)
<1> DEFINE s == [v.s EXCEPT !.peer.connected = TRUE]
<1>1. v = [s |-> v.s, link |-> v.link] /\ v.s \in Session /\ v.s.peer \in Peer /\ v.s.on
      /\ v.link[l].end \in [Node -> End]
  BY FineType
<1>2. s \in Session /\ s.on /\ s.peer.link = l /\ s.peer.connected /\ s.drained = v.s.drained
      /\ s.peer.known = v.s.peer.known
  BY <1>1 DEF Session, Peer
<1>3. [v EXCEPT !.s.peer.connected = TRUE] = [s |-> s, link |-> v.link]
  <2>1. v = [s |-> v.s, link |-> v.link]
    BY <1>1
  <2>2. [v EXCEPT !.s.peer.connected = TRUE] = [v EXCEPT !.s = s]
    OBVIOUS
  <2> HIDE DEF s
  <2> QED BY <2>1, <2>2
<1> HIDE DEF s
<1>4. v.s.peer.known
  BY Handles, SessionType DEF Fine, Sound, Own
<1>5. v.link[l].end[p] \in {"connected", "ended"}
  <2>1. v.link[l].end[p] \notin {"none", "closed"}
    BY Handles DEF Fine, Sound, Own
  <2>2. v.link[l].end[p] \notin {"connecting", "accepted"}
    BY DEF Fine, Sound, At
  <2> QED BY <1>1, <2>1, <2>2 DEF End
<1> DEFINE w == [s |-> s, link |-> v.link]
<1>6. w.s = s /\ w.link = v.link /\ w = [s |-> w.s, link |-> w.link]
  OBVIOUS
<1> HIDE DEF w
<1>7. \A m \in Handle : At(v.s, v.link[m], ev, p, m) => At(s, v.link[m], ev, p, m)
  BY <1>1, <1>2 DEF At
<1>8. Own(s, v.link, p)
  BY <1>2, <1>4, <1>5, Handles DEF Own
<1>9. Sound(s, v.link, ev, p)
  BY <1>2, <1>7, <1>8 DEF Fine, Sound
<1>10. Lone(s, ev, x.s, x.ev)
  BY <1>2 DEF Fine, Lone, Up
<1>11. Line(x.mine, s, v.link, p, x.heard)
  BY <1>2 DEF Fine, Line, Unread, Flying
<1>12. Shape(w)
  BY <1>2, <1>6 DEF Fine, Shape
<1>13. Fine(w, p, ev, x)
  BY <1>2, <1>6, <1>9, <1>10, <1>11, <1>12 DEF Fine
<1> QED BY <1>3, <1>13 DEF w

LEMMA EndedFine ==
  ASSUME NEW p \in Node, NEW v, NEW ev, NEW x, Fine(v, p, ev, x), NEW l \in Handle,
         v.s.peer.link = l
  PROVE  LET w == [Close(v, p, FALSE) EXCEPT !.s.peer.retry = "later"] IN
         Fine(w, p, ev, x) /\ w.link[l].end[p] \in {"none", "closed"}
<1> DEFINE c == Close(v, p, FALSE)
<1> DEFINE s == [c.s EXCEPT !.peer.retry = "later"]
<1> DEFINE w == [Close(v, p, FALSE) EXCEPT !.s.peer.retry = "later"]
<1>1. v.s.peer.known /\ v.link \in [Handle -> Link]
  BY Handles, SessionType, FineType DEF Fine, Sound, Own
<1>2. Fine(c, p, ev, x) /\ c.s.peer.known
  BY <1>1, CloseFine
<1>3. c.link = CloseHandle(v.link, p, l, FALSE)
  BY Handles DEF Close
<1>4. c.link[l].end[p] \in {"none", "closed"}
  <2>1. ClosedEnd(v.link[l], CloseHandle(v.link, p, l, FALSE)[l], p)
    BY <1>1, CloseShape
  <2> QED BY <1>3, <2>1, NoLinkType DEF ClosedEnd
<1> HIDE DEF c
<1>5. c = [s |-> c.s, link |-> c.link] /\ c.s \in Session /\ c.s.peer \in Peer /\ c.s.on
  BY <1>2, FineType
<1>6. s \in Session /\ s.on /\ s.peer.link = c.s.peer.link /\ s.drained = c.s.drained
      /\ s.peer.connected = c.s.peer.connected /\ s.peer.known = c.s.peer.known
  BY <1>5 DEF Session, Peer
<1>7. w = [s |-> s, link |-> c.link]
  <2>1. w = [c EXCEPT !.s = s]
    BY DEF c
  <2> HIDE DEF s, w
  <2> QED BY <1>5, <2>1
<1> HIDE DEF s, w
<1>8. Fine([s |-> s, link |-> c.link], p, ev, x)
  BY <1>2, <1>6, AlikeFine
<1> QED BY <1>4, <1>7, <1>8 DEF w

LEMMA HandledFine ==
  ASSUME NEW p \in Node, NEW v, NEW ev, NEW x, Fine(v, p, ev, x),
         NEW e \in ev, copy[p] \in SUBSET Node,
         NEW rest, rest \subseteq ev, ev \subseteq rest \cup {e}
  PROVE  Fine(Handled(v, p, e), p, rest, x)
<1> DEFINE w == Handled(v, p, e)
<1>1. e \in Event /\ v.s.peer.link \in Handle \cup {NoHandle}
  BY FineType
<1>2. Fine(w, p, ev, x) /\ Dealt(w, p, e)
  <2>1. CASE e.kind = "lobby"
    <3>1. w = UpdateMembers(v, p, copy[p])
      BY <2>1 DEF Handled
    <3>2. Fine(UpdateMembers(v, p, copy[p]), p, ev, x)
      BY UpdateFine
    <3> QED BY <2>1, <3>1, <3>2 DEF Dealt
  <2>2. CASE e.kind # "lobby" /\ v.s.peer.link = e.link
    <3>1. w = PeerChanged(v, p, e) /\ e.link \in Handle /\ e = Ev(e.kind, e.link)
      BY <1>1, <2>2, EventType DEF Handled
    <3>2. CASE e.kind = "connected"
      <4>1. w = [v EXCEPT !.s.peer.connected = TRUE]
        BY <3>1, <3>2 DEF PeerChanged
      <4>2. Fine([v EXCEPT !.s.peer.connected = TRUE], p, ev, x)
        BY <2>2, <3>1, <3>2, ConnectedFine
      <4> QED BY <3>2, <4>1, <4>2 DEF Dealt
    <3>3. CASE e.kind = "ended"
      <4>1. w = [Close(v, p, FALSE) EXCEPT !.s.peer.retry = "later"]
        BY <3>1, <3>3 DEF PeerChanged
      <4>2. LET u == [Close(v, p, FALSE) EXCEPT !.s.peer.retry = "later"] IN
            Fine(u, p, ev, x) /\ u.link[e.link].end[p] \in {"none", "closed"}
        BY <2>2, <3>1, EndedFine
      <4> HIDE DEF w
      <4> QED BY <3>3, <4>1, <4>2 DEF Dealt
    <3>4. CASE e.kind = "incoming"
      <4>1. w = v
        BY <3>1, <3>4 DEF PeerChanged
      <4>2. At(v.s, v.link[e.link], ev, p, e.link)
        BY <3>1 DEF Fine, Sound
      <4> HIDE DEF w
      <4> QED BY <2>2, <3>4, <4>1, <4>2 DEF Dealt, At
    <3> QED BY <1>1, <2>2, <3>2, <3>3, <3>4, EventType
  <2>3. CASE e.kind # "lobby" /\ v.s.peer.link # e.link
    <3>1. w = StrayChanged(v, p, e) /\ e.link \in Handle
      BY <1>1, <2>3, EventType DEF Handled
    <3>2. CASE e.kind = "connected"
      <4>1. w = v
        BY <3>1, <3>2 DEF StrayChanged
      <4> QED BY <3>2, <4>1 DEF Dealt
    <3>3. CASE e.kind = "ended"
      <4>1. w = [v EXCEPT !.link = CloseHandle(@, p, e.link, FALSE)]
        BY <3>1, <3>3 DEF StrayChanged
      <4>2. LET u == [v EXCEPT !.link = CloseHandle(@, p, e.link, FALSE)] IN
            Fine(u, p, ev, x) /\ u.link[e.link].end[p] \in {"none", "closed"}
        BY <2>3, <3>1, StrayFine
      <4> HIDE DEF w
      <4> QED BY <3>3, <4>1, <4>2 DEF Dealt
    <3>4. CASE e.kind = "incoming"
      <4>1. w = AcceptFrom(v, p, e.link)
        BY <3>1, <3>4 DEF StrayChanged
      <4>2. LET a == AcceptFrom(v, p, e.link) IN
            Fine(a, p, ev, x) /\ a.link[e.link].end[p] # "connecting"
        BY <2>3, <3>1, AcceptFine
      <4> HIDE DEF w
      <4> QED BY <3>4, <4>1, <4>2 DEF Dealt
    <3> QED BY <1>1, <2>3, <3>2, <3>3, <3>4, EventType
  <2> QED BY <2>1, <2>2, <2>3
<1> HIDE DEF w
<1>3. Fine(w, p, rest, x)
  BY <1>1, <1>2, ForgetFine
<1> QED BY <1>3 DEF w

-----------------------------------------------------------------------------
(***************************************************************************)
(* The callbacks a tick takes, handled one after the other.                *)
(***************************************************************************)
LEMMA Least ==
  ASSUME NEW T \in SUBSET Nat, T # {}
  PROVE  \E n \in T : \A m \in T : n <= m
<1>1. PICK n \in T : \A m \in T : ~(<<m, n>> \in OpToRel(<, Nat))
  BY NatLessThanWellFounded, WFMin, Zenon
<1>2. \A m \in T : ~(m < n)
  BY <1>1 DEF OpToRel
<1> QED BY <1>2

\* What follows the views vs when the callback e is handled.
After(vs, p, e) == {Handled(v, p, e) : v \in vs}
InTurn(f, vs, p, s, n) == f = [i \in 0..n |-> IF i = 0 THEN vs ELSE After(f[i - 1], p, s[i])]

LEMMA InTurnExists ==
  ASSUME NEW vs, NEW p, NEW s
  PROVE  \A n \in Nat : \E f : InTurn(f, vs, p, s, n)
<1> DEFINE T == {n \in Nat : ~\E f : InTurn(f, vs, p, s, n)}
<1> SUFFICES ASSUME T # {} PROVE FALSE
  OBVIOUS
<1>1. PICK n \in T : \A m \in T : n <= m
  BY Least
<1>2. n \in Nat
  OBVIOUS
<1>3. CASE n = 0
  <2> DEFINE f == [i \in 0..n |-> vs]
  <2>1. InTurn(f, vs, p, s, n)
    BY <1>3 DEF InTurn
  <2> QED BY <2>1
<1>4. CASE n # 0
  <2>1. n - 1 \in Nat /\ n - 1 \notin T
    BY <1>1, <1>2, <1>4
  <2>2. PICK g : InTurn(g, vs, p, s, n - 1)
    BY <2>1
  <2> DEFINE last == After(g[n - 1], p, s[n])
  <2> DEFINE f == [i \in 0..n |-> IF i = n THEN last ELSE g[i]]
  <2>3. \A i \in 0..(n - 1) : g[i] = IF i = 0 THEN vs ELSE After(g[i - 1], p, s[i])
    BY <2>2 DEF InTurn
  <2>4. ASSUME NEW i \in 0..n
        PROVE  f[i] = IF i = 0 THEN vs ELSE After(f[i - 1], p, s[i])
    <3>1. i = 0 \/ (i - 1 \in 0..n /\ i - 1 # n)
      BY <1>2
    <3>2. i = n \/ i \in 0..(n - 1)
      BY <1>2
    <3> HIDE DEF last
    <3>3. CASE i = n
      <4>1. f[i] = last /\ f[i - 1] = g[n - 1]
        BY <1>2, <1>4, <3>1, <3>3
      <4> HIDE DEF f
      <4> QED BY <1>4, <3>3, <4>1 DEF last
    <3>4. CASE i # n
      <4>1. f[i] = g[i] /\ (i # 0 => f[i - 1] = g[i - 1])
        BY <3>1, <3>4
      <4> HIDE DEF f
      <4> QED BY <2>3, <3>2, <3>4, <4>1
    <3> QED BY <3>3, <3>4
  <2>5. InTurn(f, vs, p, s, n)
    BY <2>4 DEF InTurn
  <2> QED BY <2>5
<1> QED BY <1>3, <1>4

LEMMA CallbacksInTurn ==
  ASSUME NEW p, Len(events[p]) \in Nat
  PROVE  \E f : InTurn(f, {View(p)}, p, events[p], Len(events[p])) /\ Callbacks(p) = f[Len(events[p])]
<1> DEFINE n == Len(events[p])
<1> DEFINE after == CHOOSE f : InTurn(f, {View(p)}, p, events[p], n)
<1>1. InTurn(after, {View(p)}, p, events[p], n)
  BY InTurnExists, Zenon
<1>2. Callbacks(p) = after[n]
  BY DEF Callbacks, InTurn, After
<1> QED BY <1>1, <1>2

\* The invariant, from one PC's side.
Good(p, s, t, L, ev, ew, g, h, n, m) ==
  /\ Sound(s, L, ev, p) /\ Sound(t, L, ew, Other(p))
  /\ Lone(s, ev, t, ew)
  /\ Line(g, s, L, p, n) /\ Line(h, t, L, Other(p), m)

LEMMA FineGood ==
  ASSUME NEW p \in Node, NEW v, NEW ev, NEW x, Fine(v, p, ev, x)
  PROVE  Good(p, v.s, x.s, v.link, ev, x.ev, x.mine, x.theirs, x.heard, x.sent)
BY DEF Fine, Good

LEMMA IsGood ==
  ASSUME IInv, NEW p \in Node
  PROVE  Good(p, sess[p], sess[Other(p)], link, Pending(p), Pending(Other(p)),
              got[p], got[Other(p)], Sent(Other(p)), Sent(p))
<1>1. Other(p) \in Node /\ Other(Other(p)) = p
  BY Nodes
<1> QED BY <1>1 DEF IInv, Good

LEMMA IsFine ==
  ASSUME IInv, NEW p \in Node, sess[p].on
  PROVE  Fine(View(p), p, Pending(p), World(p))
<1> DEFINE v == View(p)
<1> DEFINE x == World(p)
<1>1. v.s = sess[p] /\ v.link = link /\ v = [s |-> v.s, link |-> v.link]
  BY DEF View
<1>2. /\ x.s = sess[Other(p)] /\ x.ev = Pending(Other(p)) /\ x.mine = got[p]
      /\ x.theirs = got[Other(p)] /\ x.sent = Sent(p) /\ x.heard = Sent(Other(p))
  BY DEF World
<1>3. link \in [Handle -> Link] /\ sess[p] \in Session
  BY DEF IInv, TypeOK
<1> HIDE DEF v, x
<1>4. Good(p, v.s, x.s, v.link, Pending(p), x.ev, x.mine, x.theirs, x.heard, x.sent)
  BY <1>1, <1>2, IsGood
<1>5. Shape(v)
  BY <1>1, <1>3 DEF Shape
<1>6. Fine(v, p, Pending(p), x)
  BY <1>1, <1>4, <1>5 DEF Fine, Good
<1> QED BY <1>6 DEF v, x

LEMMA GoodStays ==
  ASSUME NEW p \in Node,
         lobby' \subseteq Node, copy' \in [Node -> SUBSET Node],
         sess' \in [Node -> Session], link' \in [Handle -> Link],
         events' \in [Node -> Seq(Event)], got' \in [Node -> Seq(Nat)],
         used' \in [What -> [Node -> Nat]],
         Good(p, sess'[p], sess'[Other(p)], link', Pending(p)', Pending(Other(p))',
              got'[p], got'[Other(p)], Sent(Other(p))', Sent(p)')
  PROVE  IInv'
<1>1. Other(p) \in Node /\ Other(Other(p)) = p /\ Node = {p, Other(p)}
  BY Nodes
<1>2. Lone(sess'[Other(p)], Pending(Other(p))', sess'[p], Pending(p)')
  BY DEF Good, Lone
<1>3. \A r \in Node : /\ Sound(sess'[r], link', Pending(r)', r)
                      /\ Line(got'[r], sess'[r], link', r, Sent(Other(r))')
                      /\ Lone(sess'[r], Pending(r)', sess'[Other(r)], Pending(Other(r))')
  BY <1>1, <1>2 DEF Good
<1>4. \A r \in Node : sess'[r].peer.connected => sess'[r].peer.link # NoHandle
  BY <1>3 DEF Sound, Own
<1>5. TypeOK'
  BY <1>4 DEF TypeOK
<1> QED BY <1>3, <1>5 DEF IInv

Rest(s, i) == {s[j] : j \in (i + 1)..Len(s)}

LEMMA CallbacksFine ==
  ASSUME IInv, NEW p \in Node, sess[p].on
  PROVE  \A v \in Callbacks(p) : Fine(v, p, {}, World(p))
<1> DEFINE s == events[p]
<1> DEFINE n == Len(s)
<1> DEFINE x == World(p)
<1>1. s \in Seq(Event) /\ n \in Nat /\ DOMAIN s = 1..n /\ copy[p] \in SUBSET Node
  BY DEF IInv, TypeOK
<1>2. PICK f : InTurn(f, {View(p)}, p, s, n) /\ Callbacks(p) = f[n]
  BY <1>1, CallbacksInTurn
<1>3. Fine(View(p), p, Pending(p), x)
  BY IsFine
<1>4. Pending(p) = Rest(s, 0)
  BY <1>1 DEF Pending, Rest
<1>5. Rest(s, n) = {}
  BY <1>1 DEF Rest
<1> HIDE DEF s, n, x
<1>6. \A i \in 0..n : f[i] = IF i = 0 THEN {View(p)} ELSE After(f[i - 1], p, s[i])
  BY <1>2 DEF InTurn
<1> DEFINE T == {i \in 0..n : \E v \in f[i] : ~Fine(v, p, Rest(s, i), x)}
<1>7. T = {}
  <2> SUFFICES ASSUME T # {} PROVE FALSE
    OBVIOUS
  <2>1. T \in SUBSET Nat
    BY <1>1
  <2>2. PICK i \in T : \A j \in T : i <= j
    BY <2>1, Least
  <2>3. i \in 0..n
    OBVIOUS
  <2>4. PICK v \in f[i] : ~Fine(v, p, Rest(s, i), x)
    OBVIOUS
  <2>5. i # 0
    <3>1. i = 0 => v = View(p)
      BY <1>1, <1>6, <2>3
    <3> QED BY <1>3, <1>4, <2>4, <3>1
  <2>6. i - 1 \in 0..n /\ i - 1 \notin T
    BY <1>1, <2>2, <2>3, <2>5
  <2>7. PICK w \in f[i - 1] : v = Handled(w, p, s[i])
    BY <1>6, <2>3, <2>5 DEF After
  <2>8. Fine(w, p, Rest(s, i - 1), x)
    BY <2>6
  <2>9. s[i] \in Rest(s, i - 1) /\ Rest(s, i) \subseteq Rest(s, i - 1)
        /\ Rest(s, i - 1) \subseteq Rest(s, i) \cup {s[i]}
    BY <1>1, <2>3, <2>5 DEF Rest, n
  <2>10. Fine(Handled(w, p, s[i]), p, Rest(s, i), x)
    BY <1>1, <2>8, <2>9, HandledFine
  <2> QED BY <2>4, <2>7, <2>10
<1>8. \A v \in f[n] : Fine(v, p, Rest(s, n), x)
  BY <1>1, <1>7
<1> QED BY <1>2, <1>5, <1>8 DEF x

LEMMA SettledFine ==
  ASSUME NEW p \in Node, NEW v, NEW ev, NEW x, Fine(v, p, ev, x), copy[p] \in SUBSET Node
  PROVE  Fine(Settled(v, p), p, ev, x)
<1>1. CASE v.s.unsettled
  <2>1. Fine(UpdateMembers(v, p, copy[p]), p, ev, x)
    BY UpdateFine
  <2> QED BY <1>1, <2>1 DEF Settled
<1>2. CASE ~v.s.unsettled
  BY <1>2 DEF Settled
<1> QED BY <1>1, <1>2

\* A new connection, under a handle that nothing is known of.
Dialled(p) == [NoLink EXCEPT !.end[p] = "connecting"]

LEMMA DialledShape ==
  ASSUME NEW p \in Node
  PROVE  /\ Dialled(p) \in Link /\ Dialled(p).end[p] = "connecting"
         /\ Dialled(p).end[Other(p)] = "none"
         /\ \A r \in Node : Dialled(p).inbox[r] = <<>> /\ Dialled(p).flight[r] = <<>>
<1> DEFINE d == Dialled(p)
<1> DEFINE c == NoLink
<1>1. c \in Link /\ \A r \in Node : c.end[r] = "none" /\ c.inbox[r] = <<>> /\ c.flight[r] = <<>>
  BY NoLinkType
<1>2. Other(p) # p /\ Other(p) \in Node
  BY Nodes
<1>3. d = [c EXCEPT !.end[p] = "connecting"]
  BY DEF Dialled
<1> HIDE DEF c, d
<1>4. "connecting" \in End
  BY DEF End
<1>5. d \in Link /\ d.end = [c.end EXCEPT ![p] = "connecting"] /\ d.inbox = c.inbox
      /\ d.flight = c.flight /\ c.end \in [Node -> End]
  BY <1>1, <1>3, <1>4 DEF Link
<1> QED BY <1>1, <1>2, <1>5 DEF d

LEMMA DialledFine ==
  ASSUME NEW p \in Node, NEW v, NEW x, Fine(v, p, {}, x), Initiates(p),
         v.s.peer.link = NoHandle, NEW l \in Handle, v.link[l] = NoLink,
         \A e \in x.ev : e.link # l,
         NEW s \in Session, s.on, s.peer.link = l, s.peer.known, ~s.peer.connected,
         s.drained = v.s.drained
  PROVE  Fine([s |-> s, link |-> [v.link EXCEPT ![l] = Dialled(p)]], p, {}, x)
<1> DEFINE q == Other(p)
<1> DEFINE L == v.link
<1> DEFINE M == [L EXCEPT ![l] = Dialled(p)]
<1>1. /\ q \in Node /\ q # p /\ Other(q) = p /\ ~Initiates(q)
  BY Nodes
<1>2. /\ L \in [Handle -> Link] /\ x.s.peer.link \in Handle \cup {NoHandle} /\ l # NoHandle
  BY FineType, Handles
<1>3. /\ \A m \in Handle : At(v.s, L[m], {}, p, m) /\ At(x.s, L[m], x.ev, q, m)
      /\ Own(v.s, L, p) /\ Own(x.s, L, q)
      /\ Line(x.mine, v.s, L, p, x.heard) /\ Line(x.theirs, x.s, L, q, x.sent)
  BY DEF Fine, Sound
<1>4. /\ Dialled(p).end[p] = "connecting" /\ Dialled(p).end[q] = "none"
      /\ \A r \in Node : Dialled(p).inbox[r] = <<>> /\ Dialled(p).flight[r] = <<>>
  BY DialledShape
<1>5. M \in [Handle -> Link] /\ M[l] = Dialled(p) /\ \A m \in Handle : m # l => M[m] = L[m]
  BY <1>2, DialledShape
<1>6. L[l] = NoLink /\ L[l].end[q] = "none"
  BY <1>1, NoLinkType
<1> HIDE DEF q, L, M
<1>7. ASSUME NEW m \in Handle PROVE At(s, M[m], {}, p, m)
  <2>1. CASE m = l
    BY <1>1, <1>4, <1>5, <2>1 DEF At, q
  <2>2. CASE m # l
    <3>1. At(v.s, L[m], {}, p, m) /\ v.s.peer.link # m
      BY <1>3, Handles
    <3>2. At(s, L[m], {}, p, m)
      BY <2>2, <3>1 DEF At
    <3> QED BY <1>5, <2>2, <3>2
  <2> QED BY <2>1, <2>2
<1>8. ASSUME NEW m \in Handle PROVE At(x.s, M[m], x.ev, q, m)
  <2>1. CASE m = l
    BY <1>1, <1>4, <1>5, <2>1 DEF At
  <2>2. CASE m # l
    BY <1>3, <1>5, <2>2
  <2> QED BY <2>1, <2>2
<1>9. Own(s, M, p)
  BY <1>2, <1>4, <1>5 DEF Own
<1>10. x.s.peer.link # NoHandle => M[x.s.peer.link] = L[x.s.peer.link]
  BY <1>2, <1>3, <1>5, <1>6 DEF Own
<1>11. Own(x.s, M, q)
  BY <1>3, <1>10 DEF Own
<1>12. Line(x.theirs, x.s, M, q, x.sent)
  <2>1. Unread(x.s, M, q) = Unread(x.s, L, q) /\ Flying(x.s, M, q) = Flying(x.s, L, q)
    BY <1>10 DEF Unread, Flying
  <2> QED BY <1>3, <2>1 DEF Line
<1>13. Lone(s, {}, x.s, x.ev)
  BY DEF Lone, Up
<1>14. Line(x.mine, s, M, p, x.heard)
  <2>1. Unread(s, M, p) = <<>> /\ Flying(s, M, p) = <<>>
    BY <1>2, <1>4, <1>5 DEF Unread, Flying
  <2>2. Chain(x.mine, v.s.drained, <<>>, <<>>, x.heard)
    BY <1>3, Chains DEF Line
  <2> QED BY <2>1, <2>2 DEF Line
<1>15. Sound(s, M, {}, p) /\ Sound(x.s, M, x.ev, q)
  BY <1>2, <1>7, <1>8, <1>9, <1>11 DEF Sound, Fine, q
<1> DEFINE w == [s |-> s, link |-> M]
<1>16. w.s = s /\ w.link = M /\ w = [s |-> w.s, link |-> w.link]
  OBVIOUS
<1> HIDE DEF w
<1>17. Shape(w) /\ w.s.on
  BY <1>5, <1>16 DEF Shape
<1>18. Fine(w, p, {}, x)
  BY <1>12, <1>13, <1>14, <1>15, <1>16, <1>17 DEF Fine, q
<1> QED BY <1>18 DEF w, M, L

LEMMA ConnectFine ==
  ASSUME IInv, NEW p \in Node, NEW v, Fine(v, p, {}, World(p)), NEW w \in Connect(v, p)
  PROVE  Fine(w, p, {}, World(p))
<1> DEFINE x == World(p)
<1>1. CASE ~ShouldConnect(v.s, p)
  BY <1>1 DEF Connect
<1>2. CASE ShouldConnect(v.s, p)
  <2>1. PICK l \in Unused(v.link) :
          w = [s |-> [v.s EXCEPT !.peer = [NewPeer EXCEPT !.link = l]],
               link |-> [v.link EXCEPT ![l] = Dialled(p)]]
    BY <1>2 DEF Connect, Dialled
  <2>2. l \in Handle /\ v.link[l] = NoLink /\ \A r \in Node : \A e \in Pending(r) : e.link # l
    BY DEF Unused, Pending
  <2>3. \A e \in x.ev : e.link # l
    BY <2>2, Nodes DEF World
  <2>4. Initiates(p) /\ v.s.peer.link = NoHandle
    BY <1>2 DEF ShouldConnect
  <2> DEFINE n == [NewPeer EXCEPT !.link = l]
  <2> DEFINE s == [v.s EXCEPT !.peer = n]
  <2>5. n \in Peer /\ n.link = l /\ n.known /\ ~n.connected
    <3> DEFINE o == NewPeer
    <3>1. o \in Peer /\ o.known /\ ~o.connected
      BY SessionType
    <3> HIDE DEF o
    <3>2. LET u == [o EXCEPT !.link = l] IN u \in Peer /\ u.link = l /\ u.known /\ ~u.connected
      BY <2>2, <3>1 DEF Peer
    <3> QED BY <3>2 DEF o
  <2> HIDE DEF n
  <2>6. s \in Session /\ s.on /\ s.peer = n /\ s.drained = v.s.drained
    BY <2>5, FineType DEF Session
  <2> HIDE DEF s, x
  <2>7. Fine([s |-> s, link |-> [v.link EXCEPT ![l] = Dialled(p)]], p, {}, x)
    BY <2>2, <2>3, <2>4, <2>5, <2>6, DialledFine DEF x
  <2> QED BY <2>1, <2>7 DEF s, n, x
<1> QED BY <1>1, <1>2

\* Messages are read, sent or lost: the ends of the connection stay.
WithInbox(L, l, p, b) == [L EXCEPT ![l].inbox[p] = b]

LEMMA InboxShape ==
  ASSUME NEW p \in Node, NEW L \in [Handle -> Link], NEW l \in Handle, NEW b \in Seq(Nat)
  PROVE  /\ WithInbox(L, l, p, b) \in [Handle -> Link]
         /\ WithInbox(L, l, p, b)[l].end = L[l].end
         /\ WithInbox(L, l, p, b)[l].flight = L[l].flight
         /\ WithInbox(L, l, p, b)[l].inbox[p] = b
         /\ WithInbox(L, l, p, b)[l].inbox[Other(p)] = L[l].inbox[Other(p)]
         /\ \A m \in Handle : m # l => WithInbox(L, l, p, b)[m] = L[m]
<1> DEFINE c == L[l]
<1> DEFINE d == [c EXCEPT !.inbox[p] = b]
<1> DEFINE M == WithInbox(L, l, p, b)
<1>1. Other(p) # p /\ Other(p) \in Node
  BY Nodes
<1>2. M = [L EXCEPT ![l] = d]
  BY DEF WithInbox
<1>3. c \in Link
  OBVIOUS
<1> HIDE DEF c
<1>4. d \in Link /\ d.inbox = [c.inbox EXCEPT ![p] = b] /\ d.end = c.end /\ d.flight = c.flight
      /\ c.inbox \in [Node -> Seq(Nat)]
  BY <1>3 DEF Link
<1> HIDE DEF d, M
<1>5. M \in [Handle -> Link] /\ M[l] = d /\ \A m \in Handle : m # l => M[m] = L[m]
  BY <1>2, <1>4
<1>6. d.inbox[p] = b /\ d.inbox[Other(p)] = c.inbox[Other(p)]
  BY <1>1, <1>4
<1> QED BY <1>4, <1>5, <1>6 DEF c, M

\* The peer's connection is read.
LEMMA EmptiedGood ==
  ASSUME NEW p \in Node, NEW v, NEW ev, NEW x, Fine(v, p, ev, x), NEW s \in Session,
         s.on, s.peer = v.s.peer, s.drained = <<>>
  PROVE  /\ Emptied(v, p).link \in [Handle -> Link]
         /\ x.mine \o v.s.drained \o Received(v, p) \in Seq(Nat)
         /\ Good(p, s, x.s, Emptied(v, p).link, ev, x.ev,
                 x.mine \o v.s.drained \o Received(v, p), x.theirs, x.heard, x.sent)
<1> DEFINE q == Other(p)
<1> DEFINE k == v.s.peer.link
<1> DEFINE L == v.link
<1> DEFINE M == Emptied(v, p).link
<1> DEFINE g == x.mine \o v.s.drained \o Received(v, p)
<1>1. /\ q \in Node /\ q # p /\ Other(q) = p
  BY Nodes
<1>2. /\ L \in [Handle -> Link] /\ x.s.peer.link \in Handle \cup {NoHandle} /\ ev \subseteq Event
      /\ k \in Handle \cup {NoHandle} /\ v.s.on
      /\ \A m \in Handle : L[m].inbox \in [Node -> Seq(Nat)]
  BY FineType
<1>3. /\ \A m \in Handle : At(v.s, L[m], ev, p, m) /\ At(x.s, L[m], x.ev, q, m)
      /\ Own(v.s, L, p) /\ Own(x.s, L, q) /\ Lone(v.s, ev, x.s, x.ev)
      /\ Line(x.mine, v.s, L, p, x.heard) /\ Line(x.theirs, x.s, L, q, x.sent)
  BY DEF Fine, Sound
<1>4. Chain(x.mine, v.s.drained, Unread(v.s, L, p), Flying(v.s, L, p), x.heard)
  BY <1>3 DEF Line
<1>5. /\ M \in [Handle -> Link]
      /\ \A m \in Handle : /\ M[m].end = L[m].end /\ M[m].flight = L[m].flight
                           /\ M[m].inbox[q] = L[m].inbox[q]
                           /\ L[m].end[p] \notin {"connected", "ended"} => M[m] = L[m]
      /\ Chain(g, <<>>, Unread(s, M, p), Flying(s, M, p), x.heard)
  <2>1. CASE ~v.s.peer.connected
    <3>1. M = L /\ Received(v, p) = <<>>
      BY <2>1 DEF Emptied, Received
    <3>2. Unread(s, L, p) = Unread(v.s, L, p) /\ Flying(s, L, p) = Flying(v.s, L, p)
      BY DEF Unread, Flying
    <3>3. Chain(x.mine \o v.s.drained \o <<>>, <<>>, Unread(v.s, L, p), Flying(v.s, L, p), x.heard)
      BY <1>4, Chains
    <3> HIDE DEF L, M
    <3> QED BY <1>2, <3>1, <3>2, <3>3
  <2>2. CASE v.s.peer.connected
    <3>1. k \in Handle /\ k # NoHandle /\ L[k].end[p] \in {"connected", "ended"}
      BY <1>2, <1>3, <2>2 DEF Own
    <3> DEFINE b == L[k].inbox[p]
    <3>2. b \in Seq(Nat) /\ AfterBatch(b) \in Seq(Nat)
      BY <1>2, <3>1, Batches
    <3>3. M = WithInbox(L, k, p, AfterBatch(b)) /\ Received(v, p) = FirstBatch(b)
      <4>1. Received(v, p) = FirstBatch(b)
        BY <2>2 DEF Received
      <4>2. v = [s |-> v.s, link |-> L]
        BY FineType
      <4>3. M = [v EXCEPT !.link[k].inbox[p] = AfterBatch(b)].link
        BY <2>2 DEF Emptied
      <4>4. [v EXCEPT !.link[k].inbox[p] = AfterBatch(b)] =
            [v EXCEPT !.link = WithInbox(L, k, p, AfterBatch(b))]
        BY DEF WithInbox
      <4> DEFINE W == WithInbox(L, k, p, AfterBatch(b))
      <4> HIDE DEF W
      <4>5. [v EXCEPT !.link = W].link = W
        BY <4>2
      <4> QED BY <4>1, <4>3, <4>4, <4>5 DEF W
    <3>4. Unread(v.s, L, p) = b
      BY <3>1 DEF Unread
    <3> HIDE DEF b, M, L, k, q
    <3>5. /\ M \in [Handle -> Link]
          /\ M[k].end = L[k].end /\ M[k].flight = L[k].flight
          /\ M[k].inbox[p] = AfterBatch(b) /\ M[k].inbox[q] = L[k].inbox[q]
      <4> DEFINE r == AfterBatch(b)
      <4> HIDE DEF r
      <4>1. M = WithInbox(L, k, p, r) /\ r \in Seq(Nat)
        BY <3>2, <3>3 DEF r
      <4>2. /\ M \in [Handle -> Link] /\ M[k].end = L[k].end /\ M[k].flight = L[k].flight
            /\ M[k].inbox[p] = r
        BY <1>2, <3>1, <4>1, InboxShape
      <4>3. M[k].inbox[Other(p)] = L[k].inbox[Other(p)]
        <5>1. L \in [Handle -> Link] /\ k \in Handle /\ r \in Seq(Nat)
          BY <1>2, <3>1, <4>1
        <5>2. WithInbox(L, k, p, r)[k].inbox[Other(p)] = L[k].inbox[Other(p)]
          BY <5>1, InboxShape
        <5> QED BY <4>1, <5>2
      <4>4. M[k].inbox[p] = AfterBatch(b)
        BY <4>2 DEF r
      <4>5. M[k].inbox[q] = L[k].inbox[q]
        BY <4>3 DEF q
      <4> QED BY <4>2, <4>4, <4>5
    <3>6. ASSUME NEW m \in Handle, m # k PROVE M[m] = L[m]
      BY <1>2, <3>1, <3>2, <3>3, <3>6, InboxShape
    <3>7. Unread(s, M, p) = AfterBatch(b) /\ Flying(s, M, p) = Flying(v.s, L, p)
      BY <3>1, <3>5 DEF Unread, Flying, k
    <3>8. Chain(x.mine \o v.s.drained \o FirstBatch(b), <<>>, AfterBatch(b), Flying(v.s, L, p), x.heard)
      BY <1>4, <3>4, Chains
    <3> QED BY <3>1, <3>3, <3>5, <3>6, <3>7, <3>8
  <2> QED BY <2>1, <2>2
<1> HIDE DEF q, k, L, M, g
<1>6. ASSUME NEW m \in Handle PROVE At(s, M[m], ev, p, m)
  <2>1. At(v.s, L[m], ev, p, m) /\ v.s.on
    BY <1>2, <1>3
  <2>2. At(s, L[m], ev, p, m)
    BY <2>1 DEF At
  <2>3. CASE L[m].end[p] \notin {"connected", "ended"}
    BY <1>5, <2>2, <2>3
  <2>4. CASE L[m].end[p] \in {"connected", "ended"}
    <3>1. M[m].end = L[m].end
      BY <1>5
    <3> QED BY <2>2, <2>4, <3>1 DEF At
  <2> QED BY <2>3, <2>4
<1>7. ASSUME NEW m \in Handle PROVE At(x.s, M[m], x.ev, q, m)
  <2>1. At(x.s, L[m], x.ev, q, m)
    BY <1>3
  <2>2. CASE L[m].end[p] \notin {"connected", "ended"}
    BY <1>5, <2>1, <2>2
  <2>3. CASE L[m].end[p] \in {"connected", "ended"}
    <3>1. M[m].end = L[m].end /\ M[m].flight = L[m].flight /\ M[m].inbox[q] = L[m].inbox[q]
      BY <1>5
    <3>2. L[m] # NoLink
      BY <2>3, NoLinkType
    <3> QED BY <1>1, <2>1, <2>3, <3>1, <3>2 DEF At
  <2> QED BY <2>2, <2>3
<1>8. Own(s, M, p) /\ Own(x.s, M, q)
  <2>1. \A m \in Handle : M[m].end = L[m].end
    BY <1>5
  <2> QED BY <1>2, <1>3, <2>1 DEF Own, k
<1>9. Line(x.theirs, x.s, M, q, x.sent)
  <2>1. Unread(x.s, M, q) = Unread(x.s, L, q) /\ Flying(x.s, M, q) = Flying(x.s, L, q)
    BY <1>2, <1>5 DEF Unread, Flying
  <2> QED BY <1>3, <2>1 DEF Line
<1>10. Line(g, s, M, p, x.heard)
  BY <1>5 DEF Line
<1>11. Lone(s, ev, x.s, x.ev)
  BY <1>3 DEF Lone, Up
<1>12. Sound(s, M, ev, p) /\ Sound(x.s, M, x.ev, q)
  BY <1>2, <1>6, <1>7, <1>8 DEF Sound, Fine, q
<1>13. g \in Seq(Nat)
  BY <1>5 DEF Chain
<1> QED BY <1>5, <1>9, <1>10, <1>11, <1>12, <1>13 DEF Good, g, M, q

-----------------------------------------------------------------------------
(***************************************************************************)
(* Every step keeps the invariant.                                         *)
(***************************************************************************)
LEMMA ProcessStays ==
  ASSUME IInv, NEW p \in Node, Process(p)
  PROVE  IInv'
<1> DEFINE q == Other(p)
<1> DEFINE x == World(p)
<1>1. /\ q \in Node /\ q # p
  BY Nodes
<1>2. TypeOK /\ sess[p].on
  BY DEF IInv, Process
<1>3. PICK v : /\ v \in UNION {Connect(w, p) : w \in {Settled(c, p) : c \in Callbacks(p)}}
               /\ got' = [got EXCEPT ![p] = @ \o v.s.drained \o Received(v, p)]
               /\ sess' = [sess EXCEPT ![p] = [v.s EXCEPT !.drained = <<>>]]
               /\ link' = Emptied(v, p).link
  BY DEF Process
<1>4. PICK c \in Callbacks(p) : v \in Connect(Settled(c, p), p)
  BY <1>3
<1>5. Fine(v, p, {}, x)
  <2>1. Fine(c, p, {}, x)
    BY <1>2, CallbacksFine
  <2>2. copy[p] \in SUBSET Node
    BY <1>2 DEF TypeOK
  <2>3. Fine(Settled(c, p), p, {}, x)
    BY <2>1, <2>2, SettledFine
  <2> QED BY <1>4, <2>3, ConnectFine
<1> DEFINE s == [v.s EXCEPT !.drained = <<>>]
<1>6. s \in Session /\ s.on /\ s.peer = v.s.peer /\ s.drained = <<>>
  <2>1. v.s \in Session /\ v.s.on
    BY <1>5, FineType
  <2>2. <<>> \in Seq(Nat)
    OBVIOUS
  <2> QED BY <2>1, <2>2 DEF Session
<1> DEFINE g == got[p] \o v.s.drained \o Received(v, p)
<1>7. /\ x.s = sess[q] /\ x.ev = Pending(q) /\ x.mine = got[p]
      /\ x.theirs = got[q] /\ x.sent = Sent(p) /\ x.heard = Sent(q)
  BY DEF World
<1>8. sess' = [sess EXCEPT ![p] = s] /\ got' = [got EXCEPT ![p] = g]
  BY <1>3
<1> HIDE DEF s, x, g, q
<1>9. /\ link' \in [Handle -> Link] /\ g \in Seq(Nat)
      /\ Good(p, s, sess[q], link', {}, Pending(q), g, got[q], Sent(q), Sent(p))
  <2>1. /\ Emptied(v, p).link \in [Handle -> Link]
        /\ x.mine \o v.s.drained \o Received(v, p) \in Seq(Nat)
        /\ Good(p, s, x.s, Emptied(v, p).link, {}, x.ev,
                x.mine \o v.s.drained \o Received(v, p), x.theirs, x.heard, x.sent)
    BY <1>5, <1>6, EmptiedGood
  <2> QED BY <1>3, <1>7, <2>1 DEF g
<1>10. /\ sess \in [Node -> Session] /\ got \in [Node -> Seq(Nat)] /\ events \in [Node -> Seq(Event)]
       /\ lobby \subseteq Node /\ copy \in [Node -> SUBSET Node]
       /\ used \in [What -> [Node -> Nat]]
  BY <1>2 DEF TypeOK
<1>11. /\ events' = [events EXCEPT ![p] = <<>>]
       /\ lobby' = lobby /\ copy' = copy /\ used' = used
  BY DEF Process
<1>12. /\ sess' \in [Node -> Session] /\ sess'[p] = s /\ sess'[q] = sess[q]
       /\ got' \in [Node -> Seq(Nat)] /\ got'[p] = g /\ got'[q] = got[q]
  BY <1>1, <1>6, <1>8, <1>9, <1>10
<1>13. events' \in [Node -> Seq(Event)] /\ Pending(p)' = {} /\ Pending(q)' = Pending(q)
  <2>1. events' \in [Node -> Seq(Event)] /\ events'[p] = <<>> /\ events'[q] = events[q]
    BY <1>1, <1>10, <1>11
  <2> QED BY <2>1 DEF Pending
<1>14. Sent(p)' = Sent(p) /\ Sent(q)' = Sent(q)
  BY <1>11 DEF Sent
<1>15. Good(p, sess'[p], sess'[q], link', Pending(p)', Pending(q)',
            got'[p], got'[q], Sent(q)', Sent(p)')
  BY <1>9, <1>12, <1>13, <1>14
<1> QED BY <1>9, <1>10, <1>11, <1>12, <1>13, <1>15, GoodStays DEF q

\* What PC p did to its session and the connections is fine.
LEMMA FineStays ==
  ASSUME IInv, NEW p \in Node, NEW v, NEW y, Fine(v, p, Pending(p)', y),
         sess' = [sess EXCEPT ![p] = v.s], link' = v.link, got' = got,
         lobby' \subseteq Node, copy' \in [Node -> SUBSET Node],
         events' \in [Node -> Seq(Event)], used' \in [What -> [Node -> Nat]],
         y.s = sess[Other(p)], y.ev = Pending(Other(p))', y.mine = got[p],
         y.theirs = got[Other(p)], y.sent = Sent(p)', y.heard = Sent(Other(p))'
  PROVE  IInv'
<1>1. Other(p) \in Node /\ Other(p) # p
  BY Nodes
<1>2. sess \in [Node -> Session] /\ got \in [Node -> Seq(Nat)]
  BY DEF IInv, TypeOK
<1>3. v.s \in Session /\ v.link \in [Handle -> Link]
  BY FineType
<1>4. Good(p, v.s, y.s, v.link, Pending(p)', y.ev, y.mine, y.theirs, y.heard, y.sent)
  BY FineGood
<1>5. sess' \in [Node -> Session] /\ sess'[p] = v.s /\ sess'[Other(p)] = sess[Other(p)]
  BY <1>1, <1>2, <1>3
<1>6. Good(p, sess'[p], sess'[Other(p)], link', Pending(p)', Pending(Other(p))',
           got'[p], got'[Other(p)], Sent(Other(p))', Sent(p)')
  BY <1>4, <1>5
<1> QED BY <1>2, <1>3, <1>5, <1>6, GoodStays

LEMMA WorldIs ==
  ASSUME NEW p \in Node
  PROVE  /\ World(p).s = sess[Other(p)] /\ World(p).ev = Pending(Other(p))
         /\ World(p).mine = got[p] /\ World(p).theirs = got[Other(p)]
         /\ World(p).sent = Sent(p) /\ World(p).heard = Sent(Other(p))
BY DEF World

LEMMA OffIsEmpty ==
  ASSUME IInv, NEW p \in Node, ~sess[p].on
  PROVE  sess[p] = NoSession /\ Pending(p) = {}
BY DEF IInv, Sound

LEMMA RetryDueStays ==
  ASSUME IInv, NEW p \in Node, RetryDue(p)
  PROVE  IInv'
<1> DEFINE v == View(p)
<1> DEFINE s == [sess[p] EXCEPT !.peer.retry = "due"]
<1> DEFINE y == World(p)
<1>1. TypeOK /\ sess[p] \in Session /\ sess[p].peer \in Peer
  <2>1. TypeOK /\ sess[p] \in Session
    BY DEF IInv, TypeOK
  <2> QED BY <2>1 DEF Session
<1>2. sess[p].on
  <2>1. NoSession.peer.retry = "never"
    BY DEF NoSession, NoPeer, NewPeer
  <2> QED BY <2>1, OffIsEmpty DEF RetryDue
<1>3. Fine(v, p, Pending(p), y)
  BY <1>2, IsFine
<1>4. v.s = sess[p] /\ v.link = link
  BY DEF View
<1>5. s \in Session /\ s.on /\ s.peer.link = sess[p].peer.link /\ s.drained = sess[p].drained
      /\ s.peer.connected = sess[p].peer.connected /\ s.peer.known = sess[p].peer.known
  BY <1>1, <1>2 DEF Session, Peer
<1>6. sess[p].peer.known
  <2>1. NoPeer.retry = "never"
    BY DEF NoPeer, NewPeer
  <2> QED BY <1>3, <1>4, <2>1 DEF Fine, Sound, Own, RetryDue
<1>7. sess' = [sess EXCEPT ![p] = s] /\ UNCHANGED <<lobby, copy, link, events, got, used>>
  BY DEF RetryDue
<1>8. Pending(p)' = Pending(p) /\ Pending(Other(p))' = Pending(Other(p))
      /\ Sent(p)' = Sent(p) /\ Sent(Other(p))' = Sent(Other(p))
  BY <1>7 DEF Pending, Sent
<1> HIDE DEF s, v, y
<1>9. Fine([s |-> s, link |-> link], p, Pending(p), y)
  BY <1>3, <1>4, <1>5, <1>6, AlikeFine
<1> DEFINE w == [s |-> s, link |-> link]
<1>10. w.s = s /\ w.link = link
  OBVIOUS
<1> HIDE DEF w
<1>11. Fine(w, p, Pending(p)', y)
  BY <1>8, <1>9 DEF w
<1>12. y.s = sess[Other(p)] /\ y.ev = Pending(Other(p)) /\ y.mine = got[p]
       /\ y.theirs = got[Other(p)] /\ y.sent = Sent(p) /\ y.heard = Sent(Other(p))
  BY WorldIs DEF y
<1>13. /\ lobby' \subseteq Node /\ copy' \in [Node -> SUBSET Node]
       /\ events' \in [Node -> Seq(Event)] /\ used' \in [What -> [Node -> Nat]]
  BY <1>1, <1>7 DEF TypeOK
<1> QED BY <1>7, <1>8, <1>10, <1>11, <1>12, <1>13, FineStays

\* Only the member lists, the session and the connections change.
LEMMA ViewStays ==
  ASSUME IInv, NEW p \in Node, NEW v, Fine(v, p, Pending(p), World(p)),
         sess' = [sess EXCEPT ![p] = v.s], link' = v.link,
         lobby' \subseteq Node, copy' \in [Node -> SUBSET Node],
         events' = events, got' = got, used' \in [What -> [Node -> Nat]],
         Sent(p)' = Sent(p), Sent(Other(p))' = Sent(Other(p))
  PROVE  IInv'
<1> DEFINE y == World(p)
<1>1. y.s = sess[Other(p)] /\ y.ev = Pending(Other(p)) /\ y.mine = got[p]
       /\ y.theirs = got[Other(p)] /\ y.sent = Sent(p) /\ y.heard = Sent(Other(p))
  BY WorldIs
<1>2. Pending(p)' = Pending(p) /\ Pending(Other(p))' = Pending(Other(p))
  BY DEF Pending
<1>3. events' \in [Node -> Seq(Event)]
  BY DEF IInv, TypeOK
<1>4. Fine(v, p, Pending(p)', y)
  BY <1>2
<1> HIDE DEF y
<1> QED BY <1>1, <1>2, <1>3, <1>4, FineStays

LEMMA SpentType ==
  ASSUME IInv, NEW what \in What, NEW p \in Node, Spend(what, p)
  PROVE  /\ used' \in [What -> [Node -> Nat]]
         /\ \A w \in What, r \in Node :
              used'[w][r] = IF w = what /\ r = p THEN used[w][r] + 1 ELSE used[w][r]
<1> DEFINE row == [used[what] EXCEPT ![p] = @ + 1]
<1>1. used \in [What -> [Node -> Nat]]
  BY DEF IInv, TypeOK
<1>2. used' = [used EXCEPT ![what] = row]
  BY DEF Spend
<1>3. row \in [Node -> Nat] /\ \A r \in Node : row[r] = IF r = p THEN used[what][r] + 1 ELSE used[what][r]
  BY <1>1
<1> HIDE DEF row
<1> QED BY <1>1, <1>2, <1>3

LEMMA NothingSent ==
  ASSUME IInv, NEW what \in What \ {"send", "deny"}, NEW p \in Node, Spend(what, p)
  PROVE  \A r \in Node : Sent(r)' = Sent(r)
<1>1. "send" \in What /\ "deny" \in What
  BY DEF What
<1>2. \A r \in Node : used'["send"][r] = used["send"][r] /\ used'["deny"][r] = used["deny"][r]
  BY <1>1, SpentType
<1> QED BY <1>2 DEF Sent

LEMMA PauseStays ==
  ASSUME IInv, NEW p \in Node, Pause(p)
  PROVE  IInv'
<1> DEFINE v == View(p)
<1> DEFINE s == [sess[p] EXCEPT !.paused = TRUE]
<1>1. TypeOK /\ sess[p] \in Session /\ sess[p].on
  BY DEF IInv, TypeOK, Pause
<1>2. Fine(v, p, Pending(p), World(p))
  BY <1>1, IsFine
<1>3. v.s = sess[p] /\ v.link = link
  BY DEF View
<1>4. s \in Session /\ s.on /\ s.peer = sess[p].peer /\ s.drained = sess[p].drained
  BY <1>1 DEF Session
<1>5. ~sess[p].peer.known => sess[p].peer = NoPeer
  BY <1>2, <1>3 DEF Fine, Sound, Own
<1>6. /\ sess' = [sess EXCEPT ![p] = s] /\ link' = link /\ copy' = copy
      /\ events' = events /\ got' = got /\ lobby' \in {lobby, lobby \ {p}}
  BY DEF Pause
<1> HIDE DEF s, v
<1>7. Fine([s |-> s, link |-> link], p, Pending(p), World(p))
  BY <1>2, <1>3, <1>4, <1>5, AlikeFine
<1> DEFINE w == [s |-> s, link |-> link]
<1>8. w.s = s /\ w.link = link /\ Fine(w, p, Pending(p), World(p))
  BY <1>7
<1> HIDE DEF w
<1>9. used' \in [What -> [Node -> Nat]] /\ \A r \in Node : Sent(r)' = Sent(r)
  <2>1. "outage" \in What \ {"send", "deny"} /\ Spend("outage", p)
    BY DEF What, Pause
  <2> QED BY <2>1, SpentType, NothingSent
<1>10. lobby' \subseteq Node /\ copy' \in [Node -> SUBSET Node]
  BY <1>1, <1>6 DEF TypeOK
<1>11. Sent(p)' = Sent(p) /\ Sent(Other(p))' = Sent(Other(p))
  BY <1>9, Nodes
<1> QED BY <1>6, <1>8, <1>9, <1>10, <1>11, ViewStays

LEMMA ListsType ==
  ASSUME NEW p \in Node, NEW members \in SUBSET Node, copy \in [Node -> SUBSET Node],
         copy' \in {[copy EXCEPT ![p] = c] : c \in Lists(members, p)}
  PROVE  copy' \in [Node -> SUBSET Node] /\ copy'[p] \in SUBSET Node
<1>1. PICK c \in Lists(members, p) : copy' = [copy EXCEPT ![p] = c]
  OBVIOUS
<1>2. c \in SUBSET Node
  BY DEF Lists
<1> QED BY <1>1, <1>2

LEMMA ResumeStays ==
  ASSUME IInv, NEW p \in Node, Resume(p)
  PROVE  IInv'
<1> DEFINE a == View(p)
<1> DEFINE b == [a EXCEPT !.s.paused = FALSE]
<1> DEFINE v == UpdateMembers(b, p, copy'[p])
<1> DEFINE s == [v.s EXCEPT !.peer.retry = IF @ = "never" THEN @ ELSE "due"]
<1>1. TypeOK /\ sess[p] \in Session /\ sess[p].on
  <2>1. NoSession.paused = FALSE
    BY DEF NoSession
  <2>2. sess[p].on
    BY <2>1, OffIsEmpty DEF Resume
  <2> QED BY <2>2 DEF IInv, TypeOK
<1>2. Fine(a, p, Pending(p), World(p))
  BY <1>1, IsFine
<1>3. a = [s |-> sess[p], link |-> link] /\ a.s = sess[p] /\ a.link = link
  BY DEF View
<1>4. copy' \in [Node -> SUBSET Node] /\ copy'[p] \in SUBSET Node /\ lobby' \subseteq Node
  <2>1. lobby' = lobby \cup {p} /\ copy' \in {[copy EXCEPT ![p] = c] : c \in Lists(lobby', p)}
    BY DEF Resume
  <2>2. lobby' \subseteq Node /\ copy \in [Node -> SUBSET Node]
    BY <1>1, <2>1 DEF TypeOK
  <2> QED BY <2>1, <2>2, ListsType
<1>5. Fine(b, p, Pending(p), World(p))
  <2> DEFINE t == [sess[p] EXCEPT !.paused = FALSE]
  <2>1. t \in Session /\ t.on /\ t.peer = sess[p].peer /\ t.drained = sess[p].drained
    BY <1>1 DEF Session
  <2>2. b = [s |-> t, link |-> link]
    <3>1. b = [a EXCEPT !.s = t]
      BY <1>3
    <3> HIDE DEF a, b, t
    <3> QED BY <1>3, <3>1
  <2>3. ~sess[p].peer.known => sess[p].peer = NoPeer
    BY <1>2, <1>3 DEF Fine, Sound, Own
  <2> HIDE DEF a, b, t
  <2>4. Fine([s |-> t, link |-> link], p, Pending(p), World(p))
    BY <1>2, <1>3, <2>1, <2>3, AlikeFine
  <2> QED BY <2>2, <2>4
<1> HIDE DEF b
<1>6. Fine(v, p, Pending(p), World(p))
  BY <1>4, <1>5, UpdateFine
<1>7. /\ sess' = [sess EXCEPT ![p] = s] /\ link' = v.link
      /\ UNCHANGED <<events, got, used>>
  BY DEF Resume, b
<1> HIDE DEF a, v
<1>8. v.s \in Session /\ v.s.peer \in Peer /\ v.s.on
  BY <1>6, FineType
<1>9. s \in Session /\ s.on /\ s.peer.link = v.s.peer.link /\ s.drained = v.s.drained
      /\ s.peer.connected = v.s.peer.connected /\ s.peer.known = v.s.peer.known
  BY <1>8 DEF Session, Peer
<1>10. ~s.peer.known => s.peer = NoPeer
  <2>1. ~v.s.peer.known => v.s.peer = NoPeer
    BY <1>6 DEF Fine, Sound, Own
  <2>2. NoPeer.retry = "never"
    BY DEF NoPeer, NewPeer
  <2>3. v.s.peer.retry = "never" => s.peer = v.s.peer
    BY <1>8 DEF Session, Peer
  <2> QED BY <1>9, <2>1, <2>2, <2>3
<1> HIDE DEF s
<1>11. Fine([s |-> s, link |-> v.link], p, Pending(p), World(p))
  BY <1>6, <1>9, <1>10, AlikeFine
<1> DEFINE w == [s |-> s, link |-> v.link]
<1>12. w.s = s /\ w.link = v.link /\ Fine(w, p, Pending(p), World(p))
  BY <1>11
<1> HIDE DEF w
<1>13. /\ used' \in [What -> [Node -> Nat]]
       /\ Sent(p)' = Sent(p) /\ Sent(Other(p))' = Sent(Other(p))
  BY <1>1, <1>7 DEF TypeOK, Sent
<1> QED BY <1>4, <1>7, <1>12, <1>13, ViewStays

LEMMA EnterStays ==
  ASSUME IInv, NEW p \in Node, Enter(p)
  PROVE  IInv'
<1> DEFINE t == [NoSession EXCEPT !.on = TRUE]
<1> DEFINE a == [s |-> t, link |-> link]
<1> DEFINE v == UpdateMembers(a, p, copy'[p])
<1>1. TypeOK /\ sess[p] = NoSession /\ Pending(p) = {} /\ link \in [Handle -> Link]
  BY OffIsEmpty DEF IInv, TypeOK, Enter
<1>2. Good(p, NoSession, sess[Other(p)], link, {}, Pending(Other(p)),
           got[p], got[Other(p)], Sent(Other(p)), Sent(p))
  <2>1. Good(p, sess[p], sess[Other(p)], link, Pending(p), Pending(Other(p)),
             got[p], got[Other(p)], Sent(Other(p)), Sent(p))
    BY IsGood
  <2> QED BY <1>1, <2>1
<1>3. t \in Session /\ t.on /\ t.peer = NoPeer /\ t.drained = <<>>
      /\ NoSession.peer = NoPeer /\ NoSession.drained = <<>>
  <2> DEFINE o == NoSession
  <2>1. o \in Session /\ o.peer = NoPeer /\ o.drained = <<>>
    BY SessionType
  <2> HIDE DEF o
  <2>2. LET u == [o EXCEPT !.on = TRUE] IN u \in Session /\ u.on /\ u.peer = o.peer /\ u.drained = o.drained
    BY <2>1 DEF Session
  <2> QED BY <2>1, <2>2 DEF o
<1>4. NoPeer.link = NoHandle /\ ~NoPeer.connected /\ ~NoPeer.known
  BY SessionType
<1> HIDE DEF t
<1>5. a.s = t /\ a.link = link /\ a = [s |-> a.s, link |-> a.link]
  OBVIOUS
<1> HIDE DEF a
<1>6. Fine(a, p, {}, World(p))
  <2>1. \A l \in Handle : At(NoSession, link[l], {}, p, l) => At(t, link[l], {}, p, l)
    BY <1>3 DEF At
  <2>2. Own(t, link, p)
    BY <1>3, <1>4 DEF Own
  <2>3. Sound(t, link, {}, p)
    BY <1>2, <1>3, <2>1, <2>2 DEF Good, Sound
  <2>4. Lone(t, {}, sess[Other(p)], Pending(Other(p)))
    BY <1>3, <1>4 DEF Lone, Up
  <2>5. Line(got[p], t, link, p, Sent(Other(p)))
    BY <1>2, <1>3 DEF Good, Line, Unread, Flying
  <2>6. Shape(a)
    BY <1>1, <1>3, <1>5 DEF Shape
  <2> DEFINE x == World(p)
  <2>7. x.s = sess[Other(p)] /\ x.ev = Pending(Other(p)) /\ x.mine = got[p]
         /\ x.theirs = got[Other(p)] /\ x.sent = Sent(p) /\ x.heard = Sent(Other(p))
    BY WorldIs
  <2> HIDE DEF x
  <2>8. Fine(a, p, {}, x)
    BY <1>2, <1>3, <1>5, <2>3, <2>4, <2>5, <2>6, <2>7 DEF Good, Fine
  <2> QED BY <2>8 DEF x
<1>7. copy' \in [Node -> SUBSET Node] /\ copy'[p] \in SUBSET Node /\ lobby' \subseteq Node
  <2>1. lobby' = lobby \cup {p} /\ copy' \in {[copy EXCEPT ![p] = c] : c \in Lists(lobby', p)}
    BY DEF Enter
  <2>2. lobby' \subseteq Node /\ copy \in [Node -> SUBSET Node]
    BY <1>1, <2>1 DEF TypeOK
  <2> QED BY <2>1, <2>2, ListsType
<1>8. Fine(v, p, {}, World(p))
  BY <1>6, <1>7, UpdateFine
<1>9. v.link = link
  <2>1. ~a.s.peer.known
    BY <1>3, <1>4, <1>5
  <2> DEFINE read == [a EXCEPT !.s.unsettled = FALSE]
  <2>2. /\ [a EXCEPT !.s.unsettled = TRUE].link = link
        /\ read.link = link /\ [read EXCEPT !.s.peer = NewPeer].link = link
        /\ read.s.peer = a.s.peer
    <3>1. t.peer = a.s.peer /\ t \in Session
      BY <1>3, <1>5
    <3> QED BY <1>5, <3>1 DEF Session
  <2>3. v = [a EXCEPT !.s.unsettled = TRUE] \/ v = read \/ v = [read EXCEPT !.s.peer = NewPeer]
    BY <2>1 DEF UpdateMembers
  <2> HIDE DEF v, read
  <2> QED BY <2>2, <2>3
<1>10. /\ sess' = [sess EXCEPT ![p] = v.s] /\ link' = link
       /\ events' = events /\ got' = got
  BY DEF Enter, a, t
<1>11. used' \in [What -> [Node -> Nat]] /\ \A r \in Node : Sent(r)' = Sent(r)
  <2>1. "enter" \in What \ {"send", "deny"} /\ Spend("enter", p)
    BY DEF What, Enter
  <2> QED BY <2>1, SpentType, NothingSent
<1>12. Sent(p)' = Sent(p) /\ Sent(Other(p))' = Sent(Other(p))
  BY <1>11, Nodes
<1> HIDE DEF v
<1>13. Fine(v, p, Pending(p), World(p))
  BY <1>1, <1>8
<1> QED BY <1>7, <1>9, <1>10, <1>11, <1>12, <1>13, ViewStays

LEMMA LeaveStays ==
  ASSUME IInv, NEW p \in Node, Leave(p)
  PROVE  IInv'
<1> DEFINE q == Other(p)
<1> DEFINE M == link'
<1> DEFINE t == sess[q]
<1> DEFINE ew == Pending(q)
<1>1. TypeOK /\ link \in [Handle -> Link] /\ sess \in [Node -> Session]
      /\ q \in Node /\ q # p /\ Other(q) = p /\ (Initiates(q) <=> ~Initiates(p))
  BY Nodes DEF IInv, TypeOK
<1>2. PICK linger \in BOOLEAN :
        link' = [l \in Handle |->
                   IF link[l].end[p] \in {"none", "closed"} THEN link[l]
                   ELSE CloseHandle(link, p, l, linger)[l]]
  BY DEF Leave
<1>3. ASSUME NEW l \in Handle
      PROVE  /\ link'[l] \in Link
             /\ \/ link[l].end[p] \in {"none", "closed"} /\ link'[l] = link[l]
                \/ link[l].end[p] \notin {"none", "closed"} /\ ClosedEnd(link[l], link'[l], p)
  <2>1. link[l] \in Link
    BY <1>1
  <2>2. CASE link[l].end[p] \in {"none", "closed"}
    BY <1>2, <2>1, <2>2
  <2>3. CASE link[l].end[p] \notin {"none", "closed"}
    <3>1. link'[l] = CloseHandle(link, p, l, linger)[l]
      BY <1>2, <2>3
    <3>2. /\ CloseHandle(link, p, l, linger) \in [Handle -> Link]
          /\ ClosedEnd(link[l], CloseHandle(link, p, l, linger)[l], p)
      BY <1>1, CloseShape
    <3> QED BY <2>3, <3>1, <3>2
  <2> QED BY <2>2, <2>3
<1>4. M \in [Handle -> Link]
  <2>1. \A l \in Handle : M[l] \in Link
    BY <1>3
  <2>2. M = [l \in Handle |-> M[l]]
    BY <1>2
  <2> HIDE DEF M
  <2> QED BY <2>1, <2>2
<1>5. Good(p, sess[p], t, link, Pending(p), ew, got[p], got[q], Sent(q), Sent(p))
  BY IsGood
<1>6. /\ \A l \in Handle : At(sess[p], link[l], Pending(p), p, l) /\ At(t, link[l], ew, q, l)
      /\ Own(t, link, q) /\ t \in Session /\ ew \subseteq Event
      /\ ~t.on => t = NoSession /\ ew = {}
      /\ Line(got[p], sess[p], link, p, Sent(q)) /\ Line(got[q], t, link, q, Sent(p))
  BY <1>5 DEF Good, Sound, q
<1>7. /\ NoSession \in Session /\ NoSession.peer = NoPeer /\ NoSession.drained = <<>> /\ ~NoSession.on
      /\ NoPeer.link = NoHandle /\ ~NoPeer.connected /\ ~NoPeer.known
  BY SessionType
<1>8. /\ \A n \in Node : NoLink.end[n] = "none" /\ NoLink.inbox[n] = <<>> /\ NoLink.flight[n] = <<>>
      /\ NoHandle \notin Handle
  BY NoLinkType, Handles
<1>9. sess' = [sess EXCEPT ![p] = NoSession] /\ events' = [events EXCEPT ![p] = <<>>]
      /\ lobby' = lobby \ {p} /\ copy' = [copy EXCEPT ![p] = {}] /\ got' = got /\ used' = used
  BY DEF Leave
<1> HIDE DEF M, t, ew
<1>10. ASSUME NEW l \in Handle
       PROVE  /\ M[l].end[p] \in {"none", "closed"}
              /\ M[l] = NoLink \/ M[l].end[p] = "closed" \/ M[l] = link[l]
              /\ \/ M[l] = link[l]
                 \/ M[l] = NoLink /\ link[l].end[q] \in {"none", "closed"}
                 \/ /\ link[l].end[q] \notin {"none", "closed"} /\ M[l].end[p] = "closed"
                    /\ M[l].end[q] = link[l].end[q]
                    /\ M[l].inbox[q] = link[l].inbox[q] /\ M[l].flight[q] = link[l].flight[q]
  BY <1>3, <1>8 DEF ClosedEnd, M, q
<1> HIDE DEF q
<1>11. ASSUME NEW l \in Handle PROVE At(NoSession, M[l], {}, p, l)
  <2>1. CASE M[l] = NoLink
    BY <1>1, <1>8, <2>1 DEF At, q
  <2>2. CASE M[l].end[p] = "closed"
    BY <2>2 DEF At
  <2>3. CASE M[l] = link[l] /\ M[l].end[p] = "none"
    <3>1. At(sess[p], link[l], Pending(p), p, l)
      BY <1>6
    <3> QED BY <2>3, <3>1 DEF At
  <2> QED BY <1>10, <2>1, <2>2, <2>3
<1>12. ASSUME NEW l \in Handle PROVE At(t, M[l], ew, q, l)
  <2>1. At(t, link[l], ew, q, l)
    BY <1>6
  <2>2. CASE M[l] = link[l]
    BY <2>1, <2>2
  <2>3. CASE M[l] = NoLink
    BY <1>1, <1>8, <2>3 DEF At
  <2>4. CASE /\ link[l].end[q] \notin {"none", "closed"} /\ M[l].end[p] = "closed"
             /\ M[l].end[q] = link[l].end[q]
             /\ M[l].inbox[q] = link[l].inbox[q] /\ M[l].flight[q] = link[l].flight[q]
    BY <1>1, <2>1, <2>4 DEF At
  <2> QED BY <1>10, <2>2, <2>3, <2>4
<1>13. t.peer.link # NoHandle =>
         /\ M[t.peer.link].end[q] = link[t.peer.link].end[q]
         /\ M[t.peer.link].inbox[q] = link[t.peer.link].inbox[q]
         /\ M[t.peer.link].flight[q] = link[t.peer.link].flight[q]
  <2>1. t.peer.link \in Handle \cup {NoHandle}
    BY <1>6 DEF Session, Peer
  <2>2. t.peer.link # NoHandle => link[t.peer.link].end[q] \notin {"none", "closed"}
    BY <1>6 DEF Own
  <2> QED BY <1>10, <2>1, <2>2
<1>14. Own(t, M, q)
  BY <1>6, <1>13 DEF Own
<1>15. Line(got[q], t, M, q, Sent(p))
  <2>1. Unread(t, M, q) = Unread(t, link, q) /\ Flying(t, M, q) = Flying(t, link, q)
    BY <1>13 DEF Unread, Flying
  <2> QED BY <1>6, <2>1 DEF Line
<1>16. Line(got[p], NoSession, M, p, Sent(q))
  <2>1. Unread(NoSession, M, p) = <<>> /\ Flying(NoSession, M, p) = <<>>
    BY <1>7 DEF Unread, Flying
  <2>2. Chain(got[p], <<>>, <<>>, <<>>, Sent(q))
    BY <1>6, Chains DEF Line
  <2> QED BY <1>7, <2>1, <2>2 DEF Line
<1>17. Lone(NoSession, {}, t, ew)
  BY <1>7, <1>8 DEF Lone, Up
<1>18. Sound(NoSession, M, {}, p) /\ Sound(t, M, ew, q)
  BY <1>6, <1>7, <1>11, <1>12, <1>14 DEF Sound, Own
<1>19. Good(p, NoSession, t, M, {}, ew, got[p], got[q], Sent(q), Sent(p))
  BY <1>15, <1>16, <1>17, <1>18 DEF Good, q
<1>20. sess' \in [Node -> Session] /\ sess'[p] = NoSession /\ sess'[q] = t
  BY <1>1, <1>7, <1>9 DEF t
<1>21. events' \in [Node -> Seq(Event)] /\ Pending(p)' = {} /\ Pending(q)' = ew
  <2>1. events \in [Node -> Seq(Event)]
    BY <1>1 DEF TypeOK
  <2>2. events' \in [Node -> Seq(Event)] /\ events'[p] = <<>> /\ events'[q] = events[q]
    BY <1>1, <1>9, <2>1
  <2> QED BY <2>2 DEF Pending, ew
<1>22. /\ lobby' \subseteq Node /\ copy' \in [Node -> SUBSET Node]
       /\ got' \in [Node -> Seq(Nat)] /\ used' \in [What -> [Node -> Nat]]
  BY <1>1, <1>9 DEF TypeOK
<1>23. Sent(p)' = Sent(p) /\ Sent(q)' = Sent(q)
  BY <1>9 DEF Sent
<1>24. Good(p, sess'[p], sess'[q], link', Pending(p)', Pending(q)',
            got'[p], got'[q], Sent(q)', Sent(p)')
  BY <1>9, <1>19, <1>20, <1>21, <1>23 DEF M
<1> QED BY <1>4, <1>20, <1>21, <1>22, <1>24, GoodStays DEF M, q

WithFlight(L, l, p, b) == [L EXCEPT ![l].flight[p] = b]

LEMMA FlightShape ==
  ASSUME NEW p \in Node, NEW L \in [Handle -> Link], NEW l \in Handle, NEW b \in Seq(Nat)
  PROVE  /\ WithFlight(L, l, p, b) \in [Handle -> Link]
         /\ WithFlight(L, l, p, b)[l].end = L[l].end
         /\ WithFlight(L, l, p, b)[l].inbox = L[l].inbox
         /\ WithFlight(L, l, p, b)[l].flight[p] = b
         /\ WithFlight(L, l, p, b)[l].flight[Other(p)] = L[l].flight[Other(p)]
         /\ \A m \in Handle : m # l => WithFlight(L, l, p, b)[m] = L[m]
<1> DEFINE c == L[l]
<1> DEFINE d == [c EXCEPT !.flight[p] = b]
<1> DEFINE M == WithFlight(L, l, p, b)
<1>1. Other(p) # p /\ Other(p) \in Node
  BY Nodes
<1>2. M = [L EXCEPT ![l] = d]
  BY DEF WithFlight
<1>3. c \in Link
  OBVIOUS
<1> HIDE DEF c
<1>4. d \in Link /\ d.flight = [c.flight EXCEPT ![p] = b] /\ d.end = c.end /\ d.inbox = c.inbox
      /\ c.flight \in [Node -> Seq(Nat)]
  BY <1>3 DEF Link
<1> HIDE DEF d, M
<1>5. M \in [Handle -> Link] /\ M[l] = d /\ \A m \in Handle : m # l => M[m] = L[m]
  BY <1>2, <1>4
<1>6. d.flight[p] = b /\ d.flight[Other(p)] = c.flight[Other(p)]
  BY <1>1, <1>4
<1> QED BY <1>4, <1>5, <1>6 DEF c, M

\* A message is sent; y is the rest of the world with one more message.
LEMMA SentFine ==
  ASSUME IInv, NEW p \in Node, sess[p].on, sess[p].peer.connected, NEW y,
         y.s = sess[Other(p)], y.ev = Pending(Other(p)), y.mine = got[p],
         y.theirs = got[Other(p)], y.sent = Sent(p) + 1, y.heard = Sent(Other(p))
  PROVE  Fine([s |-> sess[p], link |-> Put(p)], p, Pending(p), y)
<1> DEFINE q == Other(p)
<1> DEFINE s == sess[p]
<1> DEFINE t == sess[q]
<1> DEFINE ev == Pending(p)
<1> DEFINE ew == Pending(q)
<1> DEFINE L == link
<1> DEFINE M == Put(p)
<1> DEFINE l == s.peer.link
<1> DEFINE n == Sent(p)
<1>1. /\ q \in Node /\ q # p /\ Other(q) = p
  BY Nodes
<1>2. Good(p, s, t, L, ev, ew, got[p], got[q], Sent(q), n)
  BY IsGood
<1>3. /\ \A m \in Handle : At(s, L[m], ev, p, m) /\ At(t, L[m], ew, q, m)
      /\ Own(s, L, p) /\ Own(t, L, q) /\ s \in Session /\ t \in Session
      /\ ev \subseteq Event /\ ew \subseteq Event
      /\ ~t.on => t = NoSession /\ ew = {}
      /\ Line(got[p], s, L, p, Sent(q)) /\ Line(got[q], t, L, q, n) /\ Lone(s, ev, t, ew)
  BY <1>2 DEF Good, Sound
<1>4. /\ l \in Handle /\ l # NoHandle /\ L[l].end[p] \in {"connected", "ended"}
      /\ t.peer.link \in Handle \cup {NoHandle}
  BY <1>3 DEF Own, Session, Peer
<1>5. L \in [Handle -> Link] /\ \A m \in Handle : L[m].flight \in [Node -> Seq(Nat)]
  BY DEF IInv, TypeOK, Link
<1>6. M = IF L[l].end[p] = "connected" THEN WithFlight(L, l, q, Append(L[l].flight[q], n + 1)) ELSE L
  BY DEF Put, WithFlight
<1>7. Chain(got[q], t.drained, Unread(t, L, q), Flying(t, L, q), n)
  BY <1>3 DEF Line
<1>8. n \in Nat
  BY <1>7 DEF Chain
<1>9. s.on /\ s.peer.connected
  OBVIOUS
<1> HIDE DEF q, s, t, ev, ew, L, M, l, n
<1>10. /\ M \in [Handle -> Link]
       /\ \A m \in Handle : /\ M[m].end = L[m].end /\ M[m].inbox = L[m].inbox
                            /\ M[m].flight[p] = L[m].flight[p]
                            /\ M[m] = L[m] \/ (m = l /\ L[m].end[p] = "connected")
       /\ Chain(got[q], t.drained, Unread(t, M, q), Flying(t, M, q), n + 1)
  <2>1. CASE L[l].end[p] # "connected"
    <3>1. M = L
      BY <1>6, <2>1
    <3>2. Chain(got[q], t.drained, Unread(t, L, q), Flying(t, L, q), n + 1)
      BY <1>7, Chains
    <3>3. Chain(got[q], t.drained, Unread(t, M, q), Flying(t, M, q), n + 1)
      BY <3>1, <3>2
    <3>4. M \in [Handle -> Link]
      BY <1>5, <3>1
    <3> QED BY <3>1, <3>3, <3>4
  <2>2. CASE L[l].end[p] = "connected"
    <3> DEFINE b == Append(L[l].flight[q], n + 1)
    <3>1. b \in Seq(Nat)
      BY <1>1, <1>4, <1>5, <1>8
    <3>2. M = WithFlight(L, l, q, b)
      BY <1>6, <2>2
    <3> HIDE DEF b
    <3>3. /\ M \in [Handle -> Link] /\ M[l].end = L[l].end /\ M[l].inbox = L[l].inbox
          /\ M[l].flight[q] = b
      <4>1. /\ WithFlight(L, l, q, b) \in [Handle -> Link]
            /\ WithFlight(L, l, q, b)[l].end = L[l].end
            /\ WithFlight(L, l, q, b)[l].inbox = L[l].inbox
            /\ WithFlight(L, l, q, b)[l].flight[q] = b
        BY <1>1, <1>4, <1>5, <3>1, FlightShape
      <4> QED BY <3>2, <4>1
    <3>4. M[l].flight[p] = L[l].flight[p]
      <4>1. L \in [Handle -> Link] /\ l \in Handle /\ q \in Node
        BY <1>1, <1>4, <1>5
      <4>2. WithFlight(L, l, q, b)[l].flight[Other(q)] = L[l].flight[Other(q)]
        BY <3>1, <4>1, FlightShape
      <4> QED BY <1>1, <3>2, <4>2
    <3>5. ASSUME NEW m \in Handle, m # l PROVE M[m] = L[m]
      <4>1. WithFlight(L, l, q, b)[m] = L[m]
        BY <1>1, <1>4, <1>5, <3>1, <3>5, FlightShape
      <4> QED BY <3>2, <4>1
    <3>6. \A m \in Handle : /\ M[m].end = L[m].end /\ M[m].inbox = L[m].inbox
                            /\ M[m].flight[p] = L[m].flight[p]
                            /\ M[m] = L[m] \/ (m = l /\ L[m].end[p] = "connected")
      <4> SUFFICES ASSUME NEW m \in Handle
                   PROVE  /\ M[m].end = L[m].end /\ M[m].inbox = L[m].inbox
                          /\ M[m].flight[p] = L[m].flight[p]
                          /\ M[m] = L[m] \/ (m = l /\ L[m].end[p] = "connected")
        OBVIOUS
      <4>1. CASE m = l
        BY <2>2, <3>3, <3>4, <4>1
      <4>2. CASE m # l
        BY <3>5, <4>2
      <4> QED BY <4>1, <4>2
    <3>7. Unread(t, M, q) = Unread(t, L, q)
      BY <1>4, <3>6 DEF Unread
    <3>8. CASE t.peer.link = l /\ L[l].end[q] = "connected"
      <4>1. Flying(t, L, q) = L[l].flight[q]
        BY <1>4, <3>8 DEF Flying
      <4>2. Flying(t, M, q) = b
        BY <1>4, <3>3, <3>8 DEF Flying
      <4>3. Flying(t, M, q) = Append(Flying(t, L, q), n + 1)
        BY <4>1, <4>2 DEF b
      <4> QED BY <1>7, <3>3, <3>6, <3>7, <4>3, ChainSent
    <3>9. CASE ~(t.peer.link = l /\ L[l].end[q] = "connected")
      <4>1. Flying(t, M, q) = Flying(t, L, q)
        <5>1. CASE t.peer.link = l
          BY <1>4, <3>3, <3>9, <5>1 DEF Flying
        <5>2. CASE t.peer.link # l
          BY <1>4, <3>5, <5>2 DEF Flying
        <5> QED BY <5>1, <5>2
      <4>2. Chain(got[q], t.drained, Unread(t, L, q), Flying(t, L, q), n + 1)
        BY <1>7, Chains
      <4> QED BY <3>3, <3>6, <3>7, <4>1, <4>2
    <3> QED BY <3>8, <3>9
  <2> QED BY <2>1, <2>2
<1>11. ASSUME NEW m \in Handle PROVE At(s, M[m], ev, p, m)
  <2>1. At(s, L[m], ev, p, m)
    BY <1>3
  <2>2. CASE M[m] = L[m]
    BY <2>1, <2>2
  <2>3. CASE L[m].end[p] = "connected"
    <3>1. M[m].end = L[m].end
      BY <1>10
    <3> QED BY <2>1, <2>3, <3>1 DEF At
  <2> QED BY <1>10, <2>2, <2>3
<1>12. ASSUME NEW m \in Handle PROVE At(t, M[m], ew, q, m)
  <2>1. At(t, L[m], ew, q, m)
    BY <1>3
  <2>2. CASE M[m] = L[m]
    BY <2>1, <2>2
  <2>3. CASE L[m].end[p] = "connected"
    <3>1. M[m].end = L[m].end
      BY <1>10
    <3>2. L[m].end[q] \in {"connected", "ended", "closed"}
      BY <1>1, <2>1, <2>3 DEF At
    <3> QED BY <1>1, <2>1, <2>3, <3>1, <3>2 DEF At
  <2> QED BY <1>10, <2>2, <2>3
<1>13. Own(s, M, p) /\ Own(t, M, q)
  <2>1. \A m \in Handle : M[m].end = L[m].end
    BY <1>10
  <2>2. s.peer.link = l
    BY DEF l
  <2> QED BY <1>3, <1>4, <2>1, <2>2 DEF Own
<1>14. Line(got[p], s, M, p, Sent(q))
  <2>1. Unread(s, M, p) = Unread(s, L, p) /\ Flying(s, M, p) = Flying(s, L, p)
    BY <1>4, <1>10 DEF Unread, Flying, l
  <2> QED BY <1>3, <2>1 DEF Line
<1>15. Line(got[q], t, M, q, n + 1)
  BY <1>10 DEF Line
<1>16. Sound(s, M, ev, p) /\ Sound(t, M, ew, q)
  BY <1>3, <1>9, <1>11, <1>12, <1>13 DEF Sound
<1> DEFINE w == [s |-> s, link |-> M]
<1>17. w.s = s /\ w.link = M /\ w = [s |-> w.s, link |-> w.link]
  OBVIOUS
<1> HIDE DEF w
<1>18. Shape(w)
  BY <1>3, <1>10, <1>17 DEF Shape
<1>19. y.s = t /\ y.ev = ew /\ y.mine = got[p] /\ y.theirs = got[q] /\ y.sent = n + 1 /\ y.heard = Sent(q)
  BY DEF t, q, ew, n
<1>20. Fine(w, p, ev, y)
  BY <1>3, <1>9, <1>14, <1>15, <1>16, <1>17, <1>18, <1>19 DEF Fine, q
<1> QED BY <1>20 DEF w, s, M, ev

LEMMA OneMoreSent ==
  ASSUME IInv, NEW what \in {"send", "deny"}, NEW p \in Node, Spend(what, p)
  PROVE  /\ used' \in [What -> [Node -> Nat]]
         /\ Sent(p)' = Sent(p) + 1 /\ Sent(Other(p))' = Sent(Other(p))
<1>1. "send" \in What /\ "deny" \in What
  BY DEF What
<1>2. /\ used' \in [What -> [Node -> Nat]]
      /\ \A w \in What, r \in Node :
           used'[w][r] = IF w = what /\ r = p THEN used[w][r] + 1 ELSE used[w][r]
  BY <1>1, SpentType
<1>3. Other(p) \in Node /\ Other(p) # p
  BY Nodes
<1>4. used'["send"][Other(p)] = used["send"][Other(p)] /\ used'["deny"][Other(p)] = used["deny"][Other(p)]
  BY <1>1, <1>2, <1>3
<1>5. used["send"][p] \in Nat /\ used["deny"][p] \in Nat
  BY <1>1 DEF IInv, TypeOK
<1>6. used'["send"][p] + used'["deny"][p] = used["send"][p] + used["deny"][p] + 1
  <2>1. CASE what = "send"
    <3>1. used'["send"][p] = used["send"][p] + 1 /\ used'["deny"][p] = used["deny"][p]
      BY <1>1, <1>2, <2>1
    <3> QED BY <1>5, <3>1
  <2>2. CASE what = "deny"
    <3>1. used'["deny"][p] = used["deny"][p] + 1 /\ used'["send"][p] = used["send"][p]
      BY <1>1, <1>2, <2>2
    <3> QED BY <1>5, <3>1
  <2> QED BY <2>1, <2>2
<1> QED BY <1>2, <1>4, <1>6 DEF Sent

LEMMA SentOrDenied ==
  ASSUME IInv, NEW p \in Node, Send(p) \/ Deny(p)
  PROVE  IInv'
<1> DEFINE y == [s |-> sess[Other(p)], ev |-> Pending(Other(p)), mine |-> got[p],
                 theirs |-> got[Other(p)], sent |-> Sent(p) + 1, heard |-> Sent(Other(p))]
<1>1. y.s = sess[Other(p)] /\ y.ev = Pending(Other(p)) /\ y.mine = got[p]
      /\ y.theirs = got[Other(p)] /\ y.sent = Sent(p) + 1 /\ y.heard = Sent(Other(p))
  OBVIOUS
<1> HIDE DEF y
<1>2. sess[p].on /\ sess[p].peer.connected
  BY DEF Send, Deny
<1> DEFINE v == [s |-> sess[p], link |-> Put(p)]
<1>3. Fine(v, p, Pending(p), y)
  BY <1>1, <1>2, SentFine
<1>4. v.s = sess[p] /\ v.link = Put(p)
  OBVIOUS
<1>5. UNCHANGED <<lobby, copy, events, got>>
  BY DEF Send, Deny
<1>6. /\ Pending(p)' = Pending(p) /\ Pending(Other(p))' = Pending(Other(p))
      /\ lobby' \subseteq Node /\ copy' \in [Node -> SUBSET Node]
      /\ events' \in [Node -> Seq(Event)] /\ sess \in [Node -> Session]
  BY <1>5 DEF Pending, IInv, TypeOK
<1>7. CASE Send(p)
  <2>1. Spend("send", p)
    BY <1>7 DEF Send
  <2>2. /\ used' \in [What -> [Node -> Nat]]
        /\ Sent(p)' = Sent(p) + 1 /\ Sent(Other(p))' = Sent(Other(p))
    BY <2>1, OneMoreSent
  <2>3. sess' = sess /\ link' = Put(p)
    BY <1>7 DEF Send
  <2> HIDE DEF v
  <2>4. sess' = [sess EXCEPT ![p] = v.s] /\ link' = v.link
    BY <1>4, <1>6, <2>3
  <2>5. Fine(v, p, Pending(p)', y)
    BY <1>3, <1>6
  <2>6. y.ev = Pending(Other(p))' /\ y.sent = Sent(p)' /\ y.heard = Sent(Other(p))'
    BY <1>1, <1>6, <2>2
  <2> QED BY <1>1, <1>5, <1>6, <2>2, <2>4, <2>5, <2>6, FineStays
<1>8. CASE Deny(p)
  <2> DEFINE c == Close(v, p, TRUE)
  <2>1. Spend("deny", p)
    BY <1>8 DEF Deny
  <2>2. /\ used' \in [What -> [Node -> Nat]]
        /\ Sent(p)' = Sent(p) + 1 /\ Sent(Other(p))' = Sent(Other(p))
    BY <2>1, OneMoreSent
  <2>3. sess' = [sess EXCEPT ![p] = c.s] /\ link' = c.link
    BY <1>8 DEF Deny
  <2>4. v.s.peer.known
    <3> HIDE DEF v
    <3> QED BY <1>2, <1>3, <1>4, SessionType DEF Fine, Sound, Own
  <2> HIDE DEF v
  <2>5. Fine(c, p, Pending(p), y)
    BY <1>3, <2>4, CloseFine
  <2> HIDE DEF c
  <2>6. Fine(c, p, Pending(p)', y)
    BY <1>6, <2>5
  <2>7. y.ev = Pending(Other(p))' /\ y.sent = Sent(p)' /\ y.heard = Sent(Other(p))'
    BY <1>1, <1>6, <2>2
  <2> QED BY <1>1, <1>5, <1>6, <2>2, <2>3, <2>6, <2>7, FineStays
<1> QED BY <1>7, <1>8

\* A callback is posted.
LEMMA Posted ==
  ASSUME NEW s \in Seq(Event), NEW e \in Event
  PROVE  /\ Append(s, e) \in Seq(Event)
         /\ {Append(s, e)[i] : i \in DOMAIN Append(s, e)} = {s[i] : i \in DOMAIN s} \cup {e}
<1> DEFINE a == Append(s, e)
<1>1. /\ a \in Seq(Event) /\ Len(s) \in Nat /\ DOMAIN s = 1..Len(s) /\ DOMAIN a = 1..(Len(s) + 1)
      /\ a[Len(s) + 1] = e /\ \A i \in 1..Len(s) : a[i] = s[i]
  OBVIOUS
<1> HIDE DEF a
<1>2. \A i \in DOMAIN a : i \in DOMAIN s \/ i = Len(s) + 1
  BY <1>1
<1>3. \A i \in DOMAIN s : i \in DOMAIN a /\ a[i] = s[i]
  BY <1>1
<1>4. Len(s) + 1 \in DOMAIN a
  BY <1>1
<1>5. {a[i] : i \in DOMAIN a} \subseteq {s[i] : i \in DOMAIN s} \cup {e}
  BY <1>1, <1>2, <1>3
<1>6. {s[i] : i \in DOMAIN s} \subseteq {a[i] : i \in DOMAIN a}
  BY <1>3
<1>7. e \in {a[i] : i \in DOMAIN a}
  BY <1>1, <1>4
<1> QED BY <1>1, <1>5, <1>6, <1>7 DEF a

LEMMA PostPending ==
  ASSUME IInv, NEW p \in Node, NEW kind, NEW l, Ev(kind, l) \in Event, Post(p, kind, l)
  PROVE  /\ events' \in [Node -> Seq(Event)]
         /\ Pending(p)' = Pending(p) \cup {Ev(kind, l)}
         /\ Pending(Other(p))' = Pending(Other(p))
<1>1. Other(p) \in Node /\ Other(p) # p
  BY Nodes
<1>2. events \in [Node -> Seq(Event)]
  BY DEF IInv, TypeOK
<1>3. events' = [events EXCEPT ![p] = Append(@, Ev(kind, l))]
  BY DEF Post, Ev
<1> DEFINE e == Ev(kind, l)
<1> DEFINE a == Append(events[p], e)
<1> HIDE DEF e
<1>4. a \in Seq(Event) /\ {a[i] : i \in DOMAIN a} = {events[p][i] : i \in DOMAIN events[p]} \cup {e}
  <2>1. events[p] \in Seq(Event) /\ e \in Event
    BY <1>2 DEF e
  <2> QED BY <2>1, Posted, Zenon
<1>5. events' = [events EXCEPT ![p] = a]
  BY <1>3 DEF e
<1> HIDE DEF a
<1>6. events' \in [Node -> Seq(Event)] /\ events'[p] = a /\ events'[Other(p)] = events[Other(p)]
  BY <1>1, <1>2, <1>4, <1>5
<1> QED BY <1>4, <1>6 DEF Pending, e

LEMMA SteamStays ==
  ASSUME IInv, NEW p \in Node, sess' = sess, got' = got,
         lobby' \subseteq Node, copy' \in [Node -> SUBSET Node],
         link' \in [Handle -> Link], events' \in [Node -> Seq(Event)],
         used' \in [What -> [Node -> Nat]],
         Sent(p)' = Sent(p), Sent(Other(p))' = Sent(Other(p)),
         Good(p, sess[p], sess[Other(p)], link', Pending(p)', Pending(Other(p))',
              got[p], got[Other(p)], Sent(Other(p)), Sent(p))
  PROVE  IInv'
<1>1. sess' \in [Node -> Session] /\ got' \in [Node -> Seq(Nat)]
  BY DEF IInv, TypeOK
<1>2. Good(p, sess'[p], sess'[Other(p)], link', Pending(p)', Pending(Other(p))',
           got'[p], got'[Other(p)], Sent(Other(p))', Sent(p)')
  OBVIOUS
<1> QED BY <1>1, <1>2, GoodStays

LEMMA RenewStays ==
  ASSUME IInv, NEW p \in Node, Renew(p)
  PROVE  IInv'
<1> DEFINE q == Other(p)
<1>1. TypeOK /\ sess[p].on
  BY DEF IInv, Renew
<1>2. UNCHANGED <<lobby, sess, link, got, used>>
  BY DEF Renew
<1>3. LobbyUpdate = Ev("lobby", NoHandle) /\ LobbyUpdate \in Event
  BY EventType DEF Ev, LobbyUpdate
<1>4. /\ events' \in [Node -> Seq(Event)]
      /\ Pending(p)' = Pending(p) \cup {LobbyUpdate} /\ Pending(q)' = Pending(q)
  <2>1. Post(p, "lobby", NoHandle)
    BY DEF Renew
  <2> QED BY <1>3, <2>1, PostPending
<1>5. copy' \in [Node -> SUBSET Node]
  <2>1. copy' \in {[copy EXCEPT ![p] = c] : c \in Lists(lobby, p)}
    BY DEF Renew
  <2>2. lobby \in SUBSET Node /\ copy \in [Node -> SUBSET Node]
    BY <1>1 DEF TypeOK
  <2> QED BY <2>1, <2>2, ListsType
<1> DEFINE ev == Pending(p)
<1> DEFINE fv == Pending(p)'
<1>6. Good(p, sess[p], sess[q], link, ev, Pending(q), got[p], got[q], Sent(q), Sent(p))
  BY IsGood
<1>7. /\ \A l \in Handle : Ev("incoming", l) # LobbyUpdate /\ Ev("connected", l) # LobbyUpdate
                           /\ Ev("ended", l) # LobbyUpdate /\ LobbyUpdate.link # l
  <2>1. LobbyUpdate.kind = "lobby" /\ LobbyUpdate.link = NoHandle
    BY DEF LobbyUpdate
  <2> QED BY <2>1, Handles, EventType
<1>8. fv = ev \cup {LobbyUpdate}
  BY <1>4
<1> HIDE DEF ev, fv, q
<1>9. ASSUME NEW l \in Handle PROVE At(sess[p], link[l], fv, p, l)
  <2>1. At(sess[p], link[l], ev, p, l)
    BY <1>6 DEF Good, Sound
  <2>2. Ev("incoming", l) \in ev => Ev("incoming", l) \in fv
    BY <1>8
  <2>3. Ev("connected", l) \notin ev => Ev("connected", l) \notin fv
    BY <1>7, <1>8
  <2>4. Ev("ended", l) \in ev => Ev("ended", l) \in fv
    BY <1>8
  <2>5. (\A e \in ev : e.link # l) => \A e \in fv : e.link # l
    BY <1>7, <1>8
  <2> QED BY <2>1, <2>2, <2>3, <2>4, <2>5 DEF At
<1>10. Lone(sess[p], fv, sess[q], Pending(q))
  <2>1. \A l \in Handle : Ev("connected", l) \in fv => Ev("connected", l) \in ev
    BY <1>7, <1>8
  <2> QED BY <1>6, <2>1 DEF Good, Lone, Up
<1>11. Sound(sess[p], link, fv, p)
  BY <1>1, <1>3, <1>6, <1>8, <1>9 DEF Good, Sound
<1>12. Good(p, sess[p], sess[q], link, fv, Pending(q), got[p], got[q], Sent(q), Sent(p))
  BY <1>6, <1>10, <1>11 DEF Good, q
<1>13. Good(p, sess[p], sess[q], link', Pending(p)', Pending(q)', got[p], got[q], Sent(q), Sent(p))
  BY <1>2, <1>4, <1>12 DEF fv
<1>14. /\ lobby' \subseteq Node /\ link' \in [Handle -> Link] /\ used' \in [What -> [Node -> Nat]]
       /\ Sent(p)' = Sent(p) /\ Sent(q)' = Sent(q)
  BY <1>1, <1>2 DEF TypeOK, Sent
<1> QED BY <1>2, <1>4, <1>5, <1>13, <1>14, SteamStays DEF q

LEMMA SettleStays ==
  ASSUME IInv, NEW p \in Node, Settle(p)
  PROVE  IInv'
<1>1. /\ UNCHANGED <<lobby, sess, link, events, got, used>> /\ copy' = [copy EXCEPT ![p] = lobby]
  BY DEF Settle
<1>2. TypeOK'
  BY <1>1 DEF IInv, TypeOK
<1>3. \A r \in Node : Pending(r)' = Pending(r) /\ Sent(r)' = Sent(r)
  BY <1>1 DEF Pending, Sent
<1> QED BY <1>1, <1>2, <1>3, Nodes DEF IInv

\* A callback about another connection changes nothing for this one.
LEMMA MoreCallbacks ==
  ASSUME NEW p, NEW s, NEW c, NEW ev, NEW m, At(s, c, ev, p, m), NEW e, e.link # m
  PROVE  At(s, c, ev \cup {e}, p, m)
<1>1. Ev("connected", m) # e /\ Ev("connected", m).link = m
  BY DEF Ev
<1> DEFINE fv == ev \cup {e}
<1>2. /\ Ev("incoming", m) \in ev => Ev("incoming", m) \in fv
      /\ Ev("connected", m) \notin ev => Ev("connected", m) \notin fv
      /\ Ev("ended", m) \in ev => Ev("ended", m) \in fv
      /\ (\A f \in ev : f.link # m) => \A f \in fv : f.link # m
  BY <1>1
<1> HIDE DEF fv
<1>3. At(s, c, fv, p, m)
  BY <1>2 DEF At
<1> QED BY <1>3 DEF fv

LEMMA IncomingStays ==
  ASSUME IInv, NEW p \in Node, NEW l \in Handle, Incoming(l, p)
  PROVE  IInv'
<1> DEFINE q == Other(p)
<1> DEFINE s == sess[p]
<1> DEFINE t == sess[q]
<1> DEFINE ev == Pending(p)
<1> DEFINE ew == Pending(q)
<1> DEFINE L == link
<1> DEFINE M == WithEnd(L, l, p, "connecting")
<1> DEFINE e == Ev("incoming", l)
<1> DEFINE fv == ev \cup {e}
<1>1. /\ q \in Node /\ q # p /\ Other(q) = p /\ (Initiates(q) <=> ~Initiates(p))
  BY Nodes
<1>2. /\ L[l].end[p] = "none" /\ L[l].end[q] = "connecting" /\ s.on /\ link' = M
      /\ Post(p, "incoming", l) /\ UNCHANGED <<lobby, copy, sess, got, used>>
  BY DEF Incoming, WithEnd
<1>3. Good(p, s, t, L, ev, ew, got[p], got[q], Sent(q), Sent(p)) /\ L \in [Handle -> Link]
  BY IsGood DEF IInv, TypeOK
<1>4. e \in Event /\ e.link = l /\ e.kind = "incoming" /\ "connecting" \in End /\ NoHandle \notin Handle
  BY EventType, Handles DEF End
<1>5. events' \in [Node -> Seq(Event)] /\ Pending(p)' = fv /\ Pending(q)' = ew
  BY <1>2, <1>4, PostPending
<1>6. M \in [Handle -> Link] /\ EndSet(L[l], M[l], p, "connecting")
  <2>1. WithEnd(L, l, p, "connecting") \in [Handle -> Link]
    BY <1>3, <1>4, EndShape
  <2>2. EndSet(L[l], WithEnd(L, l, p, "connecting")[l], p, "connecting")
    BY <1>3, <1>4, EndShape
  <2> QED BY <2>1, <2>2
<1>7. ASSUME NEW m \in Handle, m # l PROVE M[m] = L[m]
  BY <1>3, <1>4, <1>7, EndShape
<1>8. /\ M[l].end[p] = "connecting" /\ M[l].end[q] = L[l].end[q]
      /\ M[l].inbox = L[l].inbox /\ M[l].flight = L[l].flight
  <2> HIDE DEF M, L
  <2> QED BY <1>6 DEF EndSet
<1>9. /\ \A m \in Handle : At(s, L[m], ev, p, m) /\ At(t, L[m], ew, q, m)
      /\ Own(s, L, p) /\ Own(t, L, q) /\ s \in Session /\ t \in Session
      /\ ev \subseteq Event /\ ew \subseteq Event
      /\ ~t.on => t = NoSession /\ ew = {}
      /\ Line(got[p], s, L, p, Sent(q)) /\ Line(got[q], t, L, q, Sent(p)) /\ Lone(s, ev, t, ew)
  BY <1>3 DEF Good, Sound
<1> HIDE DEF q, s, t, ev, ew, L, M, e
<1>10. L[l] # NoLink /\ s.peer.link # l
  BY <1>1, <1>2, <1>4, <1>9, NoLinkType DEF Own
<1>11. /\ At(s, L[l], ev, p, l) /\ At(t, L[l], ew, q, l)
       /\ ~Initiates(p) /\ \A f \in ev : f.link # l
  <2>1. At(s, L[l], ev, p, l) /\ At(t, L[l], ew, q, l)
    BY <1>9
  <2> QED BY <1>2, <1>10, <2>1 DEF At, q
<1>12. ASSUME NEW m \in Handle PROVE At(s, M[m], fv, p, m)
  <2>1. CASE m = l
    <3>1. Ev("incoming", l) \in fv
      BY DEF e
    <3>2. Ev("connected", l) \notin fv
      BY <1>4, <1>11 DEF Ev
    <3>3. M[l].inbox[p] = <<>> /\ M[l].flight[p] = <<>>
      BY <1>2, <1>8, <1>11 DEF At
    <3> HIDE DEF fv
    <3> QED BY <1>2, <1>8, <1>10, <1>11, <2>1, <3>1, <3>2, <3>3 DEF At, q
  <2>2. CASE m # l
    <3>1. At(s, L[m], fv, p, m)
      BY <1>4, <1>9, <2>2, MoreCallbacks
    <3> QED BY <1>7, <2>2, <3>1
  <2> QED BY <2>1, <2>2
<1>13. ASSUME NEW m \in Handle PROVE At(t, M[m], ew, q, m)
  <2>1. CASE m = l
    BY <1>1, <1>2, <1>8, <1>11, <2>1 DEF At
  <2>2. CASE m # l
    BY <1>7, <1>9, <2>2
  <2> QED BY <2>1, <2>2
<1>14. t.peer.link \in Handle \cup {NoHandle} /\ s.peer.link \in Handle \cup {NoHandle}
  BY <1>9 DEF Session, Peer
<1>15. /\ s.peer.link # NoHandle => M[s.peer.link] = L[s.peer.link]
       /\ t.peer.link # NoHandle => /\ M[t.peer.link].end[q] = L[t.peer.link].end[q]
                                    /\ M[t.peer.link].inbox = L[t.peer.link].inbox
                                    /\ M[t.peer.link].flight = L[t.peer.link].flight
  BY <1>7, <1>8, <1>10, <1>14
<1>16. Own(s, M, p) /\ Own(t, M, q)
  BY <1>9, <1>15 DEF Own
<1>17. Line(got[p], s, M, p, Sent(q)) /\ Line(got[q], t, M, q, Sent(p))
  <2>1. Unread(s, M, p) = Unread(s, L, p) /\ Flying(s, M, p) = Flying(s, L, p)
    BY <1>15 DEF Unread, Flying
  <2>2. Unread(t, M, q) = Unread(t, L, q) /\ Flying(t, M, q) = Flying(t, L, q)
    BY <1>15 DEF Unread, Flying
  <2> QED BY <1>9, <2>1, <2>2 DEF Line
<1>18. Lone(s, fv, t, ew)
  <2>1. \A m \in Handle : Ev("connected", m) \in fv => Ev("connected", m) \in ev
    BY <1>4, EventType
  <2> HIDE DEF fv
  <2> QED BY <1>9, <2>1 DEF Lone, Up
<1>19. fv \subseteq Event
  BY <1>4, <1>9
<1> HIDE DEF fv
<1>20. Sound(s, M, fv, p) /\ Sound(t, M, ew, q)
  BY <1>2, <1>9, <1>12, <1>13, <1>16, <1>19 DEF Sound
<1>21. Good(p, s, t, M, fv, ew, got[p], got[q], Sent(q), Sent(p))
  BY <1>17, <1>18, <1>20 DEF Good, q
<1>22. /\ lobby' \subseteq Node /\ copy' \in [Node -> SUBSET Node]
       /\ used' \in [What -> [Node -> Nat]] /\ Sent(p)' = Sent(p) /\ Sent(q)' = Sent(q)
  BY <1>2 DEF IInv, TypeOK, Sent
<1>23. Good(p, sess[p], sess[Other(p)], link', Pending(p)', Pending(Other(p))',
            got[p], got[Other(p)], Sent(Other(p)), Sent(p))
  BY <1>2, <1>5, <1>21 DEF s, t, q
<1>24. link' \in [Handle -> Link]
  BY <1>2, <1>6
<1> QED BY <1>2, <1>5, <1>22, <1>23, <1>24, SteamStays DEF q

\* A connection ends at p: what was on its way to p is lost.
WithEnded(L, l, p) == [L EXCEPT ![l].end[p] = "ended", ![l].flight[p] = <<>>]

LEMMA EndedShape ==
  ASSUME NEW p \in Node, NEW L \in [Handle -> Link], NEW l \in Handle
  PROVE  /\ WithEnded(L, l, p) \in [Handle -> Link]
         /\ WithEnded(L, l, p)[l].end[p] = "ended"
         /\ WithEnded(L, l, p)[l].end[Other(p)] = L[l].end[Other(p)]
         /\ WithEnded(L, l, p)[l].inbox = L[l].inbox
         /\ WithEnded(L, l, p)[l].flight[Other(p)] = L[l].flight[Other(p)]
         /\ \A m \in Handle : m # l => WithEnded(L, l, p)[m] = L[m]
<1> DEFINE c == L[l]
<1> DEFINE d == [c EXCEPT !.end[p] = "ended", !.flight[p] = <<>>]
<1> DEFINE M == WithEnded(L, l, p)
<1>1. Other(p) # p /\ Other(p) \in Node /\ "ended" \in End /\ <<>> \in Seq(Nat)
  BY Nodes DEF End
<1>2. M = [L EXCEPT ![l] = d]
  BY DEF WithEnded
<1>3. c \in Link
  OBVIOUS
<1> HIDE DEF c
<1>4. /\ d.flight = [c.flight EXCEPT ![p] = <<>>] /\ d.end = [c.end EXCEPT ![p] = "ended"]
      /\ d.inbox = c.inbox /\ d.linger = c.linger
      /\ c.flight \in [Node -> Seq(Nat)] /\ c.end \in [Node -> End]
      /\ c.inbox \in [Node -> Seq(Nat)] /\ c.linger \in SUBSET Node
      /\ d \in [end : {d.end}, linger : {d.linger}, flight : {d.flight}, inbox : {d.inbox}]
  BY <1>3 DEF Link
<1> HIDE DEF d, M
<1>5. d \in Link
  <2>1. d.flight \in [Node -> Seq(Nat)] /\ d.end \in [Node -> End]
    BY <1>1, <1>4
  <2> QED BY <1>4, <2>1 DEF Link
<1>6. M \in [Handle -> Link] /\ M[l] = d /\ \A m \in Handle : m # l => M[m] = L[m]
  BY <1>2, <1>5
<1>7. d.end[p] = "ended" /\ d.end[Other(p)] = c.end[Other(p)] /\ d.flight[Other(p)] = c.flight[Other(p)]
  BY <1>1, <1>4
<1> QED BY <1>4, <1>6, <1>7 DEF c, M

LEMMA EndsStay ==
  ASSUME IInv, NEW p \in Node, NEW l \in Handle, link[l].end[p] \in Live, Ends(l, p),
         used' \in [What -> [Node -> Nat]], \A r \in Node : Sent(r)' = Sent(r)
  PROVE  IInv'
<1> DEFINE q == Other(p)
<1> DEFINE s == sess[p]
<1> DEFINE t == sess[q]
<1> DEFINE ev == Pending(p)
<1> DEFINE ew == Pending(q)
<1> DEFINE L == link
<1> DEFINE M == WithEnded(L, l, p)
<1> DEFINE e == Ev("ended", l)
<1> DEFINE fv == ev \cup {e}
<1>1. /\ q \in Node /\ q # p /\ Other(q) = p /\ (Initiates(q) <=> ~Initiates(p))
  BY Nodes
<1>2. /\ L[l].end[p] \in {"connecting", "accepted", "connected"} /\ link' = M
      /\ Post(p, "ended", l) /\ UNCHANGED <<lobby, copy, sess, got>>
  BY DEF Ends, WithEnded, Live
<1>3. Good(p, s, t, L, ev, ew, got[p], got[q], Sent(q), Sent(p)) /\ L \in [Handle -> Link]
  BY IsGood DEF IInv, TypeOK
<1>4. e \in Event /\ e.link = l /\ e.kind = "ended" /\ NoHandle \notin Handle
  BY EventType, Handles
<1>5. events' \in [Node -> Seq(Event)] /\ Pending(p)' = fv /\ Pending(q)' = ew
  BY <1>2, <1>4, PostPending
<1>6. /\ M \in [Handle -> Link] /\ M[l].end[p] = "ended" /\ M[l].inbox = L[l].inbox
  BY <1>3, EndedShape
<1>7. M[l].end[q] = L[l].end[q]
  BY <1>3, EndedShape
<1>8. M[l].flight[q] = L[l].flight[q]
  BY <1>3, EndedShape
<1>9. ASSUME NEW m \in Handle, m # l PROVE M[m] = L[m]
  BY <1>3, <1>9, EndedShape
<1>10. /\ \A m \in Handle : At(s, L[m], ev, p, m) /\ At(t, L[m], ew, q, m)
       /\ Own(s, L, p) /\ Own(t, L, q) /\ s \in Session /\ t \in Session
       /\ ev \subseteq Event /\ ew \subseteq Event
       /\ ~s.on => s = NoSession /\ ev = {}
       /\ ~t.on => t = NoSession /\ ew = {}
       /\ Line(got[p], s, L, p, Sent(q)) /\ Line(got[q], t, L, q, Sent(p)) /\ Lone(s, ev, t, ew)
  BY <1>3 DEF Good, Sound
<1> HIDE DEF q, s, t, ev, ew, L, M, e
<1>11. L[l] # NoLink
  BY <1>2, NoLinkType
<1>12. At(s, L[l], ev, p, l) /\ At(t, L[l], ew, q, l) /\ s.on
  <2>1. At(s, L[l], ev, p, l) /\ At(t, L[l], ew, q, l)
    BY <1>10
  <2>2. s.on \/ Ev("incoming", l) \in ev
    BY <1>2, <2>1 DEF At
  <2> QED BY <1>10, <2>1, <2>2
<1>13. ASSUME NEW m \in Handle PROVE At(s, M[m], fv, p, m)
  <2>1. CASE m = l
    <3>1. Ev("ended", l) \in fv
      BY DEF e
    <3> HIDE DEF fv
    <3> QED BY <1>6, <2>1, <3>1 DEF At
  <2>2. CASE m # l
    <3>1. At(s, L[m], fv, p, m)
      BY <1>4, <1>10, <2>2, MoreCallbacks
    <3> QED BY <1>9, <2>2, <3>1
  <2> QED BY <2>1, <2>2
<1>14. ASSUME NEW m \in Handle PROVE At(t, M[m], ew, q, m)
  <2>1. CASE m = l
    BY <1>1, <1>6, <1>7, <1>8, <1>11, <1>12, <2>1 DEF At
  <2>2. CASE m # l
    BY <1>9, <1>10, <2>2
  <2> QED BY <2>1, <2>2
<1>15. t.peer.link \in Handle \cup {NoHandle} /\ s.peer.link \in Handle \cup {NoHandle}
  BY <1>10 DEF Session, Peer
<1>16. Own(s, M, p)
  <2>1. CASE s.peer.link = l
    BY <1>6, <1>10, <2>1 DEF Own
  <2>2. CASE s.peer.link # l
    <3>1. s.peer.link # NoHandle => M[s.peer.link] = L[s.peer.link]
      BY <1>9, <1>15, <2>2
    <3> QED BY <1>10, <3>1 DEF Own
  <2> QED BY <2>1, <2>2
<1>17. t.peer.link # NoHandle => /\ M[t.peer.link].end[q] = L[t.peer.link].end[q]
                                 /\ M[t.peer.link].inbox[q] = L[t.peer.link].inbox[q]
                                 /\ M[t.peer.link].flight[q] = L[t.peer.link].flight[q]
  BY <1>6, <1>7, <1>8, <1>9, <1>15
<1>18. Own(t, M, q)
  BY <1>10, <1>17 DEF Own
<1>19. Line(got[q], t, M, q, Sent(p))
  <2>1. Unread(t, M, q) = Unread(t, L, q) /\ Flying(t, M, q) = Flying(t, L, q)
    BY <1>17 DEF Unread, Flying
  <2> QED BY <1>10, <2>1 DEF Line
<1>20. Line(got[p], s, M, p, Sent(q))
  <2>1. Chain(got[p], s.drained, Unread(s, L, p), Flying(s, L, p), Sent(q))
    BY <1>10 DEF Line
  <2>2. Chain(got[p], s.drained, Unread(s, L, p), <<>>, Sent(q))
    BY <2>1, Chains
  <2>3. CASE s.peer.link = l
    <3>1. Unread(s, M, p) = Unread(s, L, p) /\ Flying(s, M, p) = <<>>
      BY <1>6, <2>3 DEF Unread, Flying
    <3> QED BY <2>2, <3>1 DEF Line
  <2>4. CASE s.peer.link # l
    <3>1. s.peer.link # NoHandle => M[s.peer.link] = L[s.peer.link]
      BY <1>9, <1>15, <2>4
    <3>2. Unread(s, M, p) = Unread(s, L, p) /\ Flying(s, M, p) = Flying(s, L, p)
      BY <3>1 DEF Unread, Flying
    <3> QED BY <2>1, <3>2 DEF Line
  <2> QED BY <2>3, <2>4
<1>21. Lone(s, fv, t, ew)
  <2>1. \A m \in Handle : Ev("connected", m) \in fv => Ev("connected", m) \in ev
    BY <1>4, EventType
  <2> HIDE DEF fv
  <2> QED BY <1>10, <2>1 DEF Lone, Up
<1>22. fv \subseteq Event
  BY <1>4, <1>10
<1> HIDE DEF fv
<1>23. Sound(s, M, fv, p) /\ Sound(t, M, ew, q)
  BY <1>10, <1>12, <1>13, <1>14, <1>16, <1>18, <1>22 DEF Sound
<1>24. Good(p, s, t, M, fv, ew, got[p], got[q], Sent(q), Sent(p))
  BY <1>19, <1>20, <1>21, <1>23 DEF Good, q
<1>25. /\ lobby' \subseteq Node /\ copy' \in [Node -> SUBSET Node]
       /\ Sent(p)' = Sent(p) /\ Sent(q)' = Sent(q)
  BY <1>1, <1>2 DEF IInv, TypeOK
<1>26. Good(p, sess[p], sess[Other(p)], link', Pending(p)', Pending(Other(p))',
            got[p], got[Other(p)], Sent(Other(p)), Sent(p))
  BY <1>2, <1>5, <1>24 DEF s, t, q
<1>27. link' \in [Handle -> Link]
  BY <1>2, <1>6
<1> QED BY <1>2, <1>5, <1>25, <1>26, <1>27, SteamStays DEF q

\* What it means for one of the two PCs that their connection is established.
LEMMA EstablishedSide ==
  ASSUME NEW p \in Node, NEW s, NEW L, NEW M, NEW ev, Sound(s, L, ev, p),
         NEW l \in Handle, s.on, s.peer.link = l,
         L[l].end[p] \in {"connecting", "accepted"}, M[l].end[p] = "connected",
         M[l].inbox = L[l].inbox, M[l].flight = L[l].flight,
         \A m \in Handle : m # l => M[m] = L[m],
         NEW g, NEW n, Line(g, s, L, p, n)
  PROVE  Sound(s, M, ev \cup {Ev("connected", l)}, p) /\ Line(g, s, M, p, n)
<1> DEFINE e == Ev("connected", l)
<1> DEFINE fv == ev \cup {e}
<1>1. e \in Event /\ e.link = l /\ NoHandle \notin Handle
  BY EventType, Handles
<1>2. s \in Session /\ ev \subseteq Event /\ Own(s, L, p) /\ \A m \in Handle : At(s, L[m], ev, p, m)
  BY DEF Sound
<1> HIDE DEF e
<1>3. ASSUME NEW m \in Handle PROVE At(s, M[m], fv, p, m)
  <2>1. CASE m = l
    <3> HIDE DEF fv
    <3> QED BY <2>1 DEF At
  <2>2. CASE m # l
    <3>1. At(s, L[m], fv, p, m)
      BY <1>1, <1>2, <2>2, MoreCallbacks
    <3> QED BY <2>2, <3>1
  <2> QED BY <2>1, <2>2
<1>4. Own(s, M, p)
  BY <1>1, <1>2 DEF Own
<1>5. fv \subseteq Event
  BY <1>1, <1>2
<1> HIDE DEF fv
<1>6. Sound(s, M, fv, p)
  BY <1>2, <1>3, <1>4, <1>5 DEF Sound
<1>7. L[l].flight[p] = <<>>
  <2>1. At(s, L[l], ev, p, l)
    BY <1>2
  <2> QED BY <2>1 DEF At
<1>8. Unread(s, M, p) = Unread(s, L, p) /\ Flying(s, M, p) = Flying(s, L, p)
  BY <1>1, <1>7 DEF Unread, Flying
<1> QED BY <1>6, <1>8 DEF Line, fv, e

LEMMA EstablishStays ==
  ASSUME IInv, NEW l \in Handle, Establish(l)
  PROVE  IInv'
<1>1. PICK p \in Node : link[l].end[p] = "accepted" /\ link[l].end[Other(p)] = "connecting"
  BY DEF Establish
<1> DEFINE q == Other(p)
<1> DEFINE s == sess[p]
<1> DEFINE t == sess[q]
<1> DEFINE ev == Pending(p)
<1> DEFINE ew == Pending(q)
<1> DEFINE L == link
<1> DEFINE both == [r \in Node |-> "connected"]
<1> DEFINE M == [L EXCEPT ![l].end = both]
<1> DEFINE e == Ev("connected", l)
<1>2. /\ q \in Node /\ q # p /\ Other(q) = p /\ (Initiates(q) <=> ~Initiates(p)) /\ Node = {p, q}
  BY Nodes
<1>3. /\ link' = M /\ events' = [r \in Node |-> Append(events[r], e)]
      /\ UNCHANGED <<lobby, copy, sess, got, used>>
  BY DEF Establish, Ev
<1>4. TypeOK /\ L \in [Handle -> Link]
  BY DEF IInv, TypeOK
<1>5. Good(p, s, t, L, ev, ew, got[p], got[q], Sent(q), Sent(p))
  BY IsGood
<1>6. e \in Event /\ NoHandle \notin Handle
  BY EventType, Handles
<1>7. both \in [Node -> End] /\ both[p] = "connected" /\ both[q] = "connected"
  BY <1>2 DEF End
<1> HIDE DEF both
<1>8. /\ M \in [Handle -> Link] /\ M[l].end = both
      /\ M[l].inbox = L[l].inbox /\ M[l].flight = L[l].flight
      /\ \A m \in Handle : m # l => M[m] = L[m]
  <2> DEFINE c == L[l]
  <2> DEFINE d == [c EXCEPT !.end = both]
  <2>1. M = [L EXCEPT ![l] = d] /\ c \in Link
    BY <1>4
  <2> HIDE DEF c
  <2>2. d \in Link /\ d.end = both /\ d.inbox = c.inbox /\ d.flight = c.flight
    BY <1>7, <2>1 DEF Link
  <2> HIDE DEF d, M, L
  <2>3. M[l] = d /\ M \in [Handle -> Link] /\ \A m \in Handle : m # l => M[m] = L[m]
    BY <1>4, <2>1, <2>2
  <2> QED BY <2>2, <2>3 DEF c
<1>9. /\ events' \in [Node -> Seq(Event)]
      /\ Pending(p)' = ev \cup {e} /\ Pending(q)' = ew \cup {e}
  <2> HIDE DEF e
  <2>1. \A r \in Node : events[r] \in Seq(Event)
    BY <1>4 DEF TypeOK
  <2>2. ASSUME NEW r \in Node
        PROVE  events'[r] \in Seq(Event) /\ Pending(r)' = Pending(r) \cup {e}
    <3> DEFINE a == Append(events[r], e)
    <3>1. /\ a \in Seq(Event)
          /\ {a[i] : i \in DOMAIN a} = {events[r][i] : i \in DOMAIN events[r]} \cup {e}
      BY <1>6, <2>1, Posted, Zenon
    <3>2. events'[r] = a
      BY <1>3
    <3> HIDE DEF a
    <3> QED BY <3>1, <3>2 DEF Pending
  <2>3. events' = [r \in Node |-> events'[r]]
    BY <1>3
  <2>4. events' \in [Node -> Seq(Event)]
    BY <2>2, <2>3
  <2> QED BY <1>2, <2>2, <2>4
<1>10. /\ Sound(s, L, ev, p) /\ Sound(t, L, ew, q) /\ Lone(s, ev, t, ew)
       /\ Line(got[p], s, L, p, Sent(q)) /\ Line(got[q], t, L, q, Sent(p))
       /\ L[l].end[p] = "accepted" /\ L[l].end[q] = "connecting"
       /\ M[l].end[p] = "connected" /\ M[l].end[q] = "connected"
  BY <1>1, <1>5, <1>7, <1>8 DEF Good
<1> HIDE DEF q, s, t, ev, ew, L, M
<1>11. s.on /\ s.peer.link = l /\ ~Initiates(p)
  <2>1. At(s, L[l], ev, p, l)
    BY <1>10 DEF Sound
  <2> QED BY <1>10, <2>1 DEF At
<1>12. t.on /\ t.peer.link = l
  <2>1. At(t, L[l], ew, q, l)
    BY <1>10 DEF Sound
  <2> QED BY <1>2, <1>10, <1>11, <2>1 DEF At
<1>13. Sound(s, M, ev \cup {e}, p) /\ Line(got[p], s, M, p, Sent(q))
  BY <1>8, <1>10, <1>11, EstablishedSide
<1>14. Sound(t, M, ew \cup {e}, q) /\ Line(got[q], t, M, q, Sent(p))
  BY <1>2, <1>8, <1>10, <1>12, EstablishedSide
<1>15. Lone(s, ev \cup {e}, t, ew \cup {e})
  BY <1>11, <1>12 DEF Lone, Up
<1>16. Good(p, s, t, M, ev \cup {e}, ew \cup {e}, got[p], got[q], Sent(q), Sent(p))
  BY <1>13, <1>14, <1>15 DEF Good, q
<1>17. /\ lobby' \subseteq Node /\ copy' \in [Node -> SUBSET Node]
       /\ used' \in [What -> [Node -> Nat]] /\ Sent(p)' = Sent(p) /\ Sent(q)' = Sent(q)
  BY <1>3, <1>4 DEF TypeOK, Sent
<1>18. link' \in [Handle -> Link] /\ link' = M
  BY <1>3, <1>8
<1>19. Good(p, sess[p], sess[Other(p)], link', Pending(p)', Pending(Other(p))',
            got[p], got[Other(p)], Sent(Other(p)), Sent(p))
  BY <1>9, <1>16, <1>18 DEF s, t, q
<1> QED BY <1>3, <1>9, <1>17, <1>18, <1>19, SteamStays DEF q

\* The first message on its way to p arrives there.
Arrived(L, l, p) == [L EXCEPT ![l].flight[p] = Tail(@),
                              ![l].inbox[p] = Append(@, Head(L[l].flight[p]))]

LEMMA ArrivedShape ==
  ASSUME NEW p \in Node, NEW L \in [Handle -> Link], NEW l \in Handle, L[l].flight[p] # <<>>
  PROVE  /\ Arrived(L, l, p) \in [Handle -> Link]
         /\ Arrived(L, l, p)[l].end = L[l].end
         /\ Arrived(L, l, p)[l].flight[p] = Tail(L[l].flight[p])
         /\ Arrived(L, l, p)[l].inbox[p] = Append(L[l].inbox[p], Head(L[l].flight[p]))
         /\ Arrived(L, l, p)[l].inbox[Other(p)] = L[l].inbox[Other(p)]
         /\ Arrived(L, l, p)[l].flight[Other(p)] = L[l].flight[Other(p)]
         /\ \A m \in Handle : m # l => Arrived(L, l, p)[m] = L[m]
<1> DEFINE c == L[l]
<1> DEFINE f == Tail(c.flight[p])
<1> DEFINE b == Append(c.inbox[p], Head(c.flight[p]))
<1> DEFINE d == [c EXCEPT !.flight[p] = f, !.inbox[p] = b]
<1> DEFINE M == Arrived(L, l, p)
<1>1. Other(p) # p /\ Other(p) \in Node
  BY Nodes
<1>2. M = [L EXCEPT ![l] = d]
  BY DEF Arrived
<1>3. c \in Link
  OBVIOUS
<1>4. c.flight[p] # <<>>
  OBVIOUS
<1> HIDE DEF c
<1>5. c.flight \in [Node -> Seq(Nat)] /\ c.inbox \in [Node -> Seq(Nat)]
  BY <1>3 DEF Link
<1>6. f \in Seq(Nat) /\ b \in Seq(Nat)
  BY <1>4, <1>5
<1> HIDE DEF f, b
<1>7. /\ d.flight = [c.flight EXCEPT ![p] = f] /\ d.inbox = [c.inbox EXCEPT ![p] = b]
      /\ d.end = c.end /\ d.linger = c.linger
      /\ d \in [end : {d.end}, linger : {d.linger}, flight : {d.flight}, inbox : {d.inbox}]
  BY <1>3 DEF Link
<1> HIDE DEF d, M
<1>8. d \in Link
  <2>1. d.flight \in [Node -> Seq(Nat)] /\ d.inbox \in [Node -> Seq(Nat)]
    BY <1>5, <1>6, <1>7
  <2>2. d.end \in [Node -> End] /\ d.linger \in SUBSET Node
    BY <1>3, <1>7 DEF Link
  <2> QED BY <1>7, <2>1, <2>2 DEF Link
<1>9. M \in [Handle -> Link] /\ M[l] = d /\ \A m \in Handle : m # l => M[m] = L[m]
  BY <1>2, <1>8
<1>10. /\ d.flight[p] = f /\ d.inbox[p] = b
       /\ d.flight[Other(p)] = c.flight[Other(p)] /\ d.inbox[Other(p)] = c.inbox[Other(p)]
  BY <1>1, <1>5, <1>7
<1> QED BY <1>7, <1>9, <1>10 DEF c, f, b, M

LEMMA ArriveStays ==
  ASSUME IInv, NEW p \in Node, NEW l \in Handle, Arrive(l, p)
  PROVE  IInv'
<1> DEFINE q == Other(p)
<1> DEFINE s == sess[p]
<1> DEFINE t == sess[q]
<1> DEFINE ev == Pending(p)
<1> DEFINE ew == Pending(q)
<1> DEFINE L == link
<1> DEFINE M == Arrived(L, l, p)
<1>1. /\ q \in Node /\ q # p /\ Other(q) = p
  BY Nodes
<1>2. /\ L[l].end[p] = "connected" /\ L[l].flight[p] # <<>> /\ link' = M
      /\ UNCHANGED <<lobby, copy, sess, events, got, used>>
  BY DEF Arrive, Arrived
<1>3. Good(p, s, t, L, ev, ew, got[p], got[q], Sent(q), Sent(p)) /\ L \in [Handle -> Link]
  BY IsGood DEF IInv, TypeOK
<1>4. /\ M \in [Handle -> Link] /\ M[l].end = L[l].end
      /\ M[l].flight[p] = Tail(L[l].flight[p])
      /\ M[l].inbox[p] = Append(L[l].inbox[p], Head(L[l].flight[p]))
  BY <1>2, <1>3, ArrivedShape
<1>5. M[l].inbox[q] = L[l].inbox[q]
  BY <1>2, <1>3, ArrivedShape
<1>6. M[l].flight[q] = L[l].flight[q]
  BY <1>2, <1>3, ArrivedShape
<1>7. ASSUME NEW m \in Handle, m # l PROVE M[m] = L[m]
  BY <1>2, <1>3, <1>7, ArrivedShape
<1>8. /\ \A m \in Handle : At(s, L[m], ev, p, m) /\ At(t, L[m], ew, q, m)
      /\ Own(s, L, p) /\ Own(t, L, q) /\ s \in Session /\ t \in Session
      /\ ev \subseteq Event /\ ew \subseteq Event
      /\ ~s.on => s = NoSession /\ ev = {}
      /\ ~t.on => t = NoSession /\ ew = {}
      /\ Line(got[p], s, L, p, Sent(q)) /\ Line(got[q], t, L, q, Sent(p)) /\ Lone(s, ev, t, ew)
  BY <1>3 DEF Good, Sound
<1>9. NoHandle \notin Handle
  BY Handles
<1> HIDE DEF q, s, t, ev, ew, L, M
<1>10. L[l] # NoLink
  BY <1>2, NoLinkType
<1>11. At(s, L[l], ev, p, l) /\ At(t, L[l], ew, q, l)
  BY <1>8
<1>12. s.on /\ s.peer.link = l
  BY <1>2, <1>11 DEF At
<1>13. ASSUME NEW m \in Handle PROVE At(s, M[m], ev, p, m)
  <2>1. CASE m = l
    BY <1>2, <1>4, <1>11, <2>1 DEF At
  <2>2. CASE m # l
    BY <1>7, <1>8, <2>2
  <2> QED BY <2>1, <2>2
<1>14. ASSUME NEW m \in Handle PROVE At(t, M[m], ew, q, m)
  <2>1. CASE m = l
    BY <1>1, <1>4, <1>5, <1>6, <1>10, <1>11, <2>1 DEF At
  <2>2. CASE m # l
    BY <1>7, <1>8, <2>2
  <2> QED BY <2>1, <2>2
<1>15. t.peer.link \in Handle \cup {NoHandle}
  BY <1>8 DEF Session, Peer
<1>16. t.peer.link # NoHandle => /\ M[t.peer.link].end = L[t.peer.link].end
                                 /\ M[t.peer.link].inbox[q] = L[t.peer.link].inbox[q]
                                 /\ M[t.peer.link].flight[q] = L[t.peer.link].flight[q]
  BY <1>4, <1>5, <1>6, <1>7, <1>15
<1>17. Own(s, M, p) /\ Own(t, M, q)
  BY <1>4, <1>8, <1>12, <1>16 DEF Own
<1>18. Line(got[q], t, M, q, Sent(p))
  <2>1. Unread(t, M, q) = Unread(t, L, q) /\ Flying(t, M, q) = Flying(t, L, q)
    BY <1>16 DEF Unread, Flying
  <2> QED BY <1>8, <2>1 DEF Line
<1>19. Line(got[p], s, M, p, Sent(q))
  <2> DEFINE c == L[l].inbox[p]
  <2> DEFINE d == L[l].flight[p]
  <2>1. Unread(s, L, p) = c /\ Flying(s, L, p) = d
    BY <1>2, <1>9, <1>12 DEF Unread, Flying
  <2>2. Unread(s, M, p) = Append(c, Head(d)) /\ Flying(s, M, p) = Tail(d)
    BY <1>2, <1>4, <1>9, <1>12 DEF Unread, Flying
  <2>3. Chain(got[p], s.drained, c, d, Sent(q)) /\ d # <<>>
    BY <1>2, <1>8, <2>1 DEF Line
  <2>4. Chain(got[p], s.drained, Append(c, Head(d)), Tail(d), Sent(q))
    BY <2>3, ChainArrives
  <2> QED BY <2>2, <2>4 DEF Line
<1>20. Sound(s, M, ev, p) /\ Sound(t, M, ew, q)
  BY <1>8, <1>13, <1>14, <1>17 DEF Sound
<1>21. Good(p, s, t, M, ev, ew, got[p], got[q], Sent(q), Sent(p))
  BY <1>8, <1>18, <1>19, <1>20 DEF Good, q
<1>22. /\ lobby' \subseteq Node /\ copy' \in [Node -> SUBSET Node]
       /\ events' \in [Node -> Seq(Event)] /\ used' \in [What -> [Node -> Nat]]
       /\ Sent(p)' = Sent(p) /\ Sent(q)' = Sent(q)
       /\ Pending(p)' = ev /\ Pending(q)' = ew
  BY <1>2 DEF IInv, TypeOK, Sent, Pending, ev, ew
<1>23. Good(p, sess[p], sess[Other(p)], link', Pending(p)', Pending(Other(p))',
            got[p], got[Other(p)], Sent(Other(p)), Sent(p))
  BY <1>2, <1>21, <1>22 DEF s, t, q
<1>24. link' \in [Handle -> Link]
  BY <1>2, <1>4
<1> QED BY <1>2, <1>22, <1>23, <1>24, SteamStays DEF q

LEMMA InitIInv == Init => IInv
<1> SUFFICES ASSUME Init PROVE IInv
  OBVIOUS
<1>1. /\ lobby = {} /\ copy = [p \in Node |-> {}]
      /\ sess = [p \in Node |-> NoSession] /\ link = [l \in Handle |-> NoLink]
      /\ events = [p \in Node |-> <<>>] /\ got = [p \in Node |-> <<>>]
      /\ used = [w \in What |-> [p \in Node |-> 0]]
  BY DEF Init
<1>2. /\ NoSession \in Session /\ ~NoSession.on /\ NoSession.peer = NoPeer
      /\ NoSession.drained = <<>>
      /\ NoPeer.link = NoHandle /\ ~NoPeer.connected /\ NoLink \in Link
      /\ \A n \in Node : NoLink.end[n] = "none" /\ NoLink.inbox[n] = <<>> /\ NoLink.flight[n] = <<>>
  BY SessionType, NoLinkType
<1>3. \A p \in Node : sess[p] = NoSession /\ got[p] = <<>> /\ Pending(p) = {}
  <2>1. \A p \in Node : sess[p] = NoSession /\ got[p] = <<>> /\ events[p] = <<>>
    BY <1>1
  <2>2. ASSUME NEW p \in Node PROVE Pending(p) = {}
    <3> DEFINE s == events[p]
    <3>1. DOMAIN s = {}
      BY <2>1
    <3> HIDE DEF s
    <3>2. {s[i] : i \in DOMAIN s} = {}
      BY <3>1
    <3> QED BY <3>2 DEF Pending, s
  <2> QED BY <2>1, <2>2
<1>4. \A l \in Handle : link[l] = NoLink
  BY <1>1
<1>5. \A p \in Node : Sent(p) = 0
  <2> SUFFICES ASSUME NEW p \in Node PROVE Sent(p) = 0
    OBVIOUS
  <2>1. "send" \in What /\ "deny" \in What
    BY DEF What
  <2>2. used["send"][p] = 0 /\ used["deny"][p] = 0
    BY <1>1, <2>1
  <2> QED BY <2>2 DEF Sent
<1>6. TypeOK
  <2>1. <<>> \in Seq(Event) /\ <<>> \in Seq(Nat)
    OBVIOUS
  <2>2. /\ lobby \subseteq Node /\ copy \in [Node -> SUBSET Node]
        /\ sess \in [Node -> Session] /\ link \in [Handle -> Link]
    BY <1>1, <1>2
  <2>3. /\ events \in [Node -> Seq(Event)] /\ got \in [Node -> Seq(Nat)]
        /\ used \in [What -> [Node -> Nat]]
    BY <1>1, <2>1
  <2>4. \A p \in Node : ~sess[p].peer.connected
    BY <1>2, <1>3
  <2> QED BY <2>2, <2>3, <2>4 DEF TypeOK
<1>7. ASSUME NEW p \in Node
      PROVE  /\ Sound(sess[p], link, Pending(p), p)
             /\ Line(got[p], sess[p], link, p, Sent(Other(p)))
             /\ Lone(sess[p], Pending(p), sess[Other(p)], Pending(Other(p)))
  <2>1. Other(p) \in Node /\ sess[p] = NoSession /\ sess[Other(p)] = NoSession
        /\ Pending(p) = {} /\ Pending(Other(p)) = {} /\ got[p] = <<>> /\ Sent(Other(p)) = 0
    BY <1>3, <1>5, Nodes
  <2>2. \A l \in Handle : At(NoSession, link[l], {}, p, l)
    BY <1>2, <1>4, <2>1 DEF At
  <2>3. Own(NoSession, link, p)
    BY <1>2 DEF Own
  <2>4. Sound(NoSession, link, {}, p)
    BY <1>2, <2>2, <2>3 DEF Sound
  <2>5. Line(<<>>, NoSession, link, p, 0)
    <3>1. Unread(NoSession, link, p) = <<>> /\ Flying(NoSession, link, p) = <<>>
      BY <1>2 DEF Unread, Flying
    <3>2. Chain(<<>>, <<>>, <<>>, <<>>, 0)
      BY EmptySeq DEF Chain
    <3> QED BY <1>2, <3>1, <3>2 DEF Line
  <2>6. Lone(NoSession, {}, NoSession, {})
    BY <1>2 DEF Lone, Up
  <2> QED BY <2>1, <2>4, <2>5, <2>6
<1> QED BY <1>6, <1>7 DEF IInv

LEMMA NextIInv == IInv /\ [Next]_vars => IInv'
<1> SUFFICES ASSUME IInv, [Next]_vars PROVE IInv'
  OBVIOUS
<1>1. ASSUME NEW p \in Node, Process(p) PROVE IInv'
  BY <1>1, ProcessStays
<1>2. ASSUME NEW p \in Node, RetryDue(p) PROVE IInv'
  BY <1>2, RetryDueStays
<1>3. ASSUME NEW p \in Node, Enter(p) PROVE IInv'
  BY <1>3, EnterStays
<1>4. ASSUME NEW p \in Node, Leave(p) PROVE IInv'
  BY <1>4, LeaveStays
<1>5. ASSUME NEW p \in Node, Deny(p) \/ Send(p) PROVE IInv'
  BY <1>5, SentOrDenied
<1>6. ASSUME NEW p \in Node, Pause(p) PROVE IInv'
  BY <1>6, PauseStays
<1>7. ASSUME NEW p \in Node, Resume(p) PROVE IInv'
  BY <1>7, ResumeStays
<1>8. ASSUME NEW p \in Node, NEW l \in Handle, Fail(l, p) PROVE IInv'
  <2>1. link[l].end[p] \in Live /\ Ends(l, p) /\ Spend("fail", p)
    BY <1>8 DEF Fail
  <2>2. "fail" \in What \ {"send", "deny"}
    BY DEF What
  <2>3. used' \in [What -> [Node -> Nat]] /\ \A r \in Node : Sent(r)' = Sent(r)
    BY <2>1, <2>2, SpentType, NothingSent
  <2> QED BY <2>1, <2>3, EndsStay
<1>9. ASSUME NEW p \in Node, NEW l \in Handle, PeerGone(l, p) PROVE IInv'
  <2>1. link[l].end[p] \in Live /\ Ends(l, p) /\ used' = used
    BY <1>9 DEF PeerGone
  <2>2. used' \in [What -> [Node -> Nat]] /\ \A r \in Node : Sent(r)' = Sent(r)
    BY <2>1 DEF IInv, TypeOK, Sent
  <2> QED BY <2>1, <2>2, EndsStay
<1>10. ASSUME NEW l \in Handle, Establish(l) PROVE IInv'
  BY <1>10, EstablishStays
<1>11. ASSUME NEW p \in Node, NEW l \in Handle, Incoming(l, p) PROVE IInv'
  BY <1>11, IncomingStays
<1>12. ASSUME NEW p \in Node, NEW l \in Handle, Arrive(l, p) PROVE IInv'
  BY <1>12, ArriveStays
<1>13. ASSUME NEW p \in Node, Renew(p) PROVE IInv'
  BY <1>13, RenewStays
<1>14. ASSUME NEW p \in Node, Settle(p) PROVE IInv'
  BY <1>14, SettleStays
<1>15. ASSUME UNCHANGED vars PROVE IInv'
  <2>1. UNCHANGED <<lobby, copy, sess, link, events, got, used>>
    BY <1>15 DEF vars
  <2>2. TypeOK'
    BY <2>1 DEF IInv, TypeOK
  <2>3. \A r \in Node : Pending(r)' = Pending(r) /\ Sent(r)' = Sent(r)
    BY <2>1 DEF Pending, Sent
  <2> QED BY <2>1, <2>2, <2>3, Nodes DEF IInv
<1>16. CASE Transport
  BY <1>9, <1>10, <1>11, <1>12, <1>16 DEF Transport
<1>17. CASE MemberLists
  BY <1>13, <1>14, <1>17 DEF MemberLists
<1> QED BY <1>1, <1>2, <1>3, <1>4, <1>5, <1>6, <1>7, <1>8, <1>15, <1>16, <1>17 DEF Next

LEMMA Invariance == Spec => []IInv
<1>1. Init => IInv
  BY InitIInv
<1>2. IInv /\ [Next]_vars => IInv'
  BY NextIInv
<1> QED BY <1>1, <1>2, PTL DEF Spec

-----------------------------------------------------------------------------
(***************************************************************************)
(* The sessions, the connections and the callbacks have their types, and a *)
(* peer that counts as connected has a connection.                         *)
(***************************************************************************)
THEOREM TypesStay == Spec => []TypeOK
<1>1. IInv => TypeOK
  BY DEF IInv
<1> QED BY <1>1, Invariance, PTL

(***************************************************************************)
(* No connection handle is forgotten: however connections come in, break   *)
(* and are replaced, a handle that is open at a PC is its session's, or a  *)
(* callback that will close or accept it is still to be handled            *)
(* (session.py:165-217).                                                   *)
(***************************************************************************)
THEOREM NoHandleIsLost == Spec => []NoLostHandle
<1>1. IInv => NoLostHandle
  <2> SUFFICES ASSUME IInv, NEW p \in Node, NEW l \in Handle,
                      link[l].end[p] \notin {"none", "closed"}
               PROVE  \/ sess[p].on /\ sess[p].peer.link = l
                      \/ \E i \in DOMAIN events[p] : events[p][i].link = l
    BY DEF NoLostHandle
  <2>1. At(sess[p], link[l], Pending(p), p, l)
    BY DEF IInv, Sound
  <2>2. link[l].end[p] \in {"connecting", "accepted", "connected", "ended"}
    <3>1. \A c \in Link : c.end \in [Node -> End]
      BY DEF Link
    <3>2. link[l] \in Link
      BY DEF IInv, TypeOK
    <3> QED BY <3>1, <3>2 DEF End
  <2>3. CASE Ev("incoming", l) \in Pending(p) \/ Ev("ended", l) \in Pending(p)
    BY <2>3 DEF Pending, Ev
  <2>4. CASE sess[p].on /\ sess[p].peer.link = l
    BY <2>4
  <2> QED BY <2>1, <2>2, <2>3, <2>4 DEF At
<1> QED BY <1>1, Invariance, PTL

(***************************************************************************)
(* "so none is ever doubled" (session.py:140): when both PCs count on a    *)
(* connection, it is the same one.                                         *)
(***************************************************************************)
THEOREM OneConnection == Spec => []SameConnection
<1>1. IInv => SameConnection
  <2> SUFFICES ASSUME IInv, \A r \in Node : sess[r].peer.connected, NEW p \in Node
               PROVE  sess[p].peer.link = sess[Other(p)].peer.link
    BY DEF SameConnection
  <2>1. Other(p) \in Node
    BY Nodes
  <2>2. /\ Lone(sess[p], Pending(p), sess[Other(p)], Pending(Other(p)))
        /\ sess[p].peer.link # NoHandle /\ sess[Other(p)].peer.link # NoHandle
        /\ sess[p] \in Session /\ sess[Other(p)] \in Session
    BY <2>1 DEF IInv, TypeOK
  <2>3. sess[p].peer.link \in Handle /\ sess[Other(p)].peer.link \in Handle
    BY <2>2 DEF Session, Peer
  <2> QED BY <2>1, <2>2, <2>3 DEF Lone, Up
<1> QED BY <1>1, Invariance, PTL

(***************************************************************************)
(* Messages come out in the order they were sent, each at most once, also  *)
(* across connections: _close() drains the old one before the next brings  *)
(* anything (session.py:227-243).                                          *)
(***************************************************************************)
THEOREM StaysInOrder == Spec => []InOrder
<1>1. IInv => InOrder
  BY DEF IInv, Line, Chain, Rising, InOrder
<1> QED BY <1>1, Invariance, PTL
=============================================================================

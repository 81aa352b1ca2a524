-------------------------- MODULE StateStoreProofs --------------------------
(***************************************************************************)
(* What the state file remembers, with any accounts and networks, and any  *)
(* number of saves, failures and kills.                                    *)
(***************************************************************************)
EXTENDS StateStore, TLAPS

\* Entries that are none, or not readable, are no networks; what another
\* program leaves is not one of our files.
StoreConstants ==
  /\ None # Broken /\ None \notin Network /\ Broken \notin Network
  /\ Strange \subseteq {"other", "binary", "half"}

\* Every file was read, and is the program's own.
Undisturbed == used["strange"] + used["unread"] = 0

\* What is being written keeps the others' entries, and has the program's own.
Faithful ==
  /\ file.kind \in {"ours", "missing"}
  /\ at = "idle" /\ ~lapse => Parsed(file.entries[account]) = saved
  /\ at \in {"writing", "replacing"} =>
       /\ Parsed(next[account]) = saved
       /\ \A a \in Account \ {account} : next[a] = file.entries[a]

\* A file that takes the place of the state file has been written completely;
\* until it does, something is not saved.
Complete ==
  /\ at = "replacing" => temporary = Ours(next)
  /\ at \in {"writing", "replacing"} => lapse

\* Another kind of file is another program's.
Foreign == file.kind \in {"ours", "missing"} \cup Strange

\* The inductive invariant.
IInv ==
  /\ TypeOK /\ Complete /\ Foreign
  /\ at = "raised" => "binary" \in Strange
  /\ Undisturbed => Faithful

-----------------------------------------------------------------------------
LEMMA Contents ==
  /\ Missing \in Content /\ Missing.kind = "missing"
  /\ \A e \in Entries : Ours(e) \in Content /\ Ours(e).kind = "ours" /\ Ours(e).entries = e
  /\ \A k \in {"other", "binary", "half"} : Odd(k) \in Content /\ Odd(k).kind = k
BY DEF Missing, Ours, Odd, Content, NoEntries, Entries, Entry

LEMMA InitInv == Init => IInv
<1> SUFFICES ASSUME Init PROVE IInv
  OBVIOUS
<1>1. /\ [a \in Account |-> Broken] \in Entries /\ NoEntries \in Entries
  BY DEF Entries, Entry, NoEntries
<1>2. file \in Content /\ file.kind \in {"ours", "missing"}
  BY <1>1, Contents DEF Init
<1>3. used \in [What -> Nat]
  BY DEF Init
<1>4. TypeOK
  BY <1>1, <1>2, <1>3, Contents DEF Init, TypeOK
<1> QED BY <1>2, <1>4 DEF Init, IInv, Complete, Foreign, Faithful

\* A bounded count goes up by one, and the others stay.
LEMMA SpendIs ==
  ASSUME used \in [What -> Nat], NEW what \in What, Spend(what)
  PROVE  /\ used' \in [What -> Nat]
         /\ Undisturbed' => Undisturbed /\ what \notin {"strange", "unread"}
<1>1. used' = [used EXCEPT ![what] = @ + 1]
  BY DEF Spend
<1>2. used' \in [What -> Nat]
  BY <1>1
<1>3. /\ used'[what] = used[what] + 1
      /\ \A w \in What \ {what} : used'[w] = used[w]
  BY <1>1
<1>4. "strange" \in What /\ "unread" \in What
  BY DEF What
<1>5. Undisturbed' => Undisturbed /\ what \notin {"strange", "unread"}
  BY <1>2, <1>3, <1>4 DEF Undisturbed
<1> QED BY <1>2, <1>5

\* What the program wants saved is what it would read.
LEMMA GoesOnIs ==
  ASSUME StoreConstants, TypeOK, NEW entries \in Entries, NEW n \in Network \cup {None},
         GoesOn(entries, n)
  PROVE  /\ next' \in Entries /\ at' \in {"idle", "writing"}
         /\ at' = "idle" => Parsed(entries[account]) = n
         /\ at' = "writing" =>
              /\ Parsed(next'[account]) = n
              /\ \A a \in Account \ {account} : next'[a] = entries[a]
<1>1. Parsed(n) = n /\ n \in Entry /\ account \in Account /\ next \in Entries
  BY DEF StoreConstants, Parsed, TypeOK, Entry
<1>2. CASE n = None /\ entries[account] = None
  BY <1>1, <1>2 DEF GoesOn
<1>3. CASE ~(n = None /\ entries[account] = None)
  <2>1. at' = "writing" /\ next' = [entries EXCEPT ![account] = n]
    BY <1>3 DEF GoesOn
  <2> QED BY <1>1, <2>1 DEF Entries
<1> QED BY <1>2, <1>3

-----------------------------------------------------------------------------
\* Every step keeps the invariant.

LEMMA StartStays ==
  ASSUME StoreConstants, IInv, NEW a \in Account, Start(a)
  PROVE  IInv'
<1>1. /\ account' = a /\ lapse' = FALSE /\ setAside' = FALSE
      /\ file' = file /\ backup' = backup /\ temporary' = temporary /\ next' = next
  BY DEF Start
<1>2. used' \in [What -> Nat] /\ (Undisturbed' => Undisturbed)
  BY SpendIs DEF Start, IInv, TypeOK, What
<1>3. file.entries[a] \in Entry /\ Parsed(file.entries[a]) \in Network \cup {None}
  BY DEF IInv, TypeOK, Content, Entries, Entry, Parsed
<1>4. \/ file.kind = "binary" /\ at' = "raised" /\ saved' = None
      \/ at' = "idle" /\ saved' = Parsed(file.entries[a])
  BY DEF Start
<1>5. TypeOK'
  BY <1>1, <1>2, <1>3, <1>4 DEF IInv, TypeOK
<1>6. Complete' /\ Foreign' /\ (at' = "raised" => "binary" \in Strange)
  BY <1>1, <1>4 DEF IInv, Complete, Foreign
<1>7. Undisturbed' => Faithful'
  BY <1>1, <1>2, <1>4 DEF IInv, Faithful, Parsed
<1> QED BY <1>5, <1>6, <1>7 DEF IInv

LEMMA StartUnreadStays ==
  ASSUME IInv, NEW a \in Account, StartUnread(a)
  PROVE  IInv'
<1>1. used' \in [What -> Nat] /\ ~Undisturbed'
  BY SpendIs DEF StartUnread, IInv, TypeOK, What
<1>2. TypeOK'
  BY <1>1 DEF StartUnread, IInv, TypeOK
<1>3. Complete' /\ Foreign' /\ at' # "raised"
  BY DEF StartUnread, IInv, Complete, Foreign
<1> QED BY <1>1, <1>2, <1>3 DEF IInv

LEMMA SaveStays ==
  ASSUME StoreConstants, IInv, NEW n \in Network \cup {None}, Save(n)
  PROVE  IInv'
<1>1. at = "idle" /\ saved' = n /\ temporary' = temporary /\ account' = account
  BY DEF Save
<1>2. used' \in [What -> Nat] /\ (Undisturbed' => Undisturbed)
  BY SpendIs DEF Save, IInv, TypeOK, What
<1>3. CASE file.kind = "binary"
  <2>1. /\ at' = "raised" /\ lapse' = TRUE /\ file' = file /\ backup' = backup
        /\ setAside' = setAside /\ next' = next
    BY <1>3 DEF Save
  <2>2. TypeOK'
    BY <1>1, <1>2, <2>1 DEF IInv, TypeOK
  <2>3. "binary" \in Strange
    BY <1>3 DEF IInv, Foreign
  <2>4. ~Undisturbed'
    BY <1>2, <1>3 DEF IInv, Faithful
  <2> QED BY <2>1, <2>2, <2>3, <2>4 DEF IInv, Complete, Foreign
<1>4. CASE file.kind # "binary"
  <2>1. GoesOn(file.entries, n) /\ lapse' = (at' = "writing") /\ lapse' \in BOOLEAN
    BY <1>4 DEF Save
  <2>2. file.entries \in Entries
    BY DEF IInv, TypeOK, Content
  <2>3. /\ next' \in Entries /\ at' \in {"idle", "writing"}
        /\ at' = "idle" => Parsed(file.entries[account]) = n
        /\ at' = "writing" =>
             /\ Parsed(next'[account]) = n
             /\ \A a \in Account \ {account} : next'[a] = file.entries[a]
    BY <2>1, <2>2, GoesOnIs DEF IInv
  <2>4. \/ /\ file.kind \in {"other", "half"}
           /\ backup' = file /\ file' = Missing /\ setAside' = TRUE
        \/ file' = file /\ backup' = backup /\ setAside' = setAside
    BY <1>4 DEF Save
  <2>5. TypeOK'
    <3>1. file \in Content /\ backup \in Content /\ Missing \in Content /\ setAside \in BOOLEAN
      BY Contents DEF IInv, TypeOK
    <3>2. file' \in Content /\ backup' \in Content /\ setAside' \in BOOLEAN
      BY <2>4, <3>1
    <3> QED BY <1>1, <1>2, <2>1, <2>3, <3>2 DEF IInv, TypeOK
  <2>6. Complete' /\ Foreign' /\ at' # "raised"
    BY <2>1, <2>3, <2>4, Contents DEF IInv, Complete, Foreign
  <2>7. ASSUME Undisturbed' PROVE Faithful'
    <3>1. file.kind \in {"ours", "missing"}
      BY <1>2, <2>7 DEF IInv, Faithful
    <3>2. file' = file
      BY <2>4, <3>1
    <3> QED BY <1>1, <2>3, <3>1, <3>2 DEF Faithful, Parsed
  <2> QED BY <2>5, <2>6, <2>7 DEF IInv
<1> QED BY <1>3, <1>4

LEMMA SaveUnreadStays ==
  ASSUME StoreConstants, IInv, NEW n \in Network \cup {None}, SaveUnread(n)
  PROVE  IInv'
<1>1. used' \in [What -> Nat] /\ ~Undisturbed'
  BY SpendIs DEF SaveUnread, IInv, TypeOK, What
<1>2. NoEntries \in Entries
  BY DEF NoEntries, Entries, Entry
<1>3. next' \in Entries /\ at' \in {"idle", "writing"}
  BY <1>2, GoesOnIs DEF SaveUnread, IInv
<1>4. TypeOK'
  BY <1>1, <1>3 DEF SaveUnread, IInv, TypeOK
<1>5. Complete' /\ Foreign' /\ at' # "raised"
  BY <1>3 DEF SaveUnread, IInv, Complete, Foreign
<1> QED BY <1>1, <1>4, <1>5 DEF IInv

LEMMA SetAsideFailsStays ==
  ASSUME IInv, NEW n \in Network \cup {None}, SetAsideFails(n)
  PROVE  IInv'
<1>1. used' \in [What -> Nat] /\ (Undisturbed' => Undisturbed)
  BY SpendIs DEF SetAsideFails, IInv, TypeOK, What
<1>2. TypeOK'
  BY <1>1 DEF SetAsideFails, IInv, TypeOK
<1>3. Complete' /\ Foreign' /\ (at' = "raised" => "binary" \in Strange)
  BY DEF SetAsideFails, IInv, Complete, Foreign
<1>4. ~Undisturbed'
  BY <1>1 DEF SetAsideFails, IInv, Faithful
<1> QED BY <1>2, <1>3, <1>4 DEF IInv

LEMMA WriteStays ==
  ASSUME IInv, Write
  PROVE  IInv'
<1>1. /\ at = "writing" /\ at' = "replacing" /\ temporary' = Ours(next)
      /\ UNCHANGED <<file, backup, account, saved, next, setAside, lapse, used>>
  BY DEF Write
<1>2. TypeOK'
  BY <1>1, Contents DEF IInv, TypeOK
<1>3. Complete' /\ Foreign' /\ at' # "raised"
  BY <1>1 DEF IInv, Complete, Foreign
<1>4. Undisturbed' => Faithful'
  BY <1>1 DEF IInv, Faithful, Undisturbed, Parsed
<1> QED BY <1>2, <1>3, <1>4 DEF IInv

LEMMA ReplaceStays ==
  ASSUME IInv, Replace
  PROVE  IInv'
<1>1. /\ at = "replacing" /\ at' = "idle" /\ file' = Ours(next) /\ temporary' = Missing
      /\ lapse' = FALSE
      /\ UNCHANGED <<backup, account, saved, next, setAside, used>>
  BY DEF Replace, IInv, Complete
<1>2. next \in Entries
  BY DEF IInv, TypeOK
<1>3. file' \in Content /\ file'.kind = "ours" /\ file'.entries = next
  BY <1>1, <1>2, Contents
<1>4. TypeOK'
  BY <1>1, <1>3, Contents DEF IInv, TypeOK
<1>5. Complete' /\ Foreign' /\ at' # "raised"
  BY <1>1, <1>3 DEF Complete, Foreign
<1>6. Undisturbed' => Faithful'
  BY <1>1, <1>3 DEF IInv, Faithful, Undisturbed, Parsed
<1> QED BY <1>4, <1>5, <1>6 DEF IInv

\* Writing or replacing fails, or the program ends or is killed: the file
\* stays as it was.
LEMMA EndStays ==
  ASSUME IInv,
         \/ at \in {"writing", "replacing"} /\ at' = "idle" /\ Spend("unwritten")
         \/ at' = "off" /\ (Spend("kill") \/ used' = used),
         temporary' \in {temporary, Odd("half")},
         UNCHANGED <<file, backup, account, saved, next, setAside, lapse>>
  PROVE  IInv'
<1>1. used' \in [What -> Nat] /\ (Undisturbed' => Undisturbed)
  BY SpendIs DEF IInv, TypeOK, What, Undisturbed
<1>2. TypeOK'
  BY <1>1, Contents DEF IInv, TypeOK
<1>3. Complete' /\ Foreign' /\ at' # "raised"
  BY DEF IInv, Complete, Foreign
<1>4. Undisturbed' => Faithful'
  BY <1>1 DEF IInv, Faithful, Complete
<1> QED BY <1>2, <1>3, <1>4 DEF IInv

LEMMA RewriteStays ==
  ASSUME StoreConstants, IInv, Rewrite
  PROVE  IInv'
<1>1. PICK kind \in Strange : file' = Odd(kind)
  BY DEF Rewrite
<1>2. /\ UNCHANGED <<backup, temporary, at, account, saved, next, setAside, lapse>>
      /\ used' \in [What -> Nat] /\ ~Undisturbed'
  BY SpendIs DEF Rewrite, IInv, TypeOK, What
<1>3. file' \in Content /\ file'.kind \in Strange
  BY <1>1, Contents DEF StoreConstants
<1>4. TypeOK' /\ Complete' /\ Foreign' /\ (at' = "raised" => "binary" \in Strange)
  BY <1>2, <1>3 DEF IInv, TypeOK, Complete, Foreign
<1> QED BY <1>2, <1>4 DEF IInv

LEMMA NextInv == StoreConstants /\ IInv /\ [Next]_vars => IInv'
<1> SUFFICES ASSUME StoreConstants, IInv, [Next]_vars PROVE IInv'
  OBVIOUS
<1>1. ASSUME NEW a \in Account, Start(a) \/ StartUnread(a) PROVE IInv'
  BY <1>1, StartStays, StartUnreadStays
<1>2. ASSUME NEW n \in Network \cup {None}, Save(n) \/ SaveUnread(n) \/ SetAsideFails(n)
      PROVE  IInv'
  BY <1>2, SaveStays, SaveUnreadStays, SetAsideFailsStays
<1>3. CASE Write
  BY <1>3, WriteStays
<1>4. CASE Replace
  BY <1>4, ReplaceStays
<1>5. CASE Unwritten
  BY <1>5, EndStays DEF Unwritten
<1>6. CASE Exit
  BY <1>6, EndStays DEF Exit
<1>7. CASE Kill
  BY <1>7, EndStays DEF Kill
<1>8. CASE Rewrite
  BY <1>8, RewriteStays
<1>9. CASE UNCHANGED vars
  BY <1>9 DEF vars, IInv, TypeOK, Complete, Foreign, Undisturbed, Faithful, Parsed
<1> QED BY <1>1, <1>2, <1>3, <1>4, <1>5, <1>6, <1>7, <1>8, <1>9 DEF Next

-----------------------------------------------------------------------------
LEMMA Invariance ==
  ASSUME StoreConstants
  PROVE  Spec => []IInv
<1>1. Init => IInv
  BY InitInv
<1>2. IInv /\ [Next]_vars => IInv'
  BY NextInv
<1> QED BY <1>1, <1>2, PTL DEF Spec

\* The store and the program stay within their types, whatever fails and
\* whoever else writes the file (state.py, StateStore).
THEOREM TypesStay == StoreConstants => (Spec => []TypeOK)
<1> SUFFICES ASSUME StoreConstants PROVE Spec => []TypeOK
  OBVIOUS
<1>1. IInv => TypeOK
  BY DEF IInv
<1> QED BY <1>1, Invariance, PTL

(***************************************************************************)
(* What the program last saved is what it loads again, and the entries of  *)
(* other accounts stay, wherever saving it failed or was cut off by a kill *)
(* (StateStore.load() and save()), as long as the file could be read and   *)
(* nothing else wrote it.                                                  *)
(***************************************************************************)
THEOREM NetworkRemembered == StoreConstants => (Spec => []Remembered)
<1> SUFFICES ASSUME StoreConstants PROVE Spec => []Remembered
  OBVIOUS
<1>1. IInv => Remembered
  BY DEF IInv, Undisturbed, Faithful, Remembered
<1> QED BY <1>1, Invariance, PTL

\* No kill and no failure leaves a state file that is written in part ("so a
\* crash never leaves half a file behind", state.py:127), files that cannot
\* be read or are another program's included.
THEOREM HalfFileNever == StoreConstants => (Spec => []NeverHalf)
<1> SUFFICES ASSUME StoreConstants PROVE Spec => []NeverHalf
  OBVIOUS
<1>1. IInv => NeverHalf
  BY DEF IInv, Foreign, NeverHalf
<1> QED BY <1>1, Invariance, PTL

\* A file that can be decoded never keeps the program from starting or
\* saving: load() and save() raise for one that is not UTF-8 only.
THEOREM IgnoredUnlessBinary ==
  StoreConstants /\ "binary" \notin Strange => (Spec => []Ignored)
<1> SUFFICES ASSUME StoreConstants, "binary" \notin Strange PROVE Spec => []Ignored
  OBVIOUS
<1>1. IInv => Ignored
  BY DEF IInv, Ignored
<1> QED BY <1>1, Invariance, PTL
=============================================================================

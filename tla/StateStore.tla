----------------------------- MODULE StateStore -----------------------------
(***************************************************************************)
(* The state file (app/state.py) with the calls the controller makes of    *)
(* it: load() when the program starts, save() whenever its network         *)
(* changes.  Several Steam accounts share the file.  Reading, writing and  *)
(* replacing it may each fail, the program may be killed between any two   *)
(* of them, and other programs, or other versions of this one, write it,   *)
(* too.                                                                    *)
(***************************************************************************)
EXTENDS Integers, FiniteSets

CONSTANTS
  Account,  \* Steam accounts used on this PC
  Network,  \* networks they may be in
  None, Broken, \* no entry; an entry from_json() refuses
  Limit,    \* bound: Limit[what], how often it may happen
  Strange   \* what another program may leave as the file

Entry == Network \cup {None, Broken}
Entries == [Account -> Entry]
NoEntries == [a \in Account |-> None]

\* "other": another version, or not this module's JSON; "binary": not UTF-8;
\* "half": written in part.
Content == [kind : {"ours", "other", "binary", "half", "missing"}, entries : Entries]
Missing == [kind |-> "missing", entries |-> NoEntries]
Ours(entries) == [kind |-> "ours", entries |-> entries]
Odd(kind) == [kind |-> kind, entries |-> NoEntries]

What == {"start", "save", "unread", "unwritten", "kill", "strange"}

VARIABLES
  file, backup, temporary,  \* state.json, state.json.bak, state.json.tmp
  at,        \* where the program is
  account,   \* the account it was started for
  saved,     \* its network, as the program has it
  next,      \* the entries being written
  setAside,  \* StateStore._set_aside
  lapse,     \* the file does not have what the program last wanted saved
  used

vars == <<file, backup, temporary, at, account, saved, next, setAside, lapse, used>>

TypeOK ==
  /\ {file, backup, temporary} \subseteq Content
  /\ at \in {"off", "idle", "writing", "replacing", "raised"}
  /\ account \in Account /\ saved \in Network \cup {None}
  /\ next \in Entries /\ setAside \in BOOLEAN /\ lapse \in BOOLEAN
  /\ used \in [What -> Nat]

Init ==
  /\ file \in {Missing, Ours([a \in Account |-> Broken])}
  /\ backup = Missing /\ temporary = Missing
  /\ at = "off" /\ account \in Account /\ saved = None
  /\ next = NoEntries /\ setAside = FALSE /\ lapse = FALSE
  /\ used = [w \in What |-> 0]

Spend(what) == used[what] < Limit[what] /\ used' = [used EXCEPT ![what] = @ + 1]

\* from_json() and the test for an address of our own.
Parsed(entry) == IF entry = Broken THEN None ELSE entry

\* load(), whose _read() finds the file, cannot open it, or cannot decode it.
Start(a) ==
  /\ at = "off" /\ Spend("start")
  /\ account' = a /\ setAside' = FALSE /\ lapse' = FALSE
  /\ IF file.kind = "binary" THEN at' = "raised" /\ saved' = None
     ELSE at' = "idle" /\ saved' = Parsed(file.entries[a])
  /\ UNCHANGED <<file, backup, temporary, next>>

StartUnread(a) ==
  /\ at = "off" /\ file.kind # "missing" /\ Spend("unread")
  /\ account' = a /\ setAside' = FALSE /\ lapse' = FALSE
  /\ at' = "idle" /\ saved' = None
  /\ UNCHANGED <<file, backup, temporary, next>>

\* save() goes on with the entries it read, unless it has nothing to forget.
GoesOn(entries, n) ==
  IF n = None /\ entries[account] = None
  THEN at' = "idle" /\ UNCHANGED next
  ELSE at' = "writing" /\ next' = [entries EXCEPT ![account] = n]

\* _read(for_writing=True): a file of another kind is set aside, once.
Save(n) ==
  /\ at = "idle" /\ Spend("save") /\ saved' = n
  /\ IF file.kind = "binary"
     THEN at' = "raised" /\ lapse' = TRUE /\ UNCHANGED <<file, backup, setAside, next>>
     ELSE /\ GoesOn(file.entries, n) /\ lapse' = (at' = "writing")
          /\ IF file.kind \in {"other", "half"} /\ ~setAside
             THEN backup' = file /\ file' = Missing /\ setAside' = TRUE
             ELSE UNCHANGED <<file, backup, setAside>>
  /\ UNCHANGED <<temporary, account>>

SaveUnread(n) ==
  /\ at = "idle" /\ file.kind # "missing" /\ Spend("unread")
  /\ saved' = n /\ GoesOn(NoEntries, n) /\ lapse' = TRUE
  /\ UNCHANGED <<file, backup, temporary, account, setAside>>

\* Setting the file aside fails: os.replace() raises, and nothing is written.
SetAsideFails(n) ==
  /\ at = "idle" /\ file.kind \in {"other", "half"} /\ ~setAside /\ Spend("unwritten")
  /\ saved' = n /\ lapse' = TRUE
  /\ UNCHANGED <<file, backup, temporary, at, account, next, setAside>>

\* temporary.write_text() and os.replace(), either of which may fail.
Write ==
  /\ at = "writing" /\ at' = "replacing" /\ temporary' = Ours(next)
  /\ UNCHANGED <<file, backup, account, saved, next, setAside, lapse, used>>

Replace ==
  /\ at = "replacing" /\ at' = "idle"
  /\ file' = temporary /\ temporary' = Missing /\ lapse' = FALSE
  /\ UNCHANGED <<backup, account, saved, next, setAside, used>>

Unwritten ==
  /\ at \in {"writing", "replacing"} /\ Spend("unwritten") /\ at' = "idle"
  /\ temporary' \in IF at = "writing" THEN {temporary, Odd("half")} ELSE {temporary}
  /\ UNCHANGED <<file, backup, account, saved, next, setAside, lapse>>

\* shutdown() saves what it has and ends; a kill does so anywhere.
Exit ==
  /\ at = "idle" /\ at' = "off"
  /\ UNCHANGED <<file, backup, temporary, account, saved, next, setAside, lapse, used>>

Kill ==
  /\ at # "off" /\ Spend("kill") /\ at' = "off"
  /\ temporary' \in IF at = "writing" THEN {temporary, Odd("half")} ELSE {temporary}
  /\ UNCHANGED <<file, backup, account, saved, next, setAside, lapse>>

\* Another program, or another version of this one, leaves another file.
Rewrite ==
  /\ Spend("strange") /\ \E kind \in Strange : file' = Odd(kind)
  /\ UNCHANGED <<backup, temporary, at, account, saved, next, setAside, lapse>>

Next ==
  \/ \E a \in Account : Start(a) \/ StartUnread(a)
  \/ \E n \in Network \cup {None} : Save(n) \/ SaveUnread(n) \/ SetAsideFails(n)
  \/ Write \/ Replace \/ Unwritten \/ Exit \/ Kill \/ Rewrite

Spec == Init /\ [][Next]_vars

-----------------------------------------------------------------------------
\* What the program last saved is what it will load again, also after a kill
\* or a failure at any point of an earlier save; the other accounts' entries
\* are there, too.  Unless the file could not be read or was rewritten.
Remembered ==
  used["strange"] + used["unread"] = 0 =>
    /\ at = "idle" /\ ~lapse => Parsed(file.entries[account]) = saved
    /\ file.kind \in {"ours", "missing"}
    /\ at \in {"writing", "replacing"} =>
         \A a \in Account \ {account} : next[a] = file.entries[a]

\* "... so a crash never leaves half a file behind" (state.py:127): a file
\* that is written in part is another program's.
NeverHalf == file.kind = "half" => "half" \in Strange

\* "A file with another version, or one that can't be read, is set aside ...
\* the first time it would be overwritten" (state.py:9): replacing the file
\* keeps what it has about other accounts, unless it was set aside.
SetAsideFirst ==
  [][ Replace /\ ~setAside
        => \A a \in Account \ {account} : file'.entries[a] = file.entries[a] ]_vars

\* "... and otherwise ignored" (state.py:11): no file keeps the program from
\* starting or from going on.
Ignored == at # "raised"
=============================================================================

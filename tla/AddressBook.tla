----------------------------- MODULE AddressBook -----------------------------
(***************************************************************************)
(* What a network promises about virtual addresses, without PCs, messages, *)
(* owners or lobbies: roster.py's "a member keeps its address while it is  *)
(* offline and only gives it up with Leave Network; only then can the      *)
(* address be given to someone else".  What happens to the address of a    *)
(* user that left is nobody's business here.                               *)
(***************************************************************************)
EXTENDS RosterData

VARIABLES
  open,  \* whether the network still exists
  book,  \* the roster the network goes by
  held   \* the address every user's PC counts on, online or offline

bookVars == <<open, book, held>>

Init ==
  /\ open = TRUE
  /\ book = Empty
  /\ held = Empty

\* What the book says agrees with what the PCs count on.
Honours(b, h) == \A m \in Members(h) : b[m] = h[m]

\* The book changes, and the PC of n may learn its address or give it up.
Keep(n) ==
  /\ open
  /\ book' \in Roster /\ WellFormed(book')
  /\ held' \in {held, [held EXCEPT ![n] = book'[n]], [held EXCEPT ![n] = NoAddr]}
  /\ Honours(book', held')
  /\ UNCHANGED open

\* The network ends.  Whoever is offline does not know that yet; the last
\* member may end it by leaving.
Dissolve(n) ==
  /\ open' = FALSE
  /\ book' = Empty
  /\ held' \in {held, [held EXCEPT ![n] = NoAddr]}

Next == \E n \in Node : Keep(n) \/ Dissolve(n)

Spec == Init /\ [][Next]_bookVars

=============================================================================

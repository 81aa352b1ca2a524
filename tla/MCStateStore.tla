---------------------------- MODULE MCStateStore ----------------------------
(***************************************************************************)
(* Small instances of StateStore for TLC.                                  *)
(***************************************************************************)
EXTENDS StateStore

Bounds(start, save, unread, unwritten, kill, strange) ==
  [start |-> start, save |-> save, unread |-> unread, unwritten |-> unwritten,
   kill |-> kill, strange |-> strange]

\* Three starts and three saves, with a failure, a kill and another's file.
StoreLimit == Bounds(3, 3, 1, 1, 1, 1)
=============================================================================

---------------------------- MODULE MCController ----------------------------
(***************************************************************************)
(* Instances of Controller for TLC.  Lobbies and calls are model values:   *)
(* nothing tells two lobbies apart, nor two calls.                         *)
(***************************************************************************)
EXTENDS Controller, TLC

Interchangeable == Permutations(Lobby) \cup Permutations(Call)
=============================================================================

SPECIFICATION Spec
CONSTANTS
  Lobby = {lobby1, lobby2}
  NoLobby = NoLobby
  Call = {call1}
  NoCall = NoCall
  Slow = TRUE
SYMMETRY Interchangeable
INVARIANTS OfflineIsOutside

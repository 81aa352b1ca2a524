SPECIFICATION Spec
CONSTANTS
  Lobby = {lobby1, lobby2}
  NoLobby = NoLobby
  Call = {call1, call2}
  NoCall = NoCall
  Slow = FALSE
SYMMETRY Interchangeable
INVARIANTS OnlineInLobby

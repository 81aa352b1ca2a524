SPECIFICATION FairSpec
CONSTANTS
  Lobby = {lobby1}
  NoLobby = NoLobby
  Call = {call1}
  NoCall = NoCall
  Slow = TRUE
INVARIANTS OnlineInLobby
PROPERTIES FarewellEnds RestoringEnds

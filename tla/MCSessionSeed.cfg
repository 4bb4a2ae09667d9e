SPECIFICATION Spec
CHECK_DEADLOCK FALSE
CONSTANTS
  Chats = {family, work}
  TurnKinds = {"chat", "compact"}
  StreamedChats = {}
  MaxTurns = 2
  MaxErrors = 0
  MaxCrashes = 0
INVARIANTS
  SummaryIsSeen

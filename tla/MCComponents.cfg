CONSTANTS
  wc_MsgIds = {"m"}
  wc_Users = {"ann", "eve"}
  wc_AllowFrom = {"ann"}
  wc_MsgTTL = 1
  wc_ReplyTTL = 1
  wc_Scan = 1
  wc_MaxTries = 2
  wc_MaxCalls = 2
  wc_MaxTime = 2
  wc_MaxReloads = 1
  fs_Hooks = {"h1", "h2"}
  fs_Sends = {"s1"}
  fs_Life = 3
  fs_Margin = 1
  fs_MaxTime = 3
  tg_MaxUpdates = 2
  tg_MaxObjects = 2
  ts_StatusGap = 2
  ts_ContentGap = 3
  ts_DraftGap = 2
  ts_Heartbeat = 4
  ts_Waits = {4}
  ts_ChunkSize = 1
  ts_MaxCall = 1
  ts_MaxEvents = 2
  ts_MaxRefusals = 2
  ts_MaxTime = 9
  mx_MaxEvents = 2
  mx_MaxObjects = 3
  mx_MaxErrors = 1
  mx_MaxCrashes = 1
  cm_Names = {"whatsapp", "other"}
  cm_MaxApplies = 3
  cm_MaxFaults = 2
  ws_MaxConns = 3
  ws_MaxQuestions = 1
  ws_MaxReloads = 1
  ws_Pieces = 2
  rs_Sessions = {"s", "t"}
  rs_MaxEntries = 2
  rs_TTL = 2
  rs_MaxResponses = 3
  rs_MaxReloads = 1
  rs_MaxTime = 4
  se_Chats = {"family", "work"}
  se_TurnKinds = {"chat", "isolated", "new", "compact"}
  se_StreamedChats = {"work"}
  se_MaxTurns = 4
  se_MaxErrors = 2
  se_MaxCrashes = 1
  me_Facts = {"tea", "rain"}
  me_Day = 2
  me_Behind = 1
  me_ReviewDays = 2
  me_Shown = 1
  me_Interval = 3
  me_MaxTime = 5
  me_MaxApplies = 2
  me_MaxTurns = 2
  cv_Cap = 1
  cv_EventCap = 1
  cv_MaxFrames = 2
  cv_MaxTurns = 2
  cv_MaxChunks = 1
  vr_DoneCap = 1
  vr_EventCap = 1
  vr_MaxLines = 1
  vr_MaxHeard = 3
SPECIFICATION Spec
CHECK_DEADLOCK FALSE
INVARIANTS
  WeComKeepsItsChats
  FeishuTokensAreGood
  TelegramHandlesEachUpdate
  TelegramStreamsEndWell
  MatrixSyncResumes
  ChannelsAreHandedOver
  WebClientsAreToldApart
  ResponsesAreContinued
  
  MemoryIsLookedAfter
PROPERTIES
  VoiceTurnsDoNotMix

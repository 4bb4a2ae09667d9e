SPECIFICATION FairSpec
CHECK_DEADLOCK FALSE
PROPERTIES
  
  StopsReturn
  VoiceSessionsEnd

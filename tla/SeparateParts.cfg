SPECIFICATION PartsSpec
CONSTANTS
  MaxMessageKeys = 3
  MaxForwardJumps = 4
  Counters = {0, 1, 2, 3, 4, 5, 6, 7, 8}
  Attempts = {a1, a2}
  None = None
  Screens = {chat}
  Collectors = {s1, s2}
  Fetches = {f1, f2}
  MaxChanges = 1
  NoContact = NoContact
  Starts = {0, 2, 5}
  MaxSize = 8
  MaxVersion = 2
  MaxSlips = 1
  NoVersion = NoVersion
  Bytes = {0, 1}
  MaxLen = 4
  MaxChunk = 3
  MaxContent = 5
  MaxZeros = 2
INVARIANTS LateMessageOpens CredentialsAreCurrent MissingAvatarIsExplained SearchFinds HonestIsAccepted NextMonitorIsExact ReleasedIsGenuine EndIsWhole GenuineIsAccepted PaddingComesOff
PROPERTIES OpensOnce SetupHasPreKeys MonitoringClimbs
CHECK_DEADLOCK FALSE

SPECIFICATION SenderSpec
CONSTANTS
  TextCalls = {t}
  ImageCalls = {i}
  Devices = {1, 2}
  RegistrationIds <- SmallRegistrationIds
  NoValue = NoValue
INVARIANTS AcceptedAtMostOnce UndisturbedSucceeds StoredTextWasTaken
PROPERTY CallsEnd
CHECK_DEADLOCK FALSE

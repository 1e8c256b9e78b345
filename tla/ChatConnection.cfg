SPECIFICATION Spec
CONSTANTS
  Calls = {a, b}
  Keepalives = {k}
  MaxIncoming = 1
  IdSpace = 4
  InitialRequestId = 3
  None = None
INVARIANTS NoCallForgotten AnswerIsOwn FinishedIsTold ReasonIsReported
PROPERTIES CallsComeBack DisconnectEnds
CHECK_DEADLOCK FALSE

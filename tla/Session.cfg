SPECIFICATION Spec
CONSTANTS
  Parties <- MCParties
  SignedPreKey <- MCSignedPreKey
  OneTimePreKeys = {1}
  MaxMessageKeys = 5
  MaxForwardJumps = 5
  MaxReceiverChains = 5
  ArchivedStatesMax = 5
  MaxBundles = 2
  MaxSends = 3
INVARIANTS EveryMessageOpens DuplicateWasOpened FreshMessageKeys
PROPERTY OpensOnce
CHECK_DEADLOCK FALSE

SPECIFICATION ConcurrentSpec
CONSTANTS
  Parties <- MCParties
  SignedPreKey <- MCSignedPreKey
  OneTimePreKeys = {}
  MaxMessageKeys = 5
  MaxForwardJumps = 5
  MaxReceiverChains = 5
  ArchivedStatesMax = 5
  MaxBundles = 1
  MaxSends = 2
  Threads = {t1, t2}
PROPERTY OpensOnce
CHECK_DEADLOCK FALSE

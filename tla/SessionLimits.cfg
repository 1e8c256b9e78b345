SPECIFICATION Spec
CONSTANTS
  Parties <- MCParties
  SignedPreKey <- MCSignedPreKey
  OneTimePreKeys = {k1, k2, k3}
  MaxMessageKeys = 0
  MaxForwardJumps = 1
  MaxReceiverChains = 1
  ArchivedStatesMax = 1
  MaxBundles = 3
  MaxSends = 2
SYMMETRY Symmetry
INVARIANT TypeOK
PROPERTY OpensOnce
CHECK_DEADLOCK FALSE

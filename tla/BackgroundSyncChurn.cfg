SPECIFICATION FairSpec
CONSTANTS
  Clients = {c1}
  Sockets = {s1, s2, s3}
  None = None
  MaxOrphans = 1
PROPERTY PersistentConnection

SPECIFICATION FairServiceSpec
CONSTANTS
  Clients = {c1, c2}
  Sockets = {s1, s2}
  None = None
  MaxOrphans = 1
  Intervals = {0, 15}
  MaxQueued = 1
INVARIANTS SyncNeverForgotten PollingSurvivesKill NoLeakedSocket NeverStranded
PROPERTIES PollingDisconnects PersistentComesBack StoppedStaysStopped ConnectedAgain

SPECIFICATION InboxSpec
CONSTANTS
  m1 = m1
  m2 = m2
  r1 = r1
  t1 = t1
  ann = ann
  Messages = {m1, m2}
  Outgoing = {t1}
  Contacts = {ann}
  With <- MCWith
  Receipts = {}
  Coroutines = {h1, h2}
  MaxRows = 2
  MaxRepeats = 1
  MaxCrashes = 1
SYMMETRY Symmetry
INVARIANTS MessagesAreReachable TextStoredOnce
CHECK_DEADLOCK FALSE

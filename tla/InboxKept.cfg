SPECIFICATION InboxSpec
CONSTANTS
  m1 = m1
  m2 = m2
  r1 = r1
  t1 = t1
  ann = ann
  Messages = {m1, r1}
  Outgoing = {t1}
  Contacts = {ann}
  With <- MCWith
  Receipts = {r1}
  Coroutines = {h1}
  MaxRows = 2
  MaxRepeats = 0
  MaxCrashes = 1
SYMMETRY Symmetry
INVARIANT AcknowledgedIsKept
CHECK_DEADLOCK FALSE

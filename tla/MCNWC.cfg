\* An order is placed while the poll loop asks about an invoice, on one connection that
\* is dialled anew, and all that may fail.
CONSTANTS
  order = order
  poll = poll
  h1 = h1
  h2 = h2
  Calls = {order, poll}
  About <- MCAbout
  Hashes = {h1, h2}
  NoHash = noHash
  Nobody = nobody
  Earlier = earlier
  MaxDials = 2
  Faults = TRUE
SPECIFICATION FairSpec
INVARIANTS NoConnectionIsLeaked
PROPERTIES RepliesAreHeard CallsEnd BackendSpec
CHECK_DEADLOCK FALSE

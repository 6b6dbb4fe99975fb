\* NIP-05 names: two buyers, one name.
CONSTANTS
  Pubkeys = {alice, bob}
  Nobody = nobody
  GroupIds = {}
  NoGroup = noGroup
  NewGroup = newGroup
  Names = {n1}
  NoName = noName
  Hashes = {h1, h2}
  NoHash = noHash
  Requests = {r1, r2}
  Workers = {}
  Poller = poller
  Backends = {b1, b2}
  Orders <- MCNameOrders
  InvoiceTTL = 1
  PeriodTime = 2
  IncludedMB = 1
  NameTime = 1
  MaxTime = 1
  Outages = TRUE
  Meddling = TRUE
  Punctual = FALSE
SPECIFICATION Spec
SYMMETRY RequestSymmetry
PROPERTIES HeldNameIsKept

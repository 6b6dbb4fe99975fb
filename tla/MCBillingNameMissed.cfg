\* A paid name that is not granted though no admin touched it.
CONSTANTS
  Pubkeys = {alice, bob}
  Nobody = nobody
  GroupIds = {}
  NoGroup = noGroup
  NewGroup = newGroup
  Names = {n1}
  NoName = noName
  Hashes = {h1, h2, h3}
  NoHash = noHash
  Requests = {r1}
  Workers = {w1}
  Poller = poller
  Backends = {b1}
  Orders <- MCNameOrders
  InvoiceTTL = 1
  PeriodTime = 2
  IncludedMB = 1
  NameTime = 1
  MaxTime = 2
  Outages = TRUE
  Meddling = FALSE
  Punctual = FALSE
SPECIFICATION Spec
PROPERTIES NameMissedOnlyByAdmin

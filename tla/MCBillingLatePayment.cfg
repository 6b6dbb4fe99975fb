\* What the poll loop does not: a payment late in the hour.
CONSTANTS
  Pubkeys = {alice}
  Nobody = nobody
  GroupIds = {}
  NoGroup = noGroup
  NewGroup = newGroup
  Names = {n1}
  NoName = noName
  Hashes = {h1}
  NoHash = noHash
  Requests = {r1}
  Workers = {}
  Poller = poller
  Backends = {b1}
  Orders <- MCMixedOrders
  InvoiceTTL = 2
  PeriodTime = 2
  IncludedMB = 1
  NameTime = 1
  MaxTime = 2
  Outages = FALSE
  Meddling = FALSE
  Punctual = TRUE
SPECIFICATION FairSpec
PROPERTIES PollerCatchesPayment

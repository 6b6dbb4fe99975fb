\* What the poll loop alone guarantees.
CONSTANTS
  Pubkeys = {alice}
  Nobody = nobody
  GroupIds = {}
  NoGroup = noGroup
  NewGroup = newGroup
  Names = {n1}
  NoName = noName
  Hashes = {h1, h2}
  NoHash = noHash
  Requests = {r1}
  Workers = {}
  Poller = poller
  Backends = {b1}
  Orders <- MCMixedOrders
  InvoiceTTL = 2
  PeriodTime = 2
  IncludedMB = 1
  NameTime = 1
  MaxTime = 3
  Outages = FALSE
  Meddling = FALSE
  Punctual = TRUE
SPECIFICATION FairSpec
INVARIANTS AccountsAreAdmitted
PROPERTIES EarlyPaymentIsCredited

\* Relay access: accounts and groups.
CONSTANTS
  Pubkeys = {alice}
  Nobody = nobody
  GroupIds = {g1}
  NoGroup = noGroup
  NewGroup = newGroup
  Names = {}
  NoName = noName
  Hashes = {h1, h2}
  NoHash = noHash
  Requests = {r1}
  Workers = {w1}
  Poller = poller
  Backends = {b1}
  Orders <- MCAccessOrders
  InvoiceTTL = 1
  PeriodTime = 2
  IncludedMB = 1
  NameTime = 2
  MaxTime = 1
  Outages = TRUE
  Meddling = TRUE
  Punctual = FALSE
SPECIFICATION Spec
SYMMETRY HashSymmetry
INVARIANTS PaidIsSettled QuotaIsLedger TermCoversPaidDays AccountStorageHasAPlan
PROPERTIES PaidIsFinal LifetimeIsKept LedgerSpec

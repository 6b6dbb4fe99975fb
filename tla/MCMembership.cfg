\* Two people, a code with one seat, two handlers at once, stops at any point.
CONSTANTS
  alice = alice
  bob = bob
  seat = seat
  auto = auto
  Pubkeys = {alice, bob}
  Codes = {seat, auto}
  NoCode = noCode
  Terms <- MCTerms
  Issued = {}
  Requests = {1, 2, 3, 4, 5, 6, 7, 8}
  RequestOf <- MCRequestOf
  AllowDays = 1
  AllowMB = 1
  AtOnce = 2
  Horizon = 2
  Crashes = TRUE
SPECIFICATION FairListSpec
INVARIANTS NeverOverIssued QuotaIsLedger StaleIsPending
PROPERTIES NothingIsTaken ReadmissionIsSpent SignalledIsListed
CHECK_DEADLOCK FALSE

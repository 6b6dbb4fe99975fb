\* Joins, comps, bans, codes minted on request: the requests that are not in MCMembership.cfg.
CONSTANTS
  alice = alice
  bob = bob
  seat = seat
  auto = auto
  Pubkeys = {alice, bob}
  Codes = {seat, auto}
  NoCode = noCode
  Terms <- MCTerms
  Issued = {}
  Requests = {3, 4, 9, 10, 11, 12}
  RequestOf <- MCRequestOf
  AllowDays = 1
  AllowMB = 1
  AtOnce = 2
  Horizon = 2
  Crashes = TRUE
SPECIFICATION FairListSpec
INVARIANTS ListTypeOK NeverOverIssued QuotaIsLedger StaleIsPending
PROPERTIES NothingIsTaken ReadmissionIsSpent SignalledIsListed
CHECK_DEADLOCK FALSE

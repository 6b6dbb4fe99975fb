\* A ban written while a join or a comp is under way is undone.
CONSTANTS
  alice = alice
  bob = bob
  seat = seat
  auto = auto
  Pubkeys = {alice, bob}
  Codes = {seat, auto}
  NoCode = noCode
  Terms <- MCTerms
  Issued = {}
  Requests = {3, 4, 9, 10, 11, 12}
  RequestOf <- MCRequestOf
  AllowDays = 1
  AllowMB = 1
  AtOnce = 2
  Horizon = 2
  Crashes = TRUE
SPECIFICATION ListSpec
PROPERTY BansAreSeen
CHECK_DEADLOCK FALSE

\* What the panel's way in leaves undone: a code is made and claimed there, and no more.
CONSTANTS
  alice = alice
  bob = bob
  seat = seat
  auto = auto
  Pubkeys = {alice, bob}
  Codes = {seat, auto}
  NoCode = noCode
  Terms <- MCTerms
  Issued = {}
  Requests = {2, 7}
  RequestOf <- MCRequestOf
  AllowDays = 1
  AllowMB = 1
  AtOnce = 2
  Horizon = 1
  Crashes = FALSE
SPECIFICATION FairListSpec
PROPERTY MembersAreListed
CHECK_DEADLOCK FALSE

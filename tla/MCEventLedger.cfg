\* The usage ledger: who pays for what, and what is given back.
CONSTANTS
  alice = alice
  bob = bob
  team = team
  note = note
  old = old
  new = new
  mail = mail
  gone = gone
  drop = drop
  Pubkeys = {alice, bob}
  Nobody = nobody
  GroupIds = {team}
  NoGroup = noGroup
  NoEvent = noEvent
  Events <- MCLedgerEvents
  EventOf <- MCLedgerEventOf
  MaxSize = 1
  Quota <- MCLedgerQuota
  Accounts = {alice}
  GroupOf <- MCLedgerGroups
  Writers = {w1, w2}
  Erasers = {m1}
  Bannable = {}
  Expiring = {mail}
  Outdated = {mail}
  Suspended = {team}
  Leavers = {team}
  Joiners = {bob}
  Unvanished = {}
  Crashes = TRUE
  Faults = FALSE
SPECIFICATION Spec
SYMMETRY WriterSymmetry
INVARIANTS CountersAreRows EveryEventIsBilled OvershootIsBounded

\* A stored event that loses its bill.
CONSTANTS
  alice = alice
  bob = bob
  team = team
  note = note
  old = old
  new = new
  mail = mail
  gone = gone
  drop = drop
  Pubkeys = {alice, bob}
  Nobody = nobody
  GroupIds = {}
  NoGroup = noGroup
  NoEvent = noEvent
  Events <- MCLedgerEvents
  EventOf <- MCLedgerEventOf
  MaxSize = 1
  Quota <- MCStrangerQuota
  Accounts = {alice}
  GroupOf <- MCStrangerGroups
  Writers = {w1}
  Erasers = {}
  Bannable = {}
  Expiring = {}
  Outdated = {}
  Suspended = {}
  Leavers = {}
  Joiners = {}
  Unvanished = {}
  Crashes = FALSE
  Faults = FALSE
SPECIFICATION Spec
PROPERTIES ReconcileDropsOnlyGoneEvents

\* A request to vanish that takes itself away.
CONSTANTS
  alice = alice
  bob = bob
  team = team
  note = note
  old = old
  new = new
  mail = mail
  gone = gone
  drop = drop
  Pubkeys = {alice}
  Nobody = nobody
  GroupIds = {}
  NoGroup = noGroup
  NoEvent = noEvent
  Events <- MCErasureEvents
  EventOf <- MCErasureEventOf
  MaxSize = 1
  Quota <- MCErasureQuota
  Accounts = {alice}
  GroupOf <- MCErasureGroups
  Writers = {w1}
  Erasers = {}
  Bannable = {}
  Expiring = {}
  Outdated = {}
  Suspended = {}
  Leavers = {}
  Joiners = {}
  Unvanished = {}
  Crashes = FALSE
  Faults = FALSE
SPECIFICATION Spec
PROPERTIES VanishRequestSurvives

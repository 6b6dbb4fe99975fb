\* What is banned, deleted or forgotten stays out.
CONSTANTS
  alice = alice
  bob = bob
  team = team
  note = note
  old = old
  new = new
  mail = mail
  gone = gone
  drop = drop
  Pubkeys = {alice}
  Nobody = nobody
  GroupIds = {}
  NoGroup = noGroup
  NoEvent = noEvent
  Events <- MCErasureEvents
  EventOf <- MCErasureEventOf
  MaxSize = 1
  Quota <- MCErasureQuota
  Accounts = {alice}
  GroupOf <- MCErasureGroups
  Writers = {w1, w2}
  Erasers = {m1}
  Bannable = {note}
  Expiring = {drop}
  Outdated = {}
  Suspended = {}
  Leavers = {alice}
  Joiners = {}
  Unvanished = {alice}
  Crashes = TRUE
  Faults = TRUE
SPECIFICATION Spec
SYMMETRY WriterSymmetry
INVARIANTS BannedStaysOut ForgottenStaysForgotten DeletedStaysOut

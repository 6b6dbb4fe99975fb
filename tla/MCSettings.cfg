\* Kind calls, an admin who comes and goes, three forms (one is refused by a relay that
\* has no key yet), two calls at once, two rows, a restart, a backend that may not start.
CONSTANTS
  text = text
  chat = chat
  owner = owner
  aide = aide
  old = old
  new = new
  first = first
  key = key
  Kinds = {text, chat}
  Pubkeys = {owner, aide}
  Owners = {owner}
  Names = {old, new}
  DefaultName = old
  Relays = {listed}
  NoRelays = noRelays
  DefaultRelays = listed
  Secrets = {first, key}
  NoSecret = noSecret
  Masked = masked
  AtFirst <- MCAtFirst
  NoRow = noRow
  Calls = {2, 4, 7, 8, 9, 10}
  CallOf <- MCCallOf
  AtOnce = 2
  Boots = 1
  Faults = TRUE
SPECIFICATION Spec
INVARIANTS EditsStick BackendFollows
PROPERTIES KindsApart
CHECK_DEADLOCK FALSE

\* A form that puts a backend right that did not start with the process.
CONSTANTS
  text = text
  chat = chat
  owner = owner
  aide = aide
  old = old
  new = new
  first = first
  key = key
  Kinds = {text, chat}
  Pubkeys = {owner, aide}
  Owners = {owner}
  Names = {old, new}
  DefaultName = old
  Relays = {listed}
  NoRelays = noRelays
  DefaultRelays = listed
  Secrets = {first, key}
  NoSecret = noSecret
  Masked = masked
  AtFirst <- MCAtFirst
  NoRow = noRow
  Calls = {2, 7}
  CallOf <- MCCallOf
  AtOnce = 2
  Boots = 0
  Faults = TRUE
SPECIFICATION Spec
PROPERTIES BackendIsPickedUp
CHECK_DEADLOCK FALSE

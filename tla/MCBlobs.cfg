\* Two users and one admin's powers, two handlers at once, one file.
CONSTANTS
  alice = alice
  bob = bob
  Users = {alice, bob}
  Nobody = nobody
  Admins = {bob}
  Hashes = {h1}
  NoHash = noHash
  Exts = {png, jpg}
  Quota <- MCQuota
  Requests = {r1, r2}
  Vanishers = {alice}
  Horizon = 2
  Outages = TRUE
  Disconnects = TRUE
SPECIFICATION Spec
SYMMETRY RequestSymmetry
INVARIANTS FilesAreClaimed PayersAreOwners
PROPERTIES ClaimedBytesStay

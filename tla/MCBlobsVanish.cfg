\* A user uploads a file and asks to be forgotten.
CONSTANTS
  alice = alice
  bob = bob
  Users = {alice, bob}
  Nobody = nobody
  Admins = {bob}
  Hashes = {h1}
  NoHash = noHash
  Exts = {png}
  Quota <- MCQuota
  Requests = {r1}
  Vanishers = {alice}
  Horizon = 2
  Outages = FALSE
  Disconnects = FALSE
SPECIFICATION Spec
PROPERTIES VanishRefundsFiles

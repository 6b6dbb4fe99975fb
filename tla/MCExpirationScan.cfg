\* One restart, and a newer event that fills the answer of the scan: nothing fails.
CONSTANTS
  story = story
  note = note
  Events = {story, note}
  Expires <- MCExpires
  CreatedAt <- MCCreatedAt
  QueryLimit = 1
  Horizon = 2
  Copies <- MCCopies
  Retracted = {}
  Boots = 1
  Faults = FALSE
SPECIFICATION FairSpec
PROPERTY ExpiredLeavesTheDisk
CHECK_DEADLOCK FALSE

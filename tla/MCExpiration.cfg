\* A story published up to twice, a note that pushes it out of the scan's answer,
\* one restart, a store that fails.
CONSTANTS
  story = story
  note = note
  Events = {story, note}
  Expires <- MCExpires
  CreatedAt <- MCCreatedAt
  QueryLimit = 1
  Horizon = 2
  Copies <- MCCopies
  Retracted = {story}
  Boots = 1
  Faults = TRUE
SPECIFICATION FairSpec
INVARIANTS ExpiringIsKnown
PROPERTIES ExpiredIsReclaimed EntriesDrain
CHECK_DEADLOCK FALSE

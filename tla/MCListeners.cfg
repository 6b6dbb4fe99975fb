CONSTANTS
  s1 = s1
  s2 = s2
  e1 = e1
  Sockets = {w1, w2}
  NoSocket = noSocket
  Ids = {s1, s2}
  NoId = noId
  Events = {e1}
  Handlers = {h1, h2, h3}
  None = none
  Casters = {b1}
  Capacity = 1
  Subscriptions <- MCSubscriptions
  MaxListeners = 4
  MaxReqs = 2
SPECIFICATION Spec
SYMMETRY MCSymmetry
INVARIANTS IndexesAgree GoneAreForgotten BroadcastReachesAll
PROPERTIES ClosedIsGone SubscribersSpec

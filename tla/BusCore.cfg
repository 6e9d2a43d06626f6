SPECIFICATION FairSpec
CONSTANTS
  w1 = w1
  w2 = w2
  c1 = c1
  c2 = c2
  c3 = c3
  Workers = {w1, w2}
  Conns = {c1, c2, c3}
  Home <- TwoWorkers
  Address <- SameAddress
  Speakers = {c1}
  NEvents = 2
  RedisUrl = TRUE
  NFaults = 1
  NBreaks = 1
  Nobody = Nobody
INVARIANTS NothingForgotten ChannelOrder NotEchoed RegisteredHasHandler OnceUnlessUnsure
PROPERTIES EveryEventArrives
CHECK_DEADLOCK FALSE

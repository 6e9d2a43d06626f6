SPECIFICATION FairSpec
CONSTANTS
  Requests = {r1, r2}
  NMessages = 2
  Endpoints = {"send", "read", "close", "settle", "delete"}
  Nobody = Nobody
INVARIANTS EventsAreTrue CountedOnce NoOrphanMessage
PROPERTIES ReadReaches MarkedByRecipient EveryRequestEnds

SPECIFICATION FairSpec
CONSTANTS
  Requests = {r1, r2}
  Users = {alice}
  NTokens = 2
  NPasswords = 1
  Endpoints = {"login", "refresh", "block", "unblock", "delete_user", "purge", "expire"}
  Nobody = Nobody
INVARIANTS ChainIsTrue NoOrphanToken
PROPERTIES EveryRequestEnds

SPECIFICATION Spec
CONSTANTS
  Requests = {r1, r2}
  Users = {alice}
  NTokens = 3
  NPasswords = 2
  Endpoints = {"login", "refresh", "logout", "change_password"}
  Nobody = Nobody
SYMMETRY RequestSymmetry
INVARIANTS OneLiveToken
PROPERTIES RevocationReaches SessionsSpec

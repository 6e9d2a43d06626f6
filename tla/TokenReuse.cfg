SPECIFICATION Spec
CONSTANTS
  Requests = {r1, r2}
  Users = {alice}
  NTokens = 2
  NPasswords = 1
  Endpoints = {"login", "refresh", "logout"}
  Nobody = Nobody
SYMMETRY RequestSymmetry
PROPERTIES ReuseRevokesAll

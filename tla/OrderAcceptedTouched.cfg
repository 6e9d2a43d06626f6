SPECIFICATION Spec
CONSTANTS
  alice = alice
  bob = bob
  carol = carol
  o1 = o1
  o2 = o2
  Requests = {r1, r2}
  Users = {alice, bob}
  Orders = {o1}
  NProposals = 1
  Customer <- OneCustomer
  Admins = {}
  MaxPerDay = 1
  Endpoints = {"create_proposal", "accept_proposal", "delete_proposal"}
  Nobody = Nobody
  NoOrder = NoOrder
SYMMETRY RequestSymmetry
PROPERTIES AcceptedLeftAlone

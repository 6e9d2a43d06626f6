SPECIFICATION FairSpec
CONSTANTS
  alice = alice
  bob = bob
  carol = carol
  o1 = o1
  o2 = o2
  Requests = {r1, r2}
  Users = {alice, bob}
  Orders = {o1}
  NProposals = 1
  Customer <- OneCustomer
  Admins = {bob}
  MaxPerDay = 1
  Endpoints = {"create_proposal", "accept_proposal", "update_order", "update_proposal", "close_order", "delete_order", "delete_proposal", "close_chat"}
  Nobody = Nobody
  NoOrder = NoOrder
INVARIANTS IInv
PROPERTIES EveryRequestEnds

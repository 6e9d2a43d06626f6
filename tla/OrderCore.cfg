SPECIFICATION Spec
CONSTANTS
  alice = alice
  bob = bob
  carol = carol
  o1 = o1
  o2 = o2
  Requests = {r1, r2}
  Users = {alice, bob, carol}
  Orders = {o1, o2}
  NProposals = 2
  Customer <- OneCustomer
  Admins = {}
  MaxPerDay = 1
  Endpoints = {"create_proposal", "accept_proposal", "close_order", "delete_proposal", "age"}
  Nobody = Nobody
  NoOrder = NoOrder
SYMMETRY PartySymmetry
INVARIANTS VerdictAgrees OpenUndecided ChatFollowsProposal ChosenChatOpen DeadlockNeedsRemoval DailyLimit OneProposalPerExecutor
PROPERTIES OrderMovesOn VerdictIsFinal DecisionIsComplete

SPECIFICATION Spec
CONSTANTS
  u1 = u1
  u2 = u2
  e1 = e1
  e2 = e2
  e3 = e3
  n1 = n1
  n2 = n2
  n3 = n3
  p1 = p1
  Requests = {r1, r2, r3}
  Users = {u1, u2}
  Emails = {e1, e2, e3}
  Names = {n1, n2, n3}
  Phones = {p1}
  Null = Null
  Spelled = {e3}
  FirstRow <- Rows
  Menu <- SmallMenu
  Things = {t1, t2}
  Related <- Shared
  NoRow = NoRow
  NoId = NoId
  Nothing = Nothing
SYMMETRY Symmetry
INVARIANTS IdentitiesUnique RefusalIsTrue DeadlockNeedsChange
PROPERTIES NoLostChange

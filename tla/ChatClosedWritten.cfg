SPECIFICATION Spec
CONSTANTS
  Requests = {r1, r2}
  NMessages = 2
  Endpoints = {"send", "close", "settle"}
  Nobody = Nobody
PROPERTIES ClosedStaysSilent

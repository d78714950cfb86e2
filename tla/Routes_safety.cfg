CONSTANTS
  Methods = {"GET", "POST"}
  Templates <- MCTemplates
  Requests <- MCRequests
  MaxRoutes = 3
SPECIFICATION Spec
INVARIANTS
  SubExact
  RightRoute
  Negotiated

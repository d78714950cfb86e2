SPECIFICATION Spec
CONSTANTS
  HTTP_MAX_HEADER_SIZE = 90
  ULLONG_MAX = 63
  Messages <- MCMessages
INVARIANTS
  Assertions
  NeverError
  ReadAsSent
  NothingMissing
  HeadBounded
  PartsAsSent
  QueryAsSent
  CookiesAsSent
PROPERTIES
  HeadStable
  PiecesJoin
CHECK_DEADLOCK FALSE

SPECIFICATION Spec
CONSTANTS
  Clients <- Python
  Lead <- Nothing
  Scheme <- Plain
  Login <- Somebody
  Host <- Gateway
  Port <- Nothing
  Rest <- InQuery
  Explicit <- Somebody
  TooLong = {"long"}
INVARIANT AsWritten
CHECK_DEADLOCK FALSE

SPECIFICATION Spec
CONSTANTS
  Clients <- Every
  Lead <- MCLead
  Scheme <- MCScheme
  Login <- MCLogin
  Host <- MCHost
  Port <- MCPort
  Rest <- MCRest
  Explicit <- MCExplicit
  TooLong = {"long"}
INVARIANT Conforms
\* A proxy is written once.
CHECK_DEADLOCK FALSE

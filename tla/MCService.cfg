SPECIFICATION ServiceSpec
CONSTANTS
  Servers = {http, https}
  MaxVersion = 2
INVARIANTS NothingLeftServing GraceIsHonoured CertSound
PROPERTIES FailureReturns ServiceStops

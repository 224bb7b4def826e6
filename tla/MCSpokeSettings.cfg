SPECIFICATION Spec
CONSTANTS
  Sessions = {s1, s2}
  Requests <- AllRequests
  Protocols <- AllProtocols
  Transport <- Transports
  Initial <- Start
  Credential = "old"
  MaxFaults = 2
  None = None
INVARIANTS SpokeConsistent AgreeWhenQuiet
PROPERTY RollbackSparesWinners

SPECIFICATION Spec
CONSTANTS
  Processors <- SolarisProcessors
  X86Names <- SolarisX86Names
  SparcNames <- MCSparcNames
  Systems <- SolarisSystems
  Requests <- SolarisRequests
INVARIANT AcceptedIsSupported

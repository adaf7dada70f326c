SPECIFICATION Spec
CONSTANTS
  Processors <- MCProcessors
  X86Names <- MCX86Names
  SparcNames <- MCSparcNames
  Systems <- MCSystems
  Requests <- MCRequests
INVARIANTS SupportedGetsItsLibrary ThreadsLinkable

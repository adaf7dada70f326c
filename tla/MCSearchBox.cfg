CONSTANTS
  Index <- MCIndex
  Escaped <- MCEscaped
  Label <- MCLabel
  Texts <- MCTexts
  MaxTimers = 2
SPECIFICATION FairSpec
INVARIANTS
  PanelState
PROPERTIES
  SelectionStays
  EscapeClears
  OpensLate
  Converges

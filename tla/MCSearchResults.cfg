CONSTANTS
  Index <- MCIndex
  Escaped <- MCEscaped
  Texts <- MCTexts
SPECIFICATION Spec
INVARIANTS
  SearchSound
  FocusVisible
PROPERTIES
  DownIsNext
  UpIsPrevious

SPECIFICATION MarkupSpec
CONSTANTS
  Words <- MCWords
  Descriptions <- MCDescriptions
  Strays <- MCStrays
  MAX_STRAYS = 1
INVARIANTS PangoAccepts RendersDescription
PROPERTY CutShowsBeginning

SPECIFICATION Spec
CONSTANTS
  GapSize = 1
  Keyboard <- MCKeyboard
  Glyph <- MCGlyph
  Endings <- MCEndings
  Help <- MCHelp
  NbHist = 2
  Aliases <- MCAliases
  Careful = TRUE
  MaxLen = 3
INVARIANTS
  EditorSound
PROPERTIES
  ImplementsLine
CHECK_DEADLOCK FALSE
VIEW MCView

CONSTANTS
  a = a
  b = b
  p = p
  NUL = NUL
  Enter = Enter
  Newline = Newline
  Backspace = Backspace
  Space = Space
  VGA_WIDTH = 4
  VGA_HEIGHT = 6
  Characters <- MCCharacters
  Letters <- MCLetters
  BUFFER = 5
  ARG = 3
  BENOS_MAX_PROGRAM_ALLOCATIONS = 3
  Banner <- MCBanner
  Prompt <- MCPrompt
  Strings <- MCStrings
  MaxKeys = 7
  MaxLines = 3
  MaxOthers = 1

SPECIFICATION Spec
INVARIANTS TypeOK ShowsWhatWasPrinted LineIsWhatIsSeen WordsReachTheSystem
CHECK_DEADLOCK FALSE

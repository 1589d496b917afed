SPECIFICATION Spec
CONSTANTS
  Word = 256
  Texts <- MCTexts
  Pairs <- MCPairs
  Sizes = {1, 3}
  Inputs <- MCInputs
INVARIANTS
  TypeOK PrintedText ParsedValue CopyVerdict EqualsVerdict WordRead

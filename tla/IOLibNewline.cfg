SPECIFICATION Spec
CONSTANTS
  Word = 256
  Texts <- MCTexts
  Pairs <- MCPairs
  Sizes = {3}
  Inputs <- MCInputs
INVARIANT
  NoBlankInWord

SPECIFICATION Spec
CONSTANTS
  BufSize = 4
  Dictionaries <- MCOnlyWords
  Inputs <- MCInputs
INVARIANT
  FindsIffInDict

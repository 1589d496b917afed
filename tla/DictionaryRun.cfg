SPECIFICATION FairSpec
CONSTANTS
  BufSize = 4
  Dictionaries <- MCDictionaries
  Inputs <- MCInputs
INVARIANTS
  TypeOK LineRead CursorsInside AnswerFromDictionary KeyFound
PROPERTY
  Halts

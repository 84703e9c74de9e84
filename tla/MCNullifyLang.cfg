SPECIFICATION Spec
CONSTANTS
  Texts <- MCTexts
  ErrTexts <- MCErrTexts
  Files <- MCFiles
  Languages = {"pl"}
  Schemas = {"new"}
PROPERTY
  NullifyKeepsTheRest

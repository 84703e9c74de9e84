\* Every sequence of runs, nullifications and rebuilds, with and without --schema
\* and --lang.
SPECIFICATION Spec
CONSTANTS
  Texts <- MCTexts
  ErrTexts <- MCErrTexts
  Files <- MCFiles
  Languages = {"pl"}
  Schemas = {"new"}
INVARIANTS
  StoredTextIsKept
PROPERTIES
  PassMeansMatch
  OnlyNewlinesAreForgotten
  FilledStaysFilled

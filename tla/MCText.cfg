SPECIFICATION Spec
CONSTANTS
  Lists <- MCLists
  LineTexts <- MCLineTexts
  Templates <- MCTemplates
  Runtimes <- MCRuntimes
  TempDirs <- MCTempDirs
  TestPatches <- MCTestPatches
  Projects <- MCProjects
  Declared <- MCDeclared
INVARIANTS
  ArgumentsSurvive
  DiffTellsBoth
  SameTextEveryRun
  ProjectIsRead

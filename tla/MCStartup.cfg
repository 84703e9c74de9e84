\* Two executions, three starts in all, for projects with other components and
\* other presets.
SPECIFICATION Spec
CONSTANTS
  Procs = {p1, p2}
  Projects <- MCProjects
  Repositories <- MCRepositories
  MaxStarts = 3
SYMMETRY Symmetry
INVARIANTS
  InstallIsWhole
  GitIdentity
  PresetsResolve
CHECK_DEADLOCK FALSE

CONSTANTS
  f1 = f1
  f2 = f2
  f3 = f3
  r1 = r1
  r2 = r2
  r3 = r3
  NoFile = NoFile
  NoOutcome = NoOutcome
  File <- MCFile
  Read <- MCRead
SPECIFICATION Spec
SYMMETRY Symmetry
INVARIANTS
  ShownBelongs
  ToolInv

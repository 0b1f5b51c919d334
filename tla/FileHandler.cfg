CONSTANTS
  a = a
  b = b
  c = c
  Thread <- MCThread
  Byte <- MCByte
  Zero = 0
  Content <- MCContent
  Direct = 3
  Unknown = Unknown
SYMMETRY MCSymmetry
SPECIFICATION Spec
INVARIANTS
  FileInv
  ReadsBack
  NothingInvented

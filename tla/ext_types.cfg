\* Two threads register and log, over two lives of the library.
CONSTANTS
  bt = bt
  hex = hex
  c1 = c1
  c2 = c2
  Threads = {t1, t2}
  Callbacks <- Registered
  BtCallback = bt
  HexCallback = hex
  Slots = {s1}
  DynamicStart = 3
  MaxEntries = 4
  MaxLives = 2
  Null = Null
SYMMETRY ThreadSymmetry
SPECIFICATION Spec
INVARIANTS
  ExtTypeOK
  TableFits
  PrintCallFits
  StoredPrintable
PROPERTY ImplementsTypeRegistry

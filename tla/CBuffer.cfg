SPECIFICATION Spec
CONSTANTS
  Size = 2
  Wrap = 4
  Packets = {k1, k2}
  Producers = {valve, card}
  Owner = valve
  Unlocked = {valve}
  Blank = Blank
  Foreign = Foreign
INVARIANTS
  TypeOK
  NoCellShared
  WholePacketsOnly
PROPERTIES
  ImplementsFifo

\* A ring of four slots (three usable) and two distinguishable items.
CONSTANTS
  Capacity = 4
  Items = {a, b}
  NULL = NULL
SPECIFICATION FairSpec
INVARIANTS TypeOK NoSlotRace
PROPERTIES ImplementsFifo FullDrains

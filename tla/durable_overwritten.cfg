SPECIFICATION Spec
CONSTANTS
  MaxIndex = 3
  Entries <- MCEntries
  Decided <- MCDecided
  Dummy = Dummy
  Emulation = {"write_at"}
INVARIANTS
  NotDurableEarly

SPECIFICATION FairSpec
CONSTANTS
  MaxIndex = 4
  Entries <- MCEntries
  Decided <- MCDecided
  Dummy = Dummy
  Emulation = {}
INVARIANTS
  TypeOK
  NoGap
  AppliesDecided
  NotDurableEarly
PROPERTIES
  ImplementsRaftLog
  BecomesDurable
  CommittedIsApplied

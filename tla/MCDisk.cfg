CONSTANTS
  Thread = {t1, t2}
  Root = {ra}
  NoRoot = NoRoot
  NoKey = NoKey
  EntryKey <- MCEntryKey
  NameOf <- MCNameOf
  Length = {1, 2}
  BudgetBytes = 1
  MinBudgetBytes = 1
  MinBudgetEntries = 1
  MaxOps = 3
  MaxEpoch = 2
SYMMETRY MCSymmetry
SPECIFICATION Spec
INVARIANTS
  LoadIsFaithful
  PublishedWhole
  CountIsOfThisDirectory
  SweepingIsHeld
  NeverUnderReported
CHECK_DEADLOCK TRUE

SPECIFICATION Spec
CONSTANTS
  MaxEntries = 3
  EntrySizes <- MCEntrySizes
  Quotas = {0, 3, 5}
  Unlimited = 99
  Headrooms <- MCHeadrooms
  FreeSpaces <- MCFreeSpaces
  Requireds <- MCRequireds
INVARIANTS EvictsOldestFirst EvictsExactlyEnough ResultIsHonest

SPECIFICATION ExportSpec
CONSTANTS
  Titles <- MCTitles
  Cleaned <- MCCleaned
  Limits = {2}
  MaxSaves = 4
  MaxExports = 2
INVARIANTS
  LinksLead
  MapHolds
CHECK_DEADLOCK FALSE

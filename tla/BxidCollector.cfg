SPECIFICATION FairSpec
CONSTANTS
  Order <- MCOrder
  Bif = "bif"
  MinBifBxid <- MinusOne
  Mandatory = {"ahcal"}
  Keys <- MCKeys
  NoTag = NoTag
  MaxTable = 1
  MaxBad = 1
INVARIANT MergedSorted
PROPERTIES ImplementsMerge BuildReturns

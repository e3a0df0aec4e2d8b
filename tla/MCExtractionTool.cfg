SPECIFICATION ToolSpec
CONSTANTS
  NoDirectory = NoDirectory
  GlobalIds <- AllGlobalIds
  IndexableIds <- TenLetters
  UpperCase <- InCapitals
  ShortIds <- Short
  ForeignTexts <- Foreign
  Requests <- AllRequests
  Games <- SampleGames
  Inspections <- SampleInspections
  SheetCapacity = 1
  MaxFaults = 1
  MaxRuns = 2
INVARIANTS
  WhatIsWrittenIsRead
  ReportsAreRight
  PackagesAreRight
PROPERTY BuildIsAllOrNothing
CHECK_DEADLOCK FALSE

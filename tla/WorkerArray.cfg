SPECIFICATION ArraySpec

CONSTANTS
  MaxWorkers = 4
  Size = 3

PROPERTIES
  RemovesTheOneAsked

\* Overlapping calls of two keys, from the method to the documents.
SPECIFICATION Spec
CONSTANTS
  NumKeys = 2
  FirstNonce = 255
  MaxCalls = 2
  MaxAtOnce = 2
INVARIANTS TypeOK ExecutedAsAsked OutdatedLostARace DocumentsAreTheRecords
PROPERTIES EveryCallReturns
CHECK_DEADLOCK FALSE

\* Two live handlers, against the comment where a record is completed.
SPECIFICATION Spec
CONSTANTS
  L1Tokens = {t}
  FirstToken = t
  Amounts = {2}
  GWei = 2
  MaxTopUps = 2
  MaxCrashes = 0
  MaxFailures = 0
  MaxOthers = 0
INVARIANTS CompletedMeansCredited
CHECK_DEADLOCK FALSE

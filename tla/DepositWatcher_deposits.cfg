\* Top-ups of two tokens, one amount below a unit, crashes and a failing call.
SPECIFICATION FairSpec
CONSTANTS
  L1Tokens = {t, u}
  FirstToken = t
  Amounts = {1, 2}
  GWei = 2
  MaxTopUps = 2
  MaxCrashes = 2
  MaxFailures = 1
  MaxOthers = 1
INVARIANTS TypeOK CreditedOnce UncreditedWasRefused
PROPERTIES RecordsOnlyAdvance EveryTopUpIsSettled
CHECK_DEADLOCK FALSE

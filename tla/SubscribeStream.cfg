SPECIFICATION FairSpec
CONSTANTS
  Msg = {m1, m2}
  MaxMessages = 2
  MaxFailures = 1
  MaxSessions = 2
INVARIANTS NoNeedlessDuplicate PromptStop GivesUpOnTime
PROPERTIES AtLeastOnce EndsWhenTold OutageEnds EveryEventSettles
CHECK_DEADLOCK FALSE

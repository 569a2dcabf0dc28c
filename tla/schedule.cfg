\* One slot, two workspaces, two failures, crashes or manual runs.
SPECIFICATION FairSpec
CONSTANTS
  w1 = w1
  w2 = w2
  once = once
  daily = daily
  often = often
  Workspace = {w1, w2}
  Issue = {once, daily, often}
  Home <- HomeDef
  When <- WhenDef
  Manual = Manual
  Never = Never
  NoIssue = NoIssue
  Lookback = 1
  Epoch = 2
  MaxNow = 4
  MAX_CONCURRENT_HEADLESS = 1
  MaxEvents = 2
INVARIANTS
  ScheduleTypeOK
  CapHolds
  NoZombies
  MarkersTrue
PROPERTIES
  NeverFiresEarly
  DueFires
CHECK_DEADLOCK FALSE

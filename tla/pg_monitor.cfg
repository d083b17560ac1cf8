SPECIFICATION FairSpec
CONSTANTS
  PgFailThreshold = 3
  Top = 4
  Changes = 5
PROPERTY EnoughFailures DeadPrimaryGivesUp StandbyForgets

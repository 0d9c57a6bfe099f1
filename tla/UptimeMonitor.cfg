SPECIFICATION Spec
CONSTANTS
  Tlds = {kin, fork}
  Jobs = {cron, manual}
  Scheduled = cron
  FailureLimit = 2
  MaxEdits = 3
INVARIANTS
  TypeOK
  OfflineEarned
PROPERTY
  OfflineLifted
  BadgeSettles

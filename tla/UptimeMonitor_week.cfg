SPECIFICATION Spec
CONSTANTS
  Tlds = {kin}
  Jobs = {cron}
  Scheduled = cron
  FailureLimit = 7
  MaxEdits = 1
PROPERTY
  SevenDayRule

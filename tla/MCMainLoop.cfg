SPECIFICATION FairSpec
CONSTANTS
  Period = 5
  ErrorRetry = 1
  MaxErrors = 4
  MaxWork = 6
INVARIANTS UploadsAreAllowed OnSchedule NeverBlockedByItself
PROPERTIES SyncIsServed TermIsObeyed

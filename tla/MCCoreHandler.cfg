SPECIFICATION FairSpec
CONSTANTS
  Ctls = {ctl1, ctl2}
  Handlers = {core1, core2}
  Base <- MCBase
  Assigned <- MCAssigned
  Budgets <- Mixes
  Count = 2
  Duration = 2
  MaxSize = 3
  Headroom <- MCHeadroom
  Spaces <- MCSpaces
INVARIANTS SettingsStick NeverBehindConfirmed LimitHolds
PROPERTIES DaemonComesBack ConfigConverges
CHECK_DEADLOCK FALSE

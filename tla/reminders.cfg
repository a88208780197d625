SPECIFICATION FairSpec
CONSTANTS
  discord = discord
  zulip = zulip
  d1 = d1
  d2 = d2
  z1 = z1
  rd1 = rd1
  Rows = {rd1}
  Loops = {d1, d2, z1}
  Platforms = {discord, zulip}
  RowPlatform <- MCRowPlatform
  LoopPlatform <- MCLoopPlatform
  None = none
  MaxSendAttempts = 2
  MaxInterrupts = 2
INVARIANTS
  DeliveredWasSent
  BoundedDuplicates
  SendingIsClaimed
PROPERTIES
  TerminalIsFinal
  EventuallySettled
CHECK_DEADLOCK FALSE

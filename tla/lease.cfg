SPECIFICATION Spec
CONSTANTS
  HeartbeatEvery = 1
  Lease = 5
  PollEvery = 1
  CallTime = 1
  FlushTime = 1
  MaxTime = 22
  MaxOutages = 2
  MaxCrashes = 1
INVARIANTS
  LetsGoInTime
  SilenceIsNoticed
  LeaseIsKept

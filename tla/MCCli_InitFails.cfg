\* A failed Initialize leaves the daemon unlocked: writes it acknowledges are lost once it locks.
SPECIFICATION Spec
CONSTANTS
  Passwords = {pw1, pw2}
  Paths = {a}
  Values = {v1}
  MaxSalt = 1
  MaxTime = 2
  WriteOutcomes <- FailingDisk
  Clients = {c1}
  CliProcs = {c1}
  Requests <- AllRequests
  OtherRequests <- ExclusiveRequests
  Commands <- AllCommands
  AutoLockDuration = 2
  MaxTimers = 2
  VerificationMagic = VerificationMagic
  None = None
  NoFile = NoFile
  Torn = Torn
  Missing = Missing
  NoTime = NoTime
  NoPassword = NoPassword
  Unreadable = Unreadable
  Unknown = Unknown
CHECK_DEADLOCK FALSE
INVARIANT AckedWritesHold

\* A CLI process running any command and another client sending exclusive requests, on a healthy disk.
SPECIFICATION Spec
CONSTANTS
  Passwords = {pw1, pw2}
  Paths = {a}
  Values = {v1}
  MaxSalt = 1
  MaxTime = 2
  WriteOutcomes <- HealthyDisk
  Clients = {c1, c2}
  CliProcs = {c1}
  Requests <- AllRequests
  OtherRequests <- ExclusiveRequests
  Commands <- AllCommands
  AutoLockDuration = 2
  MaxTimers = 2
  VerificationMagic = VerificationMagic
  None = None
  NoFile = NoFile
  Torn = Torn
  Missing = Missing
  NoTime = NoTime
  NoPassword = NoPassword
  Unreadable = Unreadable
  Unknown = Unknown
CHECK_DEADLOCK FALSE
INVARIANT AckedWritesHold
PROPERTY AutoLockEventually

\* A request served between Shutdown's store.Lock and server.Shutdown unlocks the vault again.
SPECIFICATION Spec
CONSTANTS
  Passwords = {pw1, pw2}
  Paths = {a}
  Values = {v1}
  MaxSalt = 1
  MaxTime = 2
  WriteOutcomes <- HealthyDisk
  Clients = {c1, c2}
  Requests <- AllRequests
  AutoLockDuration = 2
  MaxTimers = 3
  VerificationMagic = VerificationMagic
  None = None
  NoFile = NoFile
  Torn = Torn
  Missing = Missing
  NoTime = NoTime
  NoPassword = NoPassword
  Unreadable = Unreadable
CHECK_DEADLOCK FALSE
INVARIANT ShutdownLocks

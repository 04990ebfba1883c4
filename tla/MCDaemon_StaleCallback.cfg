\* A timer that fired while a handler held s.mu still locks after that handler reset the timer.
SPECIFICATION Spec
CONSTANTS
  Passwords = {pw1, pw2}
  Paths = {a}
  Values = {v1}
  MaxSalt = 1
  MaxTime = 2
  WriteOutcomes <- HealthyDisk
  Clients = {c1, c2}
  Requests <- ExclusiveRequests
  AutoLockDuration = 2
  MaxTimers = 3
  VerificationMagic = VerificationMagic
  None = None
  NoFile = NoFile
  Torn = Torn
  Missing = Missing
  NoTime = NoTime
  NoPassword = NoPassword
  Unreadable = Unreadable
CHECK_DEADLOCK FALSE
PROPERTY NoEarlyAutoLock

\* On a failing disk, a daemon over an existing vault: a lock whose save fails leaves the vault unlocked for good.
SPECIFICATION ExistingVaultSpec
CONSTANTS
  Passwords = {pw1, pw2}
  Paths = {a}
  Values = {v1}
  MaxSalt = 1
  MaxTime = 2
  WriteOutcomes <- FailingDisk
  Clients = {c1, c2}
  Requests <- ExclusiveRequests
  AutoLockDuration = 2
  MaxTimers = 3
  VerificationMagic = VerificationMagic
  None = None
  NoFile = NoFile
  Torn = Torn
  Missing = Missing
  NoTime = NoTime
  NoPassword = NoPassword
  Unreadable = Unreadable
CHECK_DEADLOCK FALSE
PROPERTY AutoLockEventually

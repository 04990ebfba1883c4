\* The store on a disk whose writes may fail or tear, with crashes: every load-failure path is reached.
CONSTANTS
  Passwords = {pw1, pw2}
  Paths = {a, b}
  Values = {v1}
  MaxSalt = 3
  MaxTime = 3
  WriteOutcomes <- TearingDisk
  VerificationMagic = VerificationMagic
  None = None
  NoFile = NoFile
  Torn = Torn
  Missing = Missing
  NoTime = NoTime
  NoPassword = NoPassword
  Unreadable = Unreadable
SPECIFICATION Spec
PROPERTY LockKeepsPendingWrites

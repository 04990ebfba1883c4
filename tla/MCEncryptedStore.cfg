\* The store on a healthy disk, with crashes: it refines Vault.
CONSTANTS
  Passwords = {pw1, pw2}
  Paths = {a, b}
  Values = {v1, v2}
  MaxSalt = 3
  MaxTime = 3
  WriteOutcomes <- HealthyDisk
  VerificationMagic = VerificationMagic
  None = None
  NoFile = NoFile
  Torn = Torn
  Missing = Missing
  NoTime = NoTime
  NoPassword = NoPassword
  Unreadable = Unreadable
SPECIFICATION Spec
INVARIANT DiskDecryptable
PROPERTY RefinesVault

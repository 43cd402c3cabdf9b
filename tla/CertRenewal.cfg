SPECIFICATION Spec
CONSTANTS
  c1 = c1
  c2 = c2
  old = old
  elsewhere = elsewhere
  challenge = challenge
  Clients = {c1}
  Names = {challenge}
  Values <- MCValues
  Stale = old
  ChallengeName <- MCChallengeName
  UserRecords = {}
  MaxCerts <- MCMaxCerts
  MaxFaults = 1
  MaxUserSets = 0
CHECK_DEADLOCK FALSE
PROPERTIES
  RenewsBeforeExpiry

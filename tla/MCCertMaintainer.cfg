SPECIFICATION Spec
CONSTANTS
  c1 = c1
  c2 = c2
  old = old
  elsewhere = elsewhere
  challenge = challenge
  Clients = {c1, c2}
  Names = {challenge}
  Values <- MCValues
  Stale = old
  ChallengeName <- MCChallengeName
  UserRecords <- MCUserRecords
  MaxCerts <- MCMaxCerts
  MaxFaults = 1
  MaxUserSets = 1

INVARIANTS
  RestartIsSafe
  IndInv
  ChallengeServed
  NothingFailsByItself
PROPERTIES
  EventuallyServing
  RenewedOrEnded

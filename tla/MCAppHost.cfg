SPECIFICATION Spec
CONSTANTS
  app = app
  r1 = r1
  r2 = r2
  Apps = {app}
  Requests = {r1, r2}
  MaxInst = 2
  MaxEdits = 2
  MaxFaults = 1
INVARIANTS
  WritesAreWhole
  IndInv
  WhatAReloadCosts
  NeverStuckStale
PROPERTIES
  EditsReachTheApps
CHECK_DEADLOCK FALSE

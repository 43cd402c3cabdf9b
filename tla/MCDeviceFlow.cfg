SPECIFICATION Spec
CONSTANTS
    u1 = u1  u2 = u2  b1 = b1  b2 = b2  d1 = d1  x1 = x1  x2 = x2
    User = {u1, u2}
    Browser = {b1, b2}
    Device = {d1}
    Handler = {1, 2}
    Domain = {x1, x2}
    Available = {x1, x2}
    Owner0 <- MCOwner
    MaxFaults = 1
    None = None
INVARIANTS
    IndInv
    TokenWasApproved
    SetupIsUsable
PROPERTIES
    ApprovedGetsToken

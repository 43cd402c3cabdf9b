SPECIFICATION Spec
CONSTANTS
    c1 = c1  c2 = c2  c3 = c3  d1 = d1
    k1 = k1  k2 = k2  k3 = k3  r1 = r1  r2 = r2
    Client = {c1, c2, c3}
    Domain = {d1}
    DomainOf <- MCDomainOf
    Allowed = {c1, c2}
    Conn = {k1, k2, k3}
    Request = {r1, r2}
    MaxStreams = 1
    MaxFaults = 1
    None = None
SYMMETRY MCSymmetry
INVARIANTS
    IndInv
    EntryHasOwner
    RegisteredIsFound
    RoutedToOwner

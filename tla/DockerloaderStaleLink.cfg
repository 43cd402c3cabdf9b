SPECIFICATION Spec
CONSTANTS
    v1 = v1
    v2 = v2
    v3 = v3
    b1 = b1
    b2 = b2
    b3 = b3
    None = None
    Version = {v1, v2, v3}
    Blob = {b1, b2, b3}
    LayersOf <- MCLayers
    Broken = {v3}
    Indexed = {v2}
    MaxPublish = 2
    MaxFaults = 1
PROPERTY NewVersionTried

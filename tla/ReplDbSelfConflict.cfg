SPECIFICATION Spec
CONSTANTS
    c1 = c1  c2 = c2
    Client = {c1, c2}
    Zero = Zero  Empty = Empty  None = None
    MaxPages = 3
    MaxFrames = 3
    MaxVersion = 2
    MaxWrites = 3
PROPERTY
    RefusedOnlyByOthers

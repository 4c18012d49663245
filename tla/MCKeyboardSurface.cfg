SPECIFICATION Spec
CONSTANTS
    MaxLayer = 2
    Content = {"letters", "symbols"}
    Size = {"asked", "other"}
    Scale = {1, 2}
    Output = {"left", "right"}
INVARIANTS
    AttachAfterConfigure
    FramePaced
    NeverWrongSize
PROPERTIES
    CatchesUp

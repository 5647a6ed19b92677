\* All operations on all backends, two view transformations per request.
CONSTANTS
    Tile = 4
    WordBits = 8
    SizeMax = 1048575
    LeafBits <- MCLeafBits
    Owners <- MCOwners
    Device = "dev1"
    BinaryLeaves = {"half", "cross", "word"}
    IndexLeaves = {"word"}
    FloatLeaves = {"half", "cross", "double"}
    SdpaLeaves = {"half"}
    LinearLeaves = {"half", "cross", "word"}
    RopeMaxPosition = 4095
    Starts <- MCStarts
    SliceArgs <- MCSliceArgs
    ReshapeArgs <- MCReshapeArgs
    Scalars <- MCScalars
    Workspaces <- MCWorkspaces
    MaxDerive = 2
SPECIFICATION Spec
CHECK_DEADLOCK FALSE
INVARIANT OutputExact
INVARIANT RaceFree
INVARIANT ComputesContract
PROPERTY DerivedViewsStayInside

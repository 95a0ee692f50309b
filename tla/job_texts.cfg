CONSTANTS
    NSteps = 2
    NShards = 3
    MaxDispatch = 2
    Asked <- Chain
    Lengths = {1, 9}
    Overlap = 2
    NoText = NoText
    Says = {"long", "empty"}
SPECIFICATION TextsSpec
CONSTRAINT FewTexts
INVARIANTS
    SplitIsSound
    OutputIsSound
    ChildReadsWhatWasRecorded
CHECK_DEADLOCK FALSE

SPECIFICATION FairSpec
CONSTANT Ids = {"a", "b", "c"}
INVARIANTS
    NoDescriptorLeft
    SuccessMeansAllChecked
PROPERTY SampleCompletes

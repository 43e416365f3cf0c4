SPECIFICATION Spec
CONSTANT Ids = {"a", "b"}
PROPERTY OthersAreStillChecked

SPECIFICATION Spec
CONSTANTS
  Keys = {"alice", "bob"}
  Cap = 4
  Cost = 2
  BucketMax = 1
  Horizon = 8
INVARIANTS
  RateBounded
PROPERTIES
  BucketSpec

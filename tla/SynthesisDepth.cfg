SPECIFICATION Spec
CONSTANTS
  s0 = s0
  s1 = s1
  s2 = s2
  s3 = s3
  o1 = o1
  o2 = o2
  o3 = o3
  pair = pair
  true = true
  false = false
  Raised = Raised
  Programs <- AllPrograms
CHECK_DEADLOCK FALSE
INVARIANTS
  DepthBoundReported

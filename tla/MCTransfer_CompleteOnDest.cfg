CONSTANTS
  NodeCount <- MCNodeCount
  NodeSize <- MCNodeSize
  FreeDest <- MCFreeDest

SPECIFICATION Spec

\* A transfer really stops: after it completes or ends, or when create fails.
CHECK_DEADLOCK FALSE

INVARIANT CompleteOnDest

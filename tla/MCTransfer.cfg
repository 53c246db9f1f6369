CONSTANTS
  NodeCount <- MCNodeCount
  NodeSize <- MCNodeSize
  FreeDest <- MCFreeDest

SPECIFICATION FairSpec

\* A transfer really stops: after it completes or ends, or when create fails.
CHECK_DEADLOCK FALSE

INVARIANT TypeOK
INVARIANT PhaseBugFree
INVARIANT CompleteProgress
PROPERTY NodeBarrier
PROPERTY TransferEnds
PROPERTY AbsSpec

CONSTANTS
  MaxVersion <- MCMaxVersion
  VersionCap <- MCVersionCap

SPECIFICATION FairSpec

INVARIANT TypeOK
INVARIANT AncestorCorrect
INVARIANT SiblingListsWellFormed
INVARIANT SnapshotOldest
INVARIANT RestoreFitsCap
PROPERTY LoopsTerminate

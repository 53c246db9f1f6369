CONSTANTS
  C_BLK_SIZE <- MCBlk
  OBJ_IO_MAX_BUFFER_SIZE <- MCWindow
  MAX_INLINE_VAL_SIZE <- MCInline
  Lengths <- MCLengths
  FrameMax <- MCFrameMax
  NBlocks <- MCNBlocks
  MaxPuts <- MCMaxPuts
  MaxGets <- MCMaxGets

SPECIFICATION FairSpec

\* The client issues MaxPuts replaces and MaxGets gets and then stops.
CHECK_DEADLOCK FALSE

INVARIANT TypeOK
INVARIANT WriteWithinExtent
INVARIANT ReadWithinExtent
INVARIANT ReplyLengthExact
INVARIANT NoBlockLeak
PROPERTY GetTerminates
